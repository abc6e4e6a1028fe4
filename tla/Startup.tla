------------------------------- MODULE Startup -------------------------------
(***************************************************************************)
(* How a process becomes a worker: the native binary builds one on its     *)
(* main thread, in a container after the entry script has picked a mode;   *)
(* the browser module prepares its environment on the main thread          *)
(* (wasm_init) and then builds one on every serve thread.  All of them go  *)
(* through catalog_name, which tests, sets and reads a variable of the     *)
(* whole process in three separate steps (std locks each step alone).      *)
(***************************************************************************)
EXTENDS Sequences

CONSTANTS Threads,     \* the serve threads of the browser module
          Main,        \* the main thread
          Names,       \* texts a variable can hold
          Pprof,       \* the default of the catalog's name
          Memory,      \* the storage backend of the browser module
          Unset, NotUnicode,
          Words,       \* the words of a container's arguments
          Arguments,   \* the argument lists a container is run with
          NoMode       \* before the entry script has picked one

ASSUME ThreadsAssumption == Main \notin Threads
ASSUME NamesAssumption ==
  {Pprof, Memory} \subseteq Names /\ Unset \notin Names /\ NotUnicode \notin Names
  /\ Unset # NotUnicode
ASSUME ArgumentsAssumption ==
  Arguments \subseteq Seq(Words) /\ {"http", "tcp", "stdio"} \subseteq Words /\ NoMode \notin Words

Values   == Names \cup {Unset, NotUnicode}
Builders == Threads \cup {Main}

VARIABLES
  given,      \* the environment the process was started with
  catalogVar, \* VGI_WORKER_CATALOG_NAME now
  storageVar, \* VGI_WORKER_SHARED_STORAGE now
  pc,         \* where each thread is
  mode, rest, \* the mode a container runs in, the arguments left for the program
  name        \* catalog_name's result, the name of the worker a thread built

env  == <<given, catalogVar, storageVar>>
args == <<mode, rest>>
vars == <<env, args, pc, name>>

MainStages == {"shell", "dead", "other", "init", "init_set", "ready"}
Stages     == {"idle", "test", "set", "read", "build", "serving"}

TypeOK ==
  /\ given \in [catalog : Values, storage : Values, args : Arguments]
  /\ mode \in Words \cup {NoMode} /\ rest \in Seq(Words)
  /\ catalogVar \in Values /\ storageVar \in Values
  /\ pc \in [Builders -> Stages \cup MainStages]
  /\ name \in [Builders -> Values]

\* The browser's main thread starts in wasm_init, the native one in build_worker, a
\* container in its entry script.
Init ==
  /\ given \in [catalog : Values, storage : Values, args : Arguments]
  /\ mode = NoMode /\ rest = given.args
  /\ catalogVar = given.catalog /\ storageVar = given.storage
  /\ \E start \in {"init", "test", "shell"} :
       pc = [t \in Builders |-> IF t = Main THEN start ELSE "idle"]
  /\ name = [t \in Builders |-> Unset]

Go(t, stage) == pc' = [pc EXCEPT ![t] = stage]

\* docker-entrypoint.sh: no argument and an empty one ask for http; any argument but
\* the modes is a program of its own.
WorkerModes == {"http", "tcp", "stdio"}
Asked == IF rest = <<>> \/ rest[1] = "" THEN "http" ELSE rest[1]

\* Faulty variant: the mode stays among the worker's arguments.
EnterModeUnshifted ==
  /\ pc[Main] = "shell" /\ Asked \in WorkerModes
  /\ IF rest = <<>> THEN Go(Main, "dead") /\ UNCHANGED args
     ELSE Go(Main, "test") /\ mode' = Asked /\ UNCHANGED rest
  /\ UNCHANGED <<env, name>>

\* shift ends a POSIX shell that has nothing to shift, whatever follows the ||;
\* otherwise the worker takes the shell's place.
EnterMode ==
  /\ pc[Main] = "shell" /\ Asked \in WorkerModes
  /\ IF rest = <<>> THEN Go(Main, "dead") /\ UNCHANGED args
     ELSE Go(Main, "test") /\ mode' = Asked /\ rest' = Tail(rest)
  /\ UNCHANGED <<env, name>>

ExecOther ==
  /\ pc[Main] = "shell" /\ Asked \notin WorkerModes /\ Go(Main, "other")
  /\ UNCHANGED <<env, args, name>>

\* wasm_init.
TestStorage ==
  /\ pc[Main] = "init"
  /\ Go(Main, IF storageVar = Unset THEN "init_set" ELSE "ready")
  /\ UNCHANGED <<env, args, name>>

SetStorage ==
  /\ pc[Main] = "init_set" /\ storageVar' = Memory /\ Go(Main, "ready")
  /\ UNCHANGED <<given, catalogVar, args, name>>

\* Faulty variant: the entry points do not wait for the hook.
ServeWithoutInit(t) ==
  /\ t \in Threads /\ pc[Main] \in MainStages /\ pc[t] = "idle" /\ Go(t, "test")
  /\ UNCHANGED <<env, args, name>>

\* A ring slot gets a serve thread, once the hook has returned.
Serve(t) ==
  /\ t \in Threads /\ pc[Main] = "ready" /\ pc[t] = "idle" /\ Go(t, "test")
  /\ UNCHANGED <<env, args, name>>

\* Faulty variant: var instead of var_os takes a name that is no text for none.
TestNameAsText(t) ==
  /\ pc[t] = "test" /\ Go(t, IF catalogVar \in Names THEN "read" ELSE "set")
  /\ UNCHANGED <<env, args, name>>

\* catalog_name: is the variable there?
TestName(t) ==
  /\ pc[t] = "test" /\ Go(t, IF catalogVar = Unset THEN "set" ELSE "read")
  /\ UNCHANGED <<env, args, name>>

\* Faulty variant: the default is used and not exported.
SetNothing(t) ==
  /\ pc[t] = "set" /\ Go(t, "read")
  /\ UNCHANGED <<env, args, name>>

SetName(t) ==
  /\ pc[t] = "set" /\ catalogVar' = Pprof /\ Go(t, "read")
  /\ UNCHANGED <<given, storageVar, args, name>>

\* Faulty variant: the value is unwrapped to an empty name, not to the default.
ReadNameOrNone(t) ==
  /\ pc[t] = "read" /\ Go(t, "build")
  /\ name' = [name EXCEPT ![t] = IF catalogVar \in Names THEN catalogVar ELSE NotUnicode]
  /\ UNCHANGED <<env, args>>

\* var(..).unwrap_or_else(default).
ReadName(t) ==
  /\ pc[t] = "read" /\ Go(t, "build")
  /\ name' = [name EXCEPT ![t] = IF catalogVar \in Names THEN catalogVar ELSE Pprof]
  /\ UNCHANGED <<env, args>>

\* Worker::new, register, set_catalog; then run or serve_reader_writer.
BuildWorker(t) ==
  /\ pc[t] = "build" /\ Go(t, "serving")
  /\ UNCHANGED <<env, args, name>>

\* A serve thread's stream ends and the pool has the thread back.
StreamEnds(t) ==
  /\ t \in Threads /\ pc[t] = "serving" /\ Go(t, "idle")
  /\ name' = [name EXCEPT ![t] = Unset]
  /\ UNCHANGED <<env, args>>

Thread(t) == \/ Serve(t) \/ TestName(t) \/ SetName(t) \/ ReadName(t)
             \/ BuildWorker(t) \/ StreamEnds(t)

Next == EnterMode \/ ExecOther \/ TestStorage \/ SetStorage \/ \E t \in Builders : Thread(t)

Spec == Init /\ [][Next]_vars

-------------------------------------------------------------------------------
\* The name the environment asks for.
AskedFor == IF given.catalog \in Names THEN given.catalog ELSE Pprof

Serving == {t \in Builders : pc[t] = "serving"}

\* Every worker of the process, on whatever thread and however the threads
\* interleave, is in the catalog the environment asked for (lib.rs:415-417): an
\* override is honoured, and no thread sees another one's half-done default.
OneCatalog == \A t \in Serving : name[t] = AskedFor

\* While a worker serves, code that looks the variables up itself finds what the
\* worker was built with: the exported name unless it is no text, and in the browser
\* a storage backend (lib.rs:417, pprof-wasm/src/lib.rs:15-18).
EnvironmentIsExported ==
  \A t \in Serving :
    /\ catalogVar \in {name[t], NotUnicode}
    /\ t # Main => storageVar # Unset

\* What was given in the environment is never replaced, by any thread
\* (lib.rs:416, pprof-wasm/src/lib.rs:21).
GivenIsKept ==
  [][/\ catalogVar # Unset => catalogVar' = catalogVar
     /\ storageVar # Unset => storageVar' = storageVar]_vars

\* A container whose worker serves was asked for that mode, and the worker got the
\* arguments after it (docker-entrypoint.sh:4-9).
ContainerKeepsArguments ==
  mode # NoMode => /\ given.args # <<>> /\ rest = Tail(given.args)
                   /\ mode = IF given.args[1] = "" THEN "http" ELSE given.args[1]

\* The entry script serves HTTP unless told otherwise (docker-entrypoint.sh:5); it does
\* not when it is run with no argument at all.
HttpIsTheDefault == given.args = <<>> => pc[Main] # "dead"

\* Inductive: what each stage has established about the variables.
NameIsDecided ==
  /\ catalogVar \in {given.catalog, Pprof}
  /\ given.catalog # Unset => catalogVar = given.catalog
  /\ \A t \in Builders :
       /\ pc[t] = "set" => given.catalog = Unset
       /\ pc[t] \in {"read", "build", "serving"} => catalogVar # Unset
       /\ pc[t] \in {"build", "serving"} => name[t] = AskedFor

StorageIsDecided ==
  /\ pc[Main] = "init_set" => storageVar = Unset
  /\ pc[Main] = "ready" => storageVar # Unset
  /\ \A t \in Threads : /\ pc[t] \in Stages
                        /\ pc[t] # "idle" => pc[Main] = "ready"

ModeIsDecided ==
  /\ pc[Main] = "shell" => rest = given.args /\ mode = NoMode
  /\ ContainerKeepsArguments

IndInv == TypeOK /\ NameIsDecided /\ StorageIsDecided /\ ModeIsDecided
=============================================================================
