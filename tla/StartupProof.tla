----------------------------- MODULE StartupProof -----------------------------
(***************************************************************************)
(* For any number of serve threads: one catalog, an exported environment,  *)
(* and no given variable replaced.                                         *)
(***************************************************************************)
EXTENDS Startup, SequenceTheorems, TLAPS

USE ThreadsAssumption, NamesAssumption, ArgumentsAssumption

\* The process starts with its environment as given and nothing decided.
LEMMA InitIndInv == Init => IndInv
<1> SUFFICES ASSUME Init PROVE IndInv
  OBVIOUS
<1> PICK start \in {"init", "test", "shell"} :
      pc = [t \in Builders |-> IF t = Main THEN start ELSE "idle"]
  BY DEF Init
<1>1. TypeOK
  BY DEF Init, TypeOK, Values, Builders, Stages, MainStages
<1>2. \A t \in Builders : pc[t] \in {"init", "test", "shell", "idle"}
  OBVIOUS
<1>3. NameIsDecided
  BY <1>2 DEF Init, NameIsDecided, Values
<1>4. StorageIsDecided
  BY DEF Init, StorageIsDecided, Builders, Stages
<1>5. ModeIsDecided
  BY DEF Init, ModeIsDecided, ContainerKeepsArguments
<1> QED
  BY <1>1, <1>3, <1>4, <1>5 DEF IndInv

\* Each step of a thread keeps what every stage has established: a variable that was
\* there stays, and the default is only set where nothing was given.
LEMMA StepIndInv == IndInv /\ [Next]_vars => IndInv'
<1> SUFFICES ASSUME IndInv, [Next]_vars PROVE IndInv'
  OBVIOUS
<1> USE DEF IndInv, TypeOK, NameIsDecided, StorageIsDecided, ModeIsDecided,
            ContainerKeepsArguments, AskedFor, Values, Builders, Stages, MainStages, Go,
            env, args
<1>1. CASE EnterMode
  <2>1. CASE rest = <<>>
    BY <1>1, <2>1 DEF EnterMode
  <2>2. CASE rest # <<>>
    <3>1. /\ pc' = [pc EXCEPT ![Main] = "test"] /\ mode' = Asked /\ rest' = Tail(rest)
          /\ UNCHANGED <<given, catalogVar, storageVar, name>>
      BY <1>1, <2>2 DEF EnterMode
    <3>2. rest[1] \in Words /\ Tail(rest) \in Seq(Words)
      <4>1. rest \in Seq(Words)
        OBVIOUS
      <4> HIDE DEF TypeOK, IndInv
      <4> QED
        BY <4>1, <2>2, HeadTailProperties
    <3>3. TypeOK'
      <4>1. mode' \in Words /\ rest' \in Seq(Words)
        <5>1. Asked \in WorkerModes
          BY <1>1 DEF EnterMode
        <5> QED
          BY <3>1, <3>2, <5>1, ArgumentsAssumption DEF WorkerModes
      <4>2. pc' \in [Builders -> Stages \cup MainStages]
        BY <3>1
      <4> QED
        BY <3>1, <4>1, <4>2
    <3>4. ModeIsDecided'
      BY <1>1, <2>2, <3>1, <3>2 DEF EnterMode, Asked
    <3>5. NameIsDecided' /\ StorageIsDecided'
      BY <1>1, <3>1 DEF EnterMode
    <3> QED
      BY <3>3, <3>4, <3>5
  <2> QED
    BY <2>1, <2>2
<1>2. CASE ExecOther
  BY <1>2 DEF ExecOther
<1>3. CASE TestStorage
  BY <1>3 DEF TestStorage
<1>4. CASE SetStorage
  BY <1>4 DEF SetStorage
<1>5. ASSUME NEW t \in Builders, Serve(t) PROVE IndInv'
  BY <1>5 DEF Serve
<1>6. ASSUME NEW t \in Builders, TestName(t) PROVE IndInv'
  BY <1>6 DEF TestName
<1>7. ASSUME NEW t \in Builders, SetName(t) PROVE IndInv'
  <2>1. TypeOK'
    BY <1>7 DEF SetName
  <2>2. ModeIsDecided' /\ StorageIsDecided'
    BY <1>7 DEF SetName
  <2>3. NameIsDecided'
    BY <1>7 DEF SetName
  <2> QED
    BY <2>1, <2>2, <2>3
<1>8. ASSUME NEW t \in Builders, ReadName(t) PROVE IndInv'
  <2>1. TypeOK'
    BY <1>8 DEF ReadName
  <2>2. ModeIsDecided' /\ StorageIsDecided'
    BY <1>8 DEF ReadName
  <2>3. NameIsDecided'
    BY <1>8 DEF ReadName
  <2> QED
    BY <2>1, <2>2, <2>3
<1>9. ASSUME NEW t \in Builders, BuildWorker(t) PROVE IndInv'
  <2>1. TypeOK'
    BY <1>9 DEF BuildWorker
  <2>2. ModeIsDecided' /\ StorageIsDecided'
    BY <1>9 DEF BuildWorker
  <2>3. NameIsDecided'
    BY <1>9 DEF BuildWorker
  <2> QED
    BY <2>1, <2>2, <2>3
<1>10. ASSUME NEW t \in Builders, StreamEnds(t) PROVE IndInv'
  BY <1>10 DEF StreamEnds
<1>11. CASE UNCHANGED vars
  BY <1>11 DEF vars
<1> QED
  BY <1>1, <1>2, <1>3, <1>4, <1>5, <1>6, <1>7, <1>8, <1>9, <1>10, <1>11 DEF Next, Thread

\* What each stage of a start has decided stays decided, though other threads test and
\* set the same variables in between (lib.rs:418-423, docker-entrypoint.sh).
THEOREM StartsAreDecided == Spec => []IndInv
  BY InitIndInv, StepIndInv, PTL DEF Spec

\* However many serve threads race through catalog_name, every worker is in the
\* catalog the environment asked for (lib.rs:418-423).
THEOREM WorkersShareOneCatalog == Spec => []OneCatalog
<1>1. IndInv => OneCatalog
  BY DEF IndInv, NameIsDecided, OneCatalog, Serving
<1> QED
  BY <1>1, StartsAreDecided, PTL

\* A serving worker's environment says what the worker was built with
\* (lib.rs:417, pprof-wasm/src/lib.rs:15-18).
THEOREM EnvironmentAgrees == Spec => []EnvironmentIsExported
<1>1. IndInv => EnvironmentIsExported
  BY DEF IndInv, TypeOK, NameIsDecided, StorageIsDecided, EnvironmentIsExported, Serving,
         AskedFor, Values, Builders
<1> QED
  BY <1>1, StartsAreDecided, PTL

\* A container serves in the mode it was asked for, with the arguments after the mode
\* (docker-entrypoint.sh:14-34).
THEOREM ContainerIsAsAsked == Spec => []ContainerKeepsArguments
<1>1. IndInv => ContainerKeepsArguments
  BY DEF IndInv, ModeIsDecided
<1> QED
  BY <1>1, StartsAreDecided, PTL

\* No step replaces a variable that is there: a second thread that also saw none sets
\* the same default (lib.rs:419-421, pprof-wasm/src/lib.rs:21-23).
THEOREM GivenStays == Spec => GivenIsKept
<1>1. IndInv /\ [Next]_vars =>
        [/\ catalogVar # Unset => catalogVar' = catalogVar
         /\ storageVar # Unset => storageVar' = storageVar]_vars
  BY DEF IndInv, NameIsDecided, StorageIsDecided, Next, vars, env, args, Thread,
         EnterMode, ExecOther, TestStorage, SetStorage, Serve, TestName, SetName, ReadName, BuildWorker, StreamEnds
<1> QED
  BY <1>1, StartsAreDecided, PTL DEF GivenIsKept, Spec
=============================================================================
