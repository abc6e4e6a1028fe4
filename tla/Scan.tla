--------------------------------- MODULE Scan ---------------------------------
(***************************************************************************)
(* Calls of a pprof table function against a file system that changes      *)
(* under them.                                                             *)
(*                                                                         *)
(* A call is what TableFunction::producer and the OneShot producer do:     *)
(* source::resolve reads the src argument, expands every path spec, reads  *)
(* and decodes every file, and next_batch hands the whole result over as   *)
(* one batch.  The file system is shared: other programs write, remove and *)
(* rename profiles and change directory permissions between any two of a   *)
(* call's accesses.  One fs::read of one file, and the listing of one      *)
(* directory, are each one step.                                           *)
(*                                                                         *)
(* Paths are numbers, a path's number being its rank in the order of       *)
(* String, so that `out.sort()` is the order of the numbers.               *)
(***************************************************************************)
EXTENDS DecodeUnits, FiniteSets

CONSTANTS Calls,       \* table-function calls in flight at the same time
          Paths,       \* file paths, ranked
          Name,        \* Name[p]: the path a match of path p is read as
          Dirs, DirOf, \* the directory that lists each path
          Globs,       \* specs with a meta-character, by name
          Malformed,   \* the globs glob::glob rejects
          Matches,     \* Matches[g]: the paths whose name matches g
          Text,        \* Text[g]: the path whose name is malformed g's own text
          NullElem,    \* a NULL element of a list argument
          NullBlob,    \* a NULL BLOB argument
          Args,        \* the src arguments callers may pass
          NoArg,       \* no call bound yet
          Fits(_),     \* the batch of these units can be built
          Contents,    \* bound: the file states other programs bring about
          MaxChanges   \* bound: how often anything outside the calls intervenes

\* The paths that are UTF-8, which are the only ones a string can spell.
Names == {Name[p] : p \in Paths}
Specs == Names \cup Globs

ArgKinds == {"varchar", "list", "binary", "missing", "othertype", "otherlist"}

ASSUME PathsAssumption == Paths \subseteq Nat /\ NoFile \notin Paths
ASSUME NamesAssumption ==
  Name \in [Paths -> Paths] /\ \A p \in Paths : Name[Name[p]] = Name[p]
ASSUME DirsAssumption  == DirOf \in [Paths -> Dirs]
ASSUME GlobsAssumption ==
  /\ Globs \cap Paths = {} /\ NullElem \notin Specs /\ Malformed \subseteq Globs
  /\ Matches \in [Globs -> SUBSET Paths]
  /\ Text \in [Malformed -> Names]
ASSUME BlobAssumption  == NullBlob \notin Bytes
ASSUME ArgsAssumption  ==
  /\ Args \subseteq [kind : ArgKinds, elems : Seq(Specs \cup {NullElem}),
                     blob : Bytes \cup {NullBlob}]
  /\ NoArg \notin Args
ASSUME BoundAssumption == MaxChanges \in Nat /\ Contents \subseteq Files

VARIABLES
  fs,        \* fs[p]: what path p holds
  listable,  \* listable[d]: directory d can be listed
  changes,   \* interventions so far, at most MaxChanges
  pc,        \* where each call stands
  arg,       \* its src argument
  elems,     \* path_specs: list elements not yet looked at
  specs,     \* resolve: path specs not yet expanded
  glob,      \* expand: the pattern being expanded
  dirs,      \* expand: directories the pattern still has to list
  pending,   \* expand's result: paths not yet read
  units,     \* resolve's result, then OneShot.units while it is Some
  delivered, \* what the caller has received of its present producer
  seenFile,  \* auxiliary: the states of each path since the producer was made
  seenDir    \* auxiliary: likewise whether each directory could be listed

fsVars   == <<fs, listable, changes>>
auxVars  == <<seenFile, seenDir>>
callVars == <<pc, arg, elems, specs, glob, dirs, pending, units, delivered>>
vars     == <<fsVars, callVars, auxVars>>

Units  == [file : Paths \cup {NoFile}, result : Results]
Rows   == {NullRow} \cup (Profiles \X Nat)
Blocks == [file : Paths \cup {NoFile}, error : Messages \cup {NoError},
           rows : Seq(Rows)]

\* "drained" is a producer whose batch was built of the units take() returned,
\* "unbuilt" one whose build returned an error or panicked.
States == {"idle", "args", "specs", "listing", "reading", "ready", "drained",
           "unbuilt", "done", "failed"}

TypeOK ==
  /\ fs \in [Paths -> Files] /\ listable \in [Dirs -> BOOLEAN]
  /\ changes \in 0..MaxChanges
  /\ pc \in [Calls -> States]
  /\ arg \in [Calls -> Args \cup {NoArg}]
  /\ elems \in [Calls -> Seq(Specs \cup {NullElem})]
  /\ specs \in [Calls -> Seq(Specs)]
  /\ glob \in [Calls -> Globs \cup {NoArg}]
  /\ dirs \in [Calls -> SUBSET Dirs]
  /\ pending \in [Calls -> SUBSET Paths]
  /\ units \in [Calls -> Seq(Units)]
  /\ delivered \in [Calls -> Seq(Blocks)]
  /\ seenFile \in [Calls -> [Paths -> SUBSET Files]]
  /\ seenDir \in [Calls -> [Dirs -> SUBSET BOOLEAN]]

-------------------------------------------------------------------------------
\* is_glob: the spec has a meta-character.
IsGlob(s) == s \in Globs

\* expand: a well-formed pattern is matched against the file system; a plain
\* path, and a malformed pattern, is the one path of that name.
ExpandsAsGlob(s) == IsGlob(s) /\ s \notin Malformed
Literal(s) == IF s \in Malformed THEN Text[s] ELSE s

\* path_specs and the BLOB arm of resolve: the arguments no scan comes out of.
\* (A NULL VARCHAR has no const_str, and is neither binary nor a list.)
Refused(a) == \/ a.kind \in {"missing", "othertype", "otherlist"}
              \/ a.kind = "binary" /\ a.blob = NullBlob

\* The directories a pattern makes glob::glob list.
Listed(g) == {DirOf[p] : p \in Matches[g]}

-------------------------------------------------------------------------------
Init ==
  /\ fs \in [Paths -> Contents] /\ listable \in [Dirs -> BOOLEAN] /\ changes = 0
  /\ pc = [c \in Calls |-> "idle"]
  /\ arg = [c \in Calls |-> NoArg]
  /\ elems = [c \in Calls |-> <<>>] /\ specs = [c \in Calls |-> <<>>]
  /\ glob = [c \in Calls |-> NoArg]
  /\ dirs = [c \in Calls |-> {}] /\ pending = [c \in Calls |-> {}]
  /\ units = [c \in Calls |-> <<>>] /\ delivered = [c \in Calls |-> <<>>]
  /\ seenFile = [c \in Calls |-> [p \in Paths |-> {}]]
  /\ seenDir = [c \in Calls |-> [d \in Dirs |-> {}]]

Goto(c, s) == pc' = [pc EXCEPT ![c] = s]

\* producer(): resolve begins with path_specs, which refuses the argument,
\* finds an inline BLOB (decoded at once, one unit with no file), or starts on
\* the list of specs.
Bind(c, a) ==
  /\ pc[c] = "idle"
  /\ arg' = [arg EXCEPT ![c] = a]
  /\ seenFile' = [seenFile EXCEPT ![c] = [p \in Paths |-> {fs[p]}]]
  /\ seenDir' = [seenDir EXCEPT ![c] = [d \in Dirs |-> {listable[d]}]]

BindRefused(c, a) ==
  /\ Bind(c, a) /\ Refused(a) /\ Goto(c, "failed")
  /\ UNCHANGED <<fsVars, elems, specs, glob, dirs, pending, units, delivered>>

BindBlob(c, a) ==
  /\ Bind(c, a) /\ ~Refused(a) /\ a.kind = "binary" /\ Goto(c, "ready")
  /\ units' = [units EXCEPT ![c] = <<Unit(NoFile, FromBytes(a.blob))>>]
  /\ UNCHANGED <<fsVars, elems, specs, glob, dirs, pending, delivered>>

BindPaths(c, a) ==
  /\ Bind(c, a) /\ ~Refused(a) /\ a.kind # "binary" /\ Goto(c, "args")
  /\ elems' = [elems EXCEPT ![c] = a.elems]
  /\ UNCHANGED <<fsVars, specs, glob, dirs, pending, units, delivered>>

\* Faulty variant: is_valid is forgotten.
TakeElementKeepsNull(c) ==
  /\ pc[c] = "args" /\ elems[c] # <<>>
  /\ elems' = [elems EXCEPT ![c] = Tail(@)]
  /\ specs' = [specs EXCEPT ![c] = Append(@, Head(elems[c]))]
  /\ UNCHANGED <<fsVars, auxVars, pc, arg, glob, dirs, pending, units, delivered>>

\* path_specs: one element of the list; NULL elements are skipped.
TakeElement(c) ==
  /\ pc[c] = "args" /\ elems[c] # <<>>
  /\ elems' = [elems EXCEPT ![c] = Tail(@)]
  /\ specs' = IF Head(elems[c]) = NullElem THEN specs
              ELSE [specs EXCEPT ![c] = Append(@, Head(elems[c]))]
  /\ UNCHANGED <<fsVars, auxVars, pc, arg, glob, dirs, pending, units, delivered>>

ElementsDone(c) ==
  /\ pc[c] = "args" /\ elems[c] = <<>> /\ Goto(c, "specs")
  /\ UNCHANGED <<fsVars, auxVars, arg, elems, specs, glob, dirs, pending, units,
                 delivered>>

\* resolve's outer loop: expand() of the next spec.
ExpandLiteral(c) ==
  /\ pc[c] = "specs" /\ specs[c] # <<>> /\ ~ExpandsAsGlob(Head(specs[c]))
  /\ pending' = [pending EXCEPT ![c] = {Literal(Head(specs[c]))}]
  /\ specs' = [specs EXCEPT ![c] = Tail(@)]
  /\ Goto(c, "reading")
  /\ UNCHANGED <<fsVars, auxVars, arg, elems, glob, dirs, units, delivered>>

ExpandGlob(c) ==
  /\ pc[c] = "specs" /\ specs[c] # <<>> /\ ExpandsAsGlob(Head(specs[c]))
  /\ glob' = [glob EXCEPT ![c] = Head(specs[c])]
  /\ dirs' = [dirs EXCEPT ![c] = Listed(Head(specs[c]))]
  /\ specs' = [specs EXCEPT ![c] = Tail(@)]
  /\ Goto(c, "listing")
  /\ UNCHANGED <<fsVars, auxVars, arg, elems, pending, units, delivered>>

\* glob::glob lists one directory: the entries that match.  A directory that
\* cannot be listed is a GlobError, which .flatten() drops.
ListDirectory(c, d) ==
  /\ pc[c] = "listing" /\ d \in dirs[c]
  /\ dirs' = [dirs EXCEPT ![c] = @ \ {d}]
  /\ pending' = [pending EXCEPT ![c] = @ \cup
       {p \in Matches[glob[c]] : DirOf[p] = d /\ listable[d] /\ fs[p] # Absent}]
  /\ UNCHANGED <<fsVars, auxVars, pc, arg, elems, specs, glob, units, delivered>>

GlobDone(c) ==
  /\ pc[c] = "listing" /\ dirs[c] = {}
  /\ glob' = [glob EXCEPT ![c] = NoArg] /\ Goto(c, "reading")
  /\ UNCHANGED <<fsVars, auxVars, arg, elems, specs, dirs, pending, units, delivered>>

\* Faulty variants of the next action: the paths are sorted before they become
\* names; a name is read once; the matches are not sorted; a failed file
\* ends the loop; a failed file is skipped; a failed file fails the call; a
\* decoded file is remembered and served to another call.
ReadFileSortsPaths(c) ==
  \E p \in pending[c] : \E r \in Reads(fs[Name[p]]) :
    /\ pc[c] = "reading" /\ \A q \in pending[c] : p <= q
    /\ units' = [units EXCEPT ![c] = Append(@, Unit(Name[p], r))]
    /\ pending' = [pending EXCEPT ![c] = @ \ {p}]
    /\ UNCHANGED <<fsVars, auxVars, pc, arg, elems, specs, glob, dirs, delivered>>

ReadFileOncePerName(c) ==
  \E p \in pending[c] : \E r \in Reads(fs[Name[p]]) :
    /\ pc[c] = "reading" /\ \A q \in pending[c] : Name[p] <= Name[q]
    /\ units' = [units EXCEPT ![c] = Append(@, Unit(Name[p], r))]
    /\ pending' = [pending EXCEPT ![c] = {q \in @ : Name[q] # Name[p]}]
    /\ UNCHANGED <<fsVars, auxVars, pc, arg, elems, specs, glob, dirs, delivered>>

ReadFileUnsorted(c) ==
  \E p \in pending[c] : \E r \in Reads(fs[Name[p]]) :
    /\ pc[c] = "reading"
    /\ units' = [units EXCEPT ![c] = Append(@, Unit(Name[p], r))]
    /\ pending' = [pending EXCEPT ![c] = @ \ {p}]
    /\ UNCHANGED <<fsVars, auxVars, pc, arg, elems, specs, glob, dirs, delivered>>

ReadFileStopsAtError(c) ==
  \E p \in pending[c] : \E r \in Reads(fs[Name[p]]) :
    /\ pc[c] = "reading" /\ \A q \in pending[c] : Name[p] <= Name[q]
    /\ units' = [units EXCEPT ![c] = Append(@, Unit(Name[p], r))]
    /\ pending' = [pending EXCEPT ![c] = IF r.ok THEN @ \ {p} ELSE {}]
    /\ UNCHANGED <<fsVars, auxVars, pc, arg, elems, specs, glob, dirs, delivered>>

ReadFileSkipsErrors(c) ==
  \E p \in pending[c] : \E r \in Reads(fs[Name[p]]) :
    /\ pc[c] = "reading" /\ \A q \in pending[c] : Name[p] <= Name[q]
    /\ units' = IF r.ok
                THEN [units EXCEPT ![c] = Append(@, Unit(Name[p], r))] ELSE units
    /\ pending' = [pending EXCEPT ![c] = @ \ {p}]
    /\ UNCHANGED <<fsVars, auxVars, pc, arg, elems, specs, glob, dirs, delivered>>

ReadFileFailsCall(c) ==
  \E p \in pending[c] : \E r \in Reads(fs[Name[p]]) :
    /\ pc[c] = "reading" /\ \A q \in pending[c] : Name[p] <= Name[q]
    /\ units' = [units EXCEPT ![c] = IF r.ok
                   THEN Append(@, Unit(Name[p], r)) ELSE <<>>]
    /\ pending' = [pending EXCEPT ![c] = IF r.ok THEN @ \ {p} ELSE {}]
    /\ pc' = IF r.ok THEN pc ELSE [pc EXCEPT ![c] = "failed"]
    /\ UNCHANGED <<fsVars, auxVars, arg, elems, specs, glob, dirs, delivered>>

ReadFileCached(c) ==
  \E p \in pending[c] : \E now \in Reads(fs[Name[p]]) :
    LET known == UNION {{units[k][i].result : i \in {j \in DOMAIN units[k] :
                                                     units[k][j].file = Name[p]}} : k \in Calls}
        r     == IF known = {} THEN now ELSE CHOOSE x \in known : TRUE
    IN  /\ pc[c] = "reading" /\ \A q \in pending[c] : Name[p] <= Name[q]
        /\ units' = [units EXCEPT ![c] = Append(@, Unit(Name[p], r))]
        /\ pending' = [pending EXCEPT ![c] = @ \ {p}]
        /\ UNCHANGED <<fsVars, auxVars, pc, arg, elems, specs, glob, dirs, delivered>>

\* resolve's inner loop, over the sorted names: read, decode, capture.  Between
\* the match and its name lies to_string_lossy, and it is the name that is read.
ReadFile(c) ==
  \E p \in pending[c] : \E r \in Reads(fs[Name[p]]) :
    /\ pc[c] = "reading" /\ \A q \in pending[c] : Name[p] <= Name[q]
    /\ units' = [units EXCEPT ![c] = Append(@, Unit(Name[p], r))]
    /\ pending' = [pending EXCEPT ![c] = @ \ {p}]
    /\ UNCHANGED <<fsVars, auxVars, pc, arg, elems, specs, glob, dirs, delivered>>

SpecDone(c) ==
  /\ pc[c] = "reading" /\ pending[c] = {} /\ Goto(c, "specs")
  /\ UNCHANGED <<fsVars, auxVars, arg, elems, specs, glob, dirs, pending, units,
                 delivered>>

\* resolve returns and producer() wraps the units in a OneShot.
Resolved(c) ==
  /\ pc[c] = "specs" /\ specs[c] = <<>> /\ Goto(c, "ready")
  /\ UNCHANGED <<fsVars, auxVars, arg, elems, specs, glob, dirs, pending, units,
                 delivered>>

\* Faulty variant: the units are cloned, not taken.
NextBatchCloned(c) ==
  /\ pc[c] = "ready" /\ Fits(units[c])
  /\ delivered' = [delivered EXCEPT ![c] = @ \o Build(units[c])]
  /\ UNCHANGED <<fsVars, auxVars, pc, arg, elems, specs, glob, dirs, pending, units>>

\* next_batch, the first time: take() leaves None and the batch is built.
NextBatch(c) ==
  /\ pc[c] = "ready" /\ Fits(units[c]) /\ Goto(c, "drained")
  /\ delivered' = [delivered EXCEPT ![c] = @ \o Build(units[c])]
  /\ units' = [units EXCEPT ![c] = <<>>]
  /\ UNCHANGED <<fsVars, auxVars, arg, elems, specs, glob, dirs, pending>>

\* The same when a column reaches its limit: build, after take(), returns an error
\* or panics, which ends the call with neither units nor batch.
BuildFails(c) ==
  /\ pc[c] = "ready" /\ ~Fits(units[c]) /\ Goto(c, "unbuilt")
  /\ units' = [units EXCEPT ![c] = <<>>]
  /\ UNCHANGED <<fsVars, auxVars, arg, elems, specs, glob, dirs, pending, delivered>>

\* next_batch, from then on: None, and the caller stops.
EndOfStream(c) ==
  /\ pc[c] = "drained" /\ Goto(c, "done")
  /\ UNCHANGED <<fsVars, auxVars, arg, elems, specs, glob, dirs, pending, units,
                 delivered>>

\* The calls that have a producer, pulled from or not.
Produced(c) == pc[c] \in {"ready", "drained", "unbuilt", "done"}

\* The query engine drops a producer when it will, finished, not pulled to its end
\* (LIMIT, cancel) or never pulled from; the slot serves a later call.
Forget(c) ==
  /\ Produced(c) \/ pc[c] = "failed"
  /\ Goto(c, "idle")
  /\ arg' = [arg EXCEPT ![c] = NoArg] /\ units' = [units EXCEPT ![c] = <<>>]
  /\ delivered' = [delivered EXCEPT ![c] = <<>>]
  /\ seenFile' = [seenFile EXCEPT ![c] = [p \in Paths |-> {}]]
  /\ seenDir' = [seenDir EXCEPT ![c] = [d \in Dirs |-> {}]]
  /\ UNCHANGED <<fsVars, elems, specs, glob, dirs, pending>>

-------------------------------------------------------------------------------
\* Other programs.  Active calls record what their files go through.
Active(c) == pc[c] \notin {"idle", "unbuilt", "done", "failed"}

Observe ==
  /\ seenFile' = [c \in Calls |-> [p \in Paths |->
                    IF Active(c) THEN seenFile[c][p] \cup {fs'[p]} ELSE seenFile[c][p]]]
  /\ seenDir' = [c \in Calls |-> [d \in Dirs |->
                    IF Active(c) THEN seenDir[c][d] \cup {listable'[d]} ELSE seenDir[c][d]]]

Change == changes < MaxChanges /\ changes' = changes + 1

\* A profile is replaced (a rename over it), removed, made unreadable, or opened
\* to be rewritten in place.
Write(p, x) ==
  /\ Change /\ x # fs[p]
  /\ fs' = [fs EXCEPT ![p] = x] /\ UNCHANGED <<listable, callVars>>
  /\ Observe

Rename(p, q) ==
  /\ Change /\ p # q /\ fs[p] # Absent
  /\ fs' = [fs EXCEPT ![q] = fs[p], ![p] = Absent] /\ UNCHANGED <<listable, callVars>>
  /\ Observe

Chmod(d) ==
  /\ Change
  /\ listable' = [listable EXCEPT ![d] = ~@] /\ UNCHANGED <<fs, callVars>>
  /\ Observe

\* The query engine drops a producer, whatever it has handed over, and asks for
\* another from the bind parameters (resume_supported is false): the whole
\* argument is resolved again, or the BLOB decoded again.
Restart(c) ==
  /\ Change /\ Produced(c)
  /\ delivered' = [delivered EXCEPT ![c] = <<>>]
  /\ seenFile' = [seenFile EXCEPT ![c] = [p \in Paths |-> {fs[p]}]]
  /\ seenDir' = [seenDir EXCEPT ![c] = [d \in Dirs |-> {listable[d]}]]
  /\ UNCHANGED <<fs, listable, arg, specs, glob, dirs, pending>>

\* Faulty variant: the new producer goes on from the old one's units.
RecreatePathsKeepsUnits(c) ==
  /\ Restart(c) /\ arg[c].kind # "binary" /\ Goto(c, "args")
  /\ elems' = [elems EXCEPT ![c] = arg[c].elems] /\ UNCHANGED units

RecreatePaths(c) ==
  /\ Restart(c) /\ arg[c].kind # "binary" /\ Goto(c, "args")
  /\ elems' = [elems EXCEPT ![c] = arg[c].elems]
  /\ units' = [units EXCEPT ![c] = <<>>]

RecreateBlob(c) ==
  /\ Restart(c) /\ arg[c].kind = "binary" /\ Goto(c, "ready")
  /\ units' = [units EXCEPT ![c] = <<Unit(NoFile, FromBytes(arg[c].blob))>>]
  /\ UNCHANGED elems

Recreate(c) == RecreatePaths(c) \/ RecreateBlob(c)

-------------------------------------------------------------------------------
Bound(c) == \E a \in Args : BindRefused(c, a) \/ BindBlob(c, a) \/ BindPaths(c, a)

\* What the worker does on its own once a call is bound: all of resolve.
Step(c) ==
  \/ TakeElement(c) \/ ElementsDone(c)
  \/ ExpandLiteral(c) \/ ExpandGlob(c)
  \/ \E d \in Dirs : ListDirectory(c, d)
  \/ GlobDone(c) \/ ReadFile(c) \/ SpecDone(c) \/ Resolved(c)

\* What it does when the engine pulls, if it does.
Pull(c) == NextBatch(c) \/ BuildFails(c) \/ EndOfStream(c)

Environment ==
  \/ \E p \in Paths, x \in Contents : Write(p, x)
  \/ \E p, q \in Paths : Rename(p, q)
  \/ \E d \in Dirs : Chmod(d)

Next ==
  \/ \E c \in Calls : Bound(c) \/ Step(c) \/ Pull(c) \/ Recreate(c) \/ Forget(c)
  \/ Environment

\* Only resolve runs to its end by itself; pulls, drops and recreations are the
\* engine's.
Fairness == \A c \in Calls : WF_vars(Step(c))

Spec == Init /\ [][Next]_vars /\ Fairness

-------------------------------------------------------------------------------
\* Every result a call holds or has delivered is what reading that file gave at
\* some moment since its producer was made: nothing is remembered from before,
\* kept from a producer that was dropped, taken from another file or made up
\* (source.rs reads each file where it uses it, mod.rs:96-100).
TrueOf(seen, a, f, r) ==
  IF f = NoFile THEN r = FromBytes(a.blob)
  ELSE f \in Paths /\ \E x \in seen[f] : r \in Reads(x)

CallIsObserved(c) ==
  /\ \A i \in DOMAIN units[c] : 
       TrueOf(seenFile[c], arg[c], units[c][i].file, units[c][i].result)
  /\ \A i \in DOMAIN delivered[c] :
       \E u \in Units : /\ TrueOf(seenFile[c], arg[c], u.file, u.result)
                        /\ delivered[c][i] = Block(u)

ResultsAreObserved == \A c \in Calls : CallIsObserved(c)

\* What each phase of a call implies for its work in progress: a pattern is set
\* while it is expanded, a call at work was accepted, units exist only before take(),
\* and nothing is delivered before the one batch or when it could not be built.
Phases ==
  \A c \in Calls :
    /\ pc[c] = "listing" => glob[c] \in Globs
    /\ pc[c] # "idle" => arg[c] \in Args
    /\ pc[c] \notin {"idle", "failed"} => ~Refused(arg[c])
    /\ pc[c] \in {"idle", "drained", "unbuilt", "done", "failed"} => units[c] = <<>>
    /\ pc[c] \notin {"drained", "done"} => delivered[c] = <<>>

\* What a call may still read or list has been recorded as seen.
SeesPresent ==
  \A c \in Calls : Active(c) => /\ \A p \in Paths : fs[p] \in seenFile[c][p]
                                /\ \A d \in Dirs : listable[d] \in seenDir[c][d]

\* The inductive invariant.
IndInv == TypeOK /\ Phases /\ SeesPresent /\ ResultsAreObserved

\* A call whose argument is acceptable always gets a producer that holds a unit for
\* everything it read, no matter what its files contain or become: a bad file is an
\* error row, never the end of the scan (source.rs:148-157).
AcceptedCallIsResolved == \A c \in Calls : pc[c] = "args" ~> pc[c] = "ready"
===============================================================================
