------------------------------ MODULE ScanProof ------------------------------
(***************************************************************************)
(* Theorems about Scan, its refinement of ScanAbs and the three promises   *)
(* of ScanRef, for every number of calls, paths, patterns, arguments and   *)
(* changes.                                                                *)
(***************************************************************************)
EXTENDS ScanRefinement, ScanRef, FiniteSetTheorems, SequenceTheorems, TLAPS

LEMMA FromBytesType == \A b \in Bytes : FromBytes(b) \in Results
BY BytesAssumption DEF Bytes, FromBytes, Results, Messages, Ok, Err

LEMMA ReadType == \A x \in Files : Reads(x) \subseteq Results
<1>1. \A x \in Files \ {InFlux} : Read(x) \in Results
      BY FromBytesType, BytesAssumption DEF Files, Read, Results, Messages, Err
<1>. QED BY <1>1, FromBytesType DEF Reads

LEMMA NameType == Names \subseteq Paths /\ \A p \in Paths : Name[p] \in Paths
BY NamesAssumption DEF Names

LEMMA UnitType ==
  ASSUME NEW f \in Paths \cup {NoFile}, NEW r \in Results
  PROVE  Unit(f, r) \in Units
BY DEF Unit, Units

LEMMA BlockType == \A u \in Units : Block(u) \in Blocks
<1> SUFFICES ASSUME NEW u \in Units PROVE Block(u) \in Blocks
    OBVIOUS
<1>1. CASE u.result.ok
  <2>1. u.result.value \in Profiles /\ RowCount[u.result.value] \in Nat
        BY <1>1, RowCountAssumption DEF Units, Results
  <2>2. [i \in 1..RowCount[u.result.value] |-> <<u.result.value, i>>] \in Seq(Rows)
        BY <2>1 DEF Rows
  <2>. QED BY <1>1, <2>2 DEF Block, Blocks, Units
<1>2. CASE ~u.result.ok
  <2>1. u.result.value \in Messages
        BY <1>2 DEF Units, Results
  <2>2. <<NullRow>> \in Seq(Rows)
        BY DEF Rows
  <2>. QED BY <1>2, <2>1, <2>2 DEF Block, Blocks, Units
<1>. QED BY <1>1, <1>2

LEMMA BuildType == \A us \in Seq(Units) : Build(us) \in Seq(Blocks)
<1> SUFFICES ASSUME NEW us \in Seq(Units) PROVE Build(us) \in Seq(Blocks)
    OBVIOUS
<1>1. \A i \in 1..Len(us) : Block(us[i]) \in Blocks
      BY BlockType
<1>. QED BY <1>1 DEF Build

-------------------------------------------------------------------------------
LEMMA TypeInit == Init => TypeOK
BY BoundAssumption, RowCountAssumption DEF Init, TypeOK, States, Files

LEMMA TypeBind ==
  ASSUME TypeOK, NEW c \in Calls, NEW a \in Args, Bind(c, a)
  PROVE  /\ arg' \in [Calls -> Args \cup {NoArg}]
         /\ seenFile' \in [Calls -> [Paths -> SUBSET Files]]
         /\ seenDir' \in [Calls -> [Dirs -> SUBSET BOOLEAN]]
<1>1. [p \in Paths |-> {fs[p]}] \in [Paths -> SUBSET Files]
      BY DEF TypeOK
<1>2. [d \in Dirs |-> {listable[d]}] \in [Dirs -> SUBSET BOOLEAN]
      BY DEF TypeOK
<1>. QED BY <1>1, <1>2 DEF TypeOK, Bind

\* What the environment leaves alone and what the calls record of it.
LEMMA TypeObserve ==
  ASSUME TypeOK, fs' \in [Paths -> Files], listable' \in [Dirs -> BOOLEAN], Observe
  PROVE  /\ seenFile' \in [Calls -> [Paths -> SUBSET Files]]
         /\ seenDir' \in [Calls -> [Dirs -> SUBSET BOOLEAN]]
BY DEF TypeOK, Observe

LEMMA TypeStep == TypeOK /\ Phases /\ [Next]_vars => TypeOK'
<1>. SUFFICES ASSUME TypeOK, Phases, [Next]_vars PROVE TypeOK'
     OBVIOUS
<1>. USE DEF Goto
<1>1. ASSUME NEW c \in Calls, NEW a \in Args, BindRefused(c, a) PROVE TypeOK'
  <2>1. Bind(c, a)
        BY <1>1 DEF BindRefused
  <2>. QED BY <1>1, <2>1, TypeBind DEF TypeOK, BindRefused, fsVars, States
<1>2. ASSUME NEW c \in Calls, NEW a \in Args, BindBlob(c, a) PROVE TypeOK'
  <2>1. Bind(c, a)
        BY <1>2 DEF BindBlob
  <2>2. a.blob \in Bytes
        BY <1>2, ArgsAssumption DEF BindBlob, Refused
  <2>3. <<Unit(NoFile, FromBytes(a.blob))>> \in Seq(Units)
        BY <2>2, FromBytesType, UnitType
  <2>. QED BY <1>2, <2>1, <2>3, TypeBind DEF TypeOK, BindBlob, fsVars, States
<1>3. ASSUME NEW c \in Calls, NEW a \in Args, BindPaths(c, a) PROVE TypeOK'
  <2>1. Bind(c, a)
        BY <1>3 DEF BindPaths
  <2>2. a.elems \in Seq(Specs \cup {NullElem})
        BY ArgsAssumption
  <2>. QED BY <1>3, <2>1, <2>2, TypeBind DEF TypeOK, BindPaths, fsVars, States
<1>4. ASSUME NEW c \in Calls, TakeElement(c) PROVE TypeOK'
  <2>1. /\ Head(elems[c]) \in Specs \cup {NullElem}
        /\ Tail(elems[c]) \in Seq(Specs \cup {NullElem})
        BY <1>4 DEF TypeOK, TakeElement
  <2>2. specs' \in [Calls -> Seq(Specs)]
        BY <1>4, <2>1 DEF TypeOK, TakeElement
  <2>. QED BY <1>4, <2>1, <2>2 DEF TypeOK, TakeElement, fsVars, auxVars
<1>5. ASSUME NEW c \in Calls, ElementsDone(c) PROVE TypeOK'
      BY <1>5 DEF TypeOK, ElementsDone, fsVars, auxVars, States
<1>6. ASSUME NEW c \in Calls, ExpandLiteral(c) PROVE TypeOK'
  <2>1. Head(specs[c]) \in Specs /\ Tail(specs[c]) \in Seq(Specs)
        BY <1>6 DEF TypeOK, ExpandLiteral
  <2>2. Literal(Head(specs[c])) \in Paths
        BY <1>6, <2>1, GlobsAssumption, NameType DEF Literal, ExpandLiteral, ExpandsAsGlob, IsGlob, Specs
  <2>. QED BY <1>6, <2>1, <2>2 DEF TypeOK, ExpandLiteral, fsVars, auxVars, States
<1>7. ASSUME NEW c \in Calls, ExpandGlob(c) PROVE TypeOK'
  <2>1. Head(specs[c]) \in Globs /\ Tail(specs[c]) \in Seq(Specs)
        BY <1>7 DEF TypeOK, ExpandGlob, ExpandsAsGlob, IsGlob
  <2>2. Listed(Head(specs[c])) \subseteq Dirs
        BY <2>1, GlobsAssumption, DirsAssumption DEF Listed
  <2>. QED BY <1>7, <2>1, <2>2 DEF TypeOK, ExpandGlob, fsVars, auxVars, States
<1>8. ASSUME NEW c \in Calls, NEW d \in Dirs, ListDirectory(c, d) PROVE TypeOK'
  <2>1. {p \in Matches[glob[c]] : DirOf[p] = d /\ listable[d] /\ fs[p] # Absent}
          \subseteq Paths
        BY <1>8, GlobsAssumption DEF Phases, ListDirectory
  <2>. QED BY <1>8, <2>1 DEF TypeOK, ListDirectory, fsVars, auxVars
<1>9. ASSUME NEW c \in Calls, GlobDone(c) PROVE TypeOK'
      BY <1>9 DEF TypeOK, GlobDone, fsVars, auxVars, States
<1>10. ASSUME NEW c \in Calls, ReadFile(c) PROVE TypeOK'
  <2>1. PICK p, r :
          /\ p \in pending[c] /\ r \in Reads(fs[Name[p]])
          /\ units' = [units EXCEPT ![c] = Append(@, Unit(Name[p], r))]
          /\ pending' = [pending EXCEPT ![c] = @ \ {p}]
        BY <1>10 DEF ReadFile
  <2>2. Name[p] \in Paths /\ r \in Results
        BY <2>1, ReadType, NameType DEF TypeOK
  <2>5. Unit(Name[p], r) \in Units
        BY <2>2, UnitType
  <2>3. Append(units[c], Unit(Name[p], r)) \in Seq(Units)
        BY <2>5 DEF TypeOK
  <2>4. units' \in [Calls -> Seq(Units)]
        BY <2>1, <2>3 DEF TypeOK
  <2>. QED BY <1>10, <2>1, <2>4 DEF TypeOK, ReadFile, fsVars, auxVars
<1>11. ASSUME NEW c \in Calls, SpecDone(c) PROVE TypeOK'
      BY <1>11 DEF TypeOK, SpecDone, fsVars, auxVars, States
<1>12. ASSUME NEW c \in Calls, Resolved(c) PROVE TypeOK'
      BY <1>12 DEF TypeOK, Resolved, fsVars, auxVars, States
<1>13. ASSUME NEW c \in Calls, NextBatch(c) PROVE TypeOK'
  <2>1. delivered[c] \o Build(units[c]) \in Seq(Blocks)
        BY BuildType DEF TypeOK
  <2>. QED BY <1>13, <2>1 DEF TypeOK, NextBatch, fsVars, auxVars, States
<1>14. ASSUME NEW c \in Calls, EndOfStream(c) PROVE TypeOK'
      BY <1>14 DEF TypeOK, EndOfStream, fsVars, auxVars, States
<1>19. ASSUME NEW c \in Calls, BuildFails(c) PROVE TypeOK'
      BY <1>19 DEF TypeOK, BuildFails, fsVars, auxVars, States
<1>15. ASSUME NEW c \in Calls, Forget(c) PROVE TypeOK'
      BY <1>15 DEF TypeOK, Forget, fsVars, States
<1>16. ASSUME Environment PROVE TypeOK'
  <2>1. ASSUME Change, Observe, UNCHANGED callVars,
               fs' \in [Paths -> Files], listable' \in [Dirs -> BOOLEAN]
        PROVE  TypeOK'
        BY <2>1, TypeObserve, BoundAssumption DEF TypeOK, Change, callVars
  <2>2. ASSUME NEW p \in Paths, NEW x \in Contents, Write(p, x) PROVE TypeOK'
        BY <2>1, <2>2, BoundAssumption DEF TypeOK, Write
  <2>3. ASSUME NEW p \in Paths, NEW q \in Paths, Rename(p, q) PROVE TypeOK'
        BY <2>1, <2>3 DEF TypeOK, Rename, Files
  <2>4. ASSUME NEW d \in Dirs, Chmod(d) PROVE TypeOK'
        BY <2>1, <2>4 DEF TypeOK, Chmod
  <2>. QED BY <1>16, <2>2, <2>3, <2>4 DEF Environment
<1>18. ASSUME NEW c \in Calls, Recreate(c) PROVE TypeOK'
  <2>1. Restart(c)
        BY <1>18 DEF Recreate, RecreatePaths, RecreateBlob
  <2>2. /\ seenFile' \in [Calls -> [Paths -> SUBSET Files]]
        /\ seenDir' \in [Calls -> [Dirs -> SUBSET BOOLEAN]]
    <3>1. [p \in Paths |-> {fs[p]}] \in [Paths -> SUBSET Files]
          BY DEF TypeOK
    <3>2. [d \in Dirs |-> {listable[d]}] \in [Dirs -> SUBSET BOOLEAN]
          BY DEF TypeOK
    <3>. QED BY <2>1, <3>1, <3>2 DEF Restart, TypeOK
  <2>3. /\ changes' \in 0..MaxChanges /\ delivered' \in [Calls -> Seq(Blocks)]
        /\ UNCHANGED <<fs, listable, arg, specs, glob, dirs, pending>>
        BY <2>1, BoundAssumption DEF Restart, Change, TypeOK
  <2>4. arg[c] \in Args /\ ~Refused(arg[c])
        BY <2>1 DEF Restart, Produced, Phases
  <2>5. CASE RecreatePaths(c)
    <3>1. arg[c].elems \in Seq(Specs \cup {NullElem})
          BY <2>4, ArgsAssumption
    <3>2. /\ elems' \in [Calls -> Seq(Specs \cup {NullElem})]
          /\ units' \in [Calls -> Seq(Units)] /\ pc' \in [Calls -> States]
          BY <2>5, <3>1 DEF RecreatePaths, TypeOK, States
    <3>. QED BY <2>2, <2>3, <3>2 DEF TypeOK
  <2>6. CASE RecreateBlob(c)
    <3>1. arg[c].blob \in Bytes
          BY <2>4, <2>6, ArgsAssumption DEF RecreateBlob, Refused
    <3>2. <<Unit(NoFile, FromBytes(arg[c].blob))>> \in Seq(Units)
          BY <3>1, FromBytesType, UnitType
    <3>3. /\ elems' \in [Calls -> Seq(Specs \cup {NullElem})]
          /\ units' \in [Calls -> Seq(Units)] /\ pc' \in [Calls -> States]
          BY <2>6, <3>2 DEF RecreateBlob, TypeOK, States
    <3>. QED BY <2>2, <2>3, <3>3 DEF TypeOK
  <2>. QED BY <1>18, <2>5, <2>6 DEF Recreate
<1>17. CASE UNCHANGED vars
      BY <1>17 DEF TypeOK, vars, fsVars, auxVars, callVars
<1>. QED BY <1>1, <1>2, <1>3, <1>4, <1>5, <1>6, <1>7, <1>8, <1>9, <1>10, <1>11,
            <1>12, <1>13, <1>14, <1>15, <1>16, <1>17, <1>18, <1>19
         DEF Next, Bound, Step, Pull

-------------------------------------------------------------------------------
LEMMA PhasesInit == Init => Phases
BY DEF Init, Phases

LEMMA PhasesStep == TypeOK /\ Phases /\ [Next]_vars => Phases'
<1>. SUFFICES ASSUME TypeOK, Phases, [Next]_vars PROVE Phases'
     OBVIOUS
<1>. USE DEF Goto, Phases
<1>1. ASSUME NEW c \in Calls, NEW a \in Args, BindRefused(c, a) PROVE Phases'
      BY <1>1 DEF TypeOK, BindRefused, Bind
<1>2. ASSUME NEW c \in Calls, NEW a \in Args, BindBlob(c, a) PROVE Phases'
      BY <1>2 DEF TypeOK, BindBlob, Bind
<1>3. ASSUME NEW c \in Calls, NEW a \in Args, BindPaths(c, a) PROVE Phases'
      BY <1>3 DEF TypeOK, BindPaths, Bind
<1>4. ASSUME NEW c \in Calls, TakeElement(c) PROVE Phases'
      BY <1>4 DEF TakeElement
<1>5. ASSUME NEW c \in Calls, ElementsDone(c) PROVE Phases'
      BY <1>5 DEF TypeOK, ElementsDone
<1>6. ASSUME NEW c \in Calls, ExpandLiteral(c) PROVE Phases'
      BY <1>6 DEF TypeOK, ExpandLiteral
<1>7. ASSUME NEW c \in Calls, ExpandGlob(c) PROVE Phases'
      BY <1>7 DEF TypeOK, ExpandGlob, ExpandsAsGlob, IsGlob
<1>8. ASSUME NEW c \in Calls, NEW d \in Dirs, ListDirectory(c, d) PROVE Phases'
      BY <1>8 DEF ListDirectory
<1>9. ASSUME NEW c \in Calls, GlobDone(c) PROVE Phases'
      BY <1>9 DEF TypeOK, GlobDone
<1>10. ASSUME NEW c \in Calls, ReadFile(c) PROVE Phases'
      BY <1>10 DEF TypeOK, ReadFile
<1>11. ASSUME NEW c \in Calls, SpecDone(c) PROVE Phases'
      BY <1>11 DEF TypeOK, SpecDone
<1>12. ASSUME NEW c \in Calls, Resolved(c) PROVE Phases'
      BY <1>12 DEF TypeOK, Resolved
<1>13. ASSUME NEW c \in Calls, NextBatch(c) PROVE Phases'
      BY <1>13 DEF TypeOK, NextBatch
<1>14. ASSUME NEW c \in Calls, EndOfStream(c) PROVE Phases'
      BY <1>14 DEF TypeOK, EndOfStream
<1>19. ASSUME NEW c \in Calls, BuildFails(c) PROVE Phases'
      BY <1>19 DEF TypeOK, BuildFails
<1>15. ASSUME NEW c \in Calls, Forget(c) PROVE Phases'
      BY <1>15 DEF TypeOK, Forget
<1>16. ASSUME Environment PROVE Phases'
  <2>1. UNCHANGED callVars
        BY <1>16 DEF Environment, Write, Rename, Chmod
  <2>. QED BY <2>1 DEF callVars
<1>18. ASSUME NEW c \in Calls, Recreate(c) PROVE Phases'
      BY <1>18 DEF TypeOK, Recreate, RecreatePaths, RecreateBlob, Restart, Produced
<1>17. CASE UNCHANGED vars
      BY <1>17 DEF vars, callVars
<1>. QED BY <1>1, <1>2, <1>3, <1>4, <1>5, <1>6, <1>7, <1>8, <1>9, <1>10, <1>11,
            <1>12, <1>13, <1>14, <1>15, <1>16, <1>17, <1>18, <1>19
         DEF Next, Bound, Step, Pull

\* Type correctness of the calls, their work in progress and what they observed.
THEOREM TypeCorrect == Spec => []TypeOK
<1>1. Init => TypeOK /\ Phases
      BY TypeInit, PhasesInit
<1>2. TypeOK /\ Phases /\ [Next]_vars => (TypeOK /\ Phases)'
      BY TypeStep, PhasesStep
<1>. QED BY <1>1, <1>2, PTL DEF Spec

-------------------------------------------------------------------------------
LEMMA SeesInit == Init => SeesPresent
BY DEF Init, SeesPresent, Active

LEMMA SeesStep == TypeOK /\ SeesPresent /\ [Next]_vars => SeesPresent'
<1>. SUFFICES ASSUME TypeOK, SeesPresent, [Next]_vars PROVE SeesPresent'
     OBVIOUS
<1>. USE DEF Goto, SeesPresent, Active
<1>1. ASSUME NEW c \in Calls, Bound(c) PROVE SeesPresent'
  <2>1. PICK a \in Args : Bind(c, a)
        BY <1>1 DEF Bound, BindRefused, BindBlob, BindPaths
  <2>2. UNCHANGED <<fs, listable>> /\ \E t \in States : Goto(c, t)
        BY <1>1 DEF Bound, BindRefused, BindBlob, BindPaths, fsVars, States
  <2>3. /\ \A p \in Paths : fs[p] \in seenFile'[c][p]
        /\ \A d \in Dirs : listable[d] \in seenDir'[c][d]
        BY <2>1 DEF Bind, TypeOK
  <2>. QED BY <2>1, <2>2, <2>3 DEF Bind, TypeOK
<1>2. ASSUME NEW c \in Calls, Step(c) \/ Pull(c) PROVE SeesPresent'
  <2>1. UNCHANGED <<fs, listable, seenFile, seenDir>>
        BY <1>2 DEF Step, TakeElement, ElementsDone, ExpandLiteral, ExpandGlob,
             ListDirectory, GlobDone, ReadFile, SpecDone, Resolved, Pull, NextBatch,
             BuildFails, EndOfStream, fsVars, auxVars
  <2>2. \A k \in Calls : Active(k)' => Active(k)
        BY <1>2 DEF TypeOK, Step, TakeElement, ElementsDone, ExpandLiteral, ExpandGlob,
             ListDirectory, GlobDone, ReadFile, SpecDone, Resolved, Pull, NextBatch,
             BuildFails, EndOfStream
  <2>. QED BY <2>1, <2>2
<1>3. ASSUME NEW c \in Calls, Forget(c) PROVE SeesPresent'
      BY <1>3 DEF Forget, TypeOK, fsVars
<1>4. ASSUME Environment PROVE SeesPresent'
  <2>1. Observe /\ UNCHANGED pc
        BY <1>4 DEF Environment, Write, Rename, Chmod, callVars
  <2>. QED BY <2>1 DEF Observe
<1>5. CASE UNCHANGED vars
      BY <1>5 DEF vars, fsVars, callVars, auxVars
<1>6. ASSUME NEW c \in Calls, Recreate(c) PROVE SeesPresent'
  <2>1. Restart(c) /\ \E t \in States : Goto(c, t)
        BY <1>6 DEF Recreate, RecreatePaths, RecreateBlob, States
  <2>2. /\ \A p \in Paths : fs[p] \in seenFile'[c][p]
        /\ \A d \in Dirs : listable[d] \in seenDir'[c][d]
        BY <2>1 DEF Restart, TypeOK
  <2>. QED BY <2>1, <2>2 DEF Restart, TypeOK
<1>. QED BY <1>1, <1>2, <1>3, <1>4, <1>5, <1>6 DEF Next

\* A call whose results, argument and files-seen only grow stays observed.
LEMMA ObservedGrows ==
  ASSUME TypeOK, NEW c \in Calls, CallIsObserved(c),
         arg'[c] = arg[c], units'[c] = units[c], delivered'[c] = delivered[c],
         \A p \in Paths : seenFile[c][p] \subseteq seenFile'[c][p]
  PROVE  CallIsObserved(c)'
<1>1. \A f, r : TrueOf(seenFile[c], arg[c], f, r) => TrueOf(seenFile'[c], arg'[c], f, r)
      BY DEF TrueOf
<1>. QED BY <1>1 DEF CallIsObserved

LEMMA ObservedInit == Init => ResultsAreObserved
BY DEF Init, ResultsAreObserved, CallIsObserved

LEMMA ObservedRead ==
  ASSUME TypeOK, SeesPresent, NEW c \in Calls, CallIsObserved(c), ReadFile(c)
  PROVE  CallIsObserved(c)'
<1>1. PICK p, r0 :
          /\ p \in pending[c] /\ r0 \in Reads(fs[Name[p]])
        /\ units' = [units EXCEPT ![c] = Append(@, Unit(Name[p], r0))]
        /\ pc[c] = "reading" /\ UNCHANGED <<arg, delivered, seenFile>>
      BY DEF ReadFile, auxVars
<1>2. Name[p] \in Paths /\ Name[p] # NoFile
      BY <1>1, NameType, PathsAssumption DEF TypeOK
<1>3. fs[Name[p]] \in seenFile[c][Name[p]]
      BY <1>1, <1>2 DEF SeesPresent, Active
<1>4. TrueOf(seenFile'[c], arg'[c], Name[p], r0)
      BY <1>1, <1>2, <1>3 DEF TrueOf
<1>5. \A f, r : TrueOf(seenFile[c], arg[c], f, r) => TrueOf(seenFile'[c], arg'[c], f, r)
      BY <1>1 DEF TrueOf
<1>6. units'[c] = Append(units[c], Unit(Name[p], r0)) /\ units[c] \in Seq(Units)
      BY <1>1 DEF TypeOK
<1>7. \A i \in DOMAIN units'[c] :
        TrueOf(seenFile'[c], arg'[c], units'[c][i].file, units'[c][i].result)
  <2>. SUFFICES ASSUME NEW i \in DOMAIN units'[c]
                PROVE  TrueOf(seenFile'[c], arg'[c], units'[c][i].file,
                              units'[c][i].result)
       OBVIOUS
  <2>1. CASE i \in DOMAIN units[c]
    <3>1. units'[c][i] = units[c][i]
          BY <1>6, <2>1
    <3>. QED BY <3>1, <1>5, <2>1 DEF CallIsObserved
  <2>2. CASE i \notin DOMAIN units[c]
    <3>1. units'[c][i] = Unit(Name[p], r0)
          BY <1>6, <2>2
    <3>. QED BY <3>1, <1>4, <1>1 DEF Unit
  <2>. QED BY <2>1, <2>2
<1>. QED BY <1>1, <1>5, <1>7 DEF CallIsObserved

LEMMA ObservedDelivery ==
  ASSUME TypeOK, Phases, NEW c \in Calls, CallIsObserved(c), NextBatch(c)
  PROVE  CallIsObserved(c)'
<1>1. /\ delivered'[c] = delivered[c] \o Build(units[c])
      /\ units'[c] = <<>> /\ UNCHANGED <<arg, seenFile>>
      BY DEF NextBatch, TypeOK, auxVars
<1>2. delivered[c] = <<>>
      BY DEF NextBatch, Phases
<1>3. Build(units[c]) \in Seq(Blocks)
      BY BuildType DEF TypeOK
<1>4. delivered'[c] = Build(units[c])
      BY <1>1, <1>2, <1>3
<1>5. \A f, r : TrueOf(seenFile[c], arg[c], f, r) => TrueOf(seenFile'[c], arg'[c], f, r)
      BY <1>1 DEF TrueOf
<1>6. ASSUME NEW i \in DOMAIN delivered'[c]
      PROVE  \E u \in Units : /\ TrueOf(seenFile'[c], arg'[c], u.file, u.result)
                              /\ delivered'[c][i] = Block(u)
  <2>1. i \in DOMAIN units[c] /\ delivered'[c][i] = Block(units[c][i])
        BY <1>4, <1>6 DEF Build, TypeOK
  <2>2. units[c][i] \in Units
        BY <2>1 DEF TypeOK
  <2>3. TrueOf(seenFile'[c], arg'[c], units[c][i].file, units[c][i].result)
        BY <2>1, <1>5 DEF CallIsObserved
  <2>. QED BY <2>1, <2>2, <2>3
<1>7. DOMAIN units'[c] = {}
      BY <1>1
<1>. QED BY <1>6, <1>7 DEF CallIsObserved

LEMMA ObservedStep ==
  TypeOK /\ Phases /\ SeesPresent /\ ResultsAreObserved /\ [Next]_vars
    => ResultsAreObserved'
<1>. SUFFICES ASSUME TypeOK, Phases, SeesPresent, ResultsAreObserved, [Next]_vars,
                     NEW k \in Calls
              PROVE  CallIsObserved(k)'
     BY DEF ResultsAreObserved
<1>0. CallIsObserved(k)
      BY DEF ResultsAreObserved
<1>1. ASSUME NEW c \in Calls, Bound(c) PROVE CallIsObserved(k)'
  <2>1. PICK a \in Args : BindRefused(c, a) \/ BindBlob(c, a) \/ BindPaths(c, a)
        BY <1>1 DEF Bound
  <2>2. Bind(c, a)
        BY <2>1 DEF BindRefused, BindBlob, BindPaths
  <2>3. CASE k # c
        BY <1>0, <2>1, <2>2, <2>3, ObservedGrows
           DEF BindRefused, BindBlob, BindPaths, Bind, TypeOK
  <2>4. CASE k = c
    <3>1. units[c] = <<>> /\ delivered[c] = <<>>
          BY <2>2 DEF Phases, Bind
    <3>2. delivered'[c] = <<>>
          BY <2>1, <3>1 DEF BindRefused, BindBlob, BindPaths
    <3>3. CASE BindBlob(c, a)
      <4>1. units'[c] = <<Unit(NoFile, FromBytes(a.blob))>> /\ arg'[c] = a
            BY <3>3 DEF BindBlob, Bind, TypeOK
      <4>2. TrueOf(seenFile'[c], arg'[c], NoFile, FromBytes(a.blob))
            BY <4>1 DEF TrueOf
      <4>. QED BY <2>4, <3>2, <4>1, <4>2 DEF CallIsObserved, Unit
    <3>4. CASE ~BindBlob(c, a)
      <4>1. units'[c] = <<>>
            BY <2>1, <3>1, <3>4 DEF BindRefused, BindPaths
      <4>. QED BY <2>4, <3>2, <4>1 DEF CallIsObserved
    <3>. QED BY <3>3, <3>4
  <2>. QED BY <2>3, <2>4
<1>2. ASSUME NEW c \in Calls, ReadFile(c) PROVE CallIsObserved(k)'
  <2>1. CASE k # c
        BY <1>0, <1>2, <2>1, ObservedGrows DEF ReadFile, auxVars, TypeOK
  <2>2. CASE k = c
        BY <1>0, <1>2, <2>2, ObservedRead
  <2>. QED BY <2>1, <2>2
<1>3. ASSUME NEW c \in Calls, NextBatch(c) PROVE CallIsObserved(k)'
  <2>1. CASE k # c
        BY <1>0, <1>3, <2>1, ObservedGrows DEF NextBatch, auxVars, TypeOK
  <2>2. CASE k = c
        BY <1>0, <1>3, <2>2, ObservedDelivery
  <2>. QED BY <2>1, <2>2
<1>9. ASSUME NEW c \in Calls, BuildFails(c) PROVE CallIsObserved(k)'
  <2>1. CASE k # c
        BY <1>0, <1>9, <2>1, ObservedGrows DEF BuildFails, auxVars, TypeOK
  <2>2. CASE k = c
    <3>1. units'[c] = <<>> /\ delivered'[c] = <<>>
          BY <1>9 DEF BuildFails, Phases, TypeOK
    <3>. QED BY <2>2, <3>1 DEF CallIsObserved
  <2>. QED BY <2>1, <2>2
<1>4. ASSUME NEW c \in Calls, Step(c) \/ EndOfStream(c), ~ReadFile(c)
      PROVE  CallIsObserved(k)'
  <2>1. UNCHANGED <<arg, units, delivered, seenFile>>
        BY <1>4 DEF Step, TakeElement, ElementsDone, ExpandLiteral, ExpandGlob,
             ListDirectory, GlobDone, SpecDone, Resolved, EndOfStream, auxVars
  <2>. QED BY <1>0, <2>1, ObservedGrows
<1>5. ASSUME NEW c \in Calls, Forget(c) PROVE CallIsObserved(k)'
  <2>1. CASE k # c
        BY <1>0, <1>5, <2>1, ObservedGrows DEF Forget, TypeOK
  <2>2. CASE k = c
        BY <1>5, <2>2 DEF Forget, Phases, TypeOK, CallIsObserved
  <2>. QED BY <2>1, <2>2
<1>6. ASSUME Environment PROVE CallIsObserved(k)'
  <2>1. Observe /\ UNCHANGED callVars
        BY <1>6 DEF Environment, Write, Rename, Chmod
  <2>2. \A p \in Paths : seenFile[k][p] \subseteq seenFile'[k][p]
        BY <2>1 DEF Observe
  <2>. QED BY <1>0, <2>1, <2>2, ObservedGrows DEF callVars
<1>7. CASE UNCHANGED vars
      BY <1>0, <1>7, ObservedGrows DEF vars, callVars, auxVars
<1>8. ASSUME NEW c \in Calls, Recreate(c) PROVE CallIsObserved(k)'
  <2>1. CASE k # c
        BY <1>0, <1>8, <2>1, ObservedGrows
           DEF Recreate, RecreatePaths, RecreateBlob, Restart, TypeOK
  <2>2. CASE k = c
    <3>1. delivered'[c] = <<>> /\ arg'[c] = arg[c]
          BY <1>8 DEF Recreate, RecreatePaths, RecreateBlob, Restart, TypeOK
    <3>2. CASE RecreatePaths(c)
      <4>1. units'[c] = <<>>
            BY <3>2 DEF RecreatePaths, TypeOK
      <4>. QED BY <2>2, <3>1, <4>1 DEF CallIsObserved
    <3>3. CASE RecreateBlob(c)
      <4>1. units'[c] = <<Unit(NoFile, FromBytes(arg[c].blob))>>
            BY <3>3 DEF RecreateBlob, TypeOK
      <4>2. TrueOf(seenFile'[c], arg'[c], NoFile, FromBytes(arg[c].blob))
            BY <3>1 DEF TrueOf
      <4>. QED BY <2>2, <3>1, <4>1, <4>2 DEF CallIsObserved, Unit
    <3>. QED BY <1>8, <3>2, <3>3 DEF Recreate
  <2>. QED BY <2>1, <2>2
<1>. QED BY <1>1, <1>2, <1>3, <1>4, <1>5, <1>6, <1>7, <1>8, <1>9 DEF Next, Pull

LEMMA Inductive == (Init => IndInv) /\ (IndInv /\ [Next]_vars => IndInv')
BY TypeInit, PhasesInit, SeesInit, ObservedInit, TypeStep, PhasesStep, SeesStep,
   ObservedStep DEF IndInv

\* Whatever other calls and programs do to the files, a file's present contents are
\* always among those a call at work has seen, and a finished or reused producer
\* holds no units of before (source.rs:144-158, table/mod.rs:98-106).
THEOREM ScanInvariant == Spec => []IndInv
BY Inductive, PTL DEF Spec

\* Every result a call holds or delivers is what reading that very file gave at
\* some moment since its producer was made, for any number of calls and of changes.
THEOREM OnlyObservedResults == Spec => []ResultsAreObserved
<1>1. IndInv => ResultsAreObserved
      BY DEF IndInv
<1>. QED BY <1>1, ScanInvariant, PTL

-------------------------------------------------------------------------------
(* Scan implements the safety part of ScanAbs (that a call gets to the end of *)
(* its sources is liveness, which TLC checks).                                *)

stage == [c \in Calls |-> Stage(pc[c])]

\* A step of one call that moves it to s and changes neither what it observed
\* nor what it delivered is seen only through the stage of s.
LEMMA StageMoves ==
  ASSUME TypeOK, NEW c \in Calls, NEW s \in States, Goto(c, s)
  PROVE  stage' = [stage EXCEPT ![c] = Stage(s)]
BY DEF TypeOK, Goto, stage

LEMMA StageStays ==
  ASSUME TypeOK, NEW c \in Calls, NEW s \in States, Goto(c, s), Stage(s) = Stage(pc[c])
  PROVE  stage' = stage
BY DEF TypeOK, Goto, stage

\* ScanAbs speaks of the same files, units and batches.
LEMMA SameFiles == Abs!Files = Files /\ Abs!Bytes = Bytes
BY DEF Files, Abs!Files, Bytes, Abs!Bytes

LEMMA SameUnits ==
  /\ \A b : Abs!FromBytes(b) = FromBytes(b)
  /\ \A x : Abs!Reads(x) = Reads(x)
  /\ \A f, r : Abs!Unit(f, r) = Unit(f, r)
  /\ \A us : Abs!Build(us) = Build(us)
<1>1. /\ \A b : Abs!FromBytes(b) = FromBytes(b)
      /\ \A x : Abs!Read(x) = Read(x)
      /\ \A f, r : Abs!Unit(f, r) = Unit(f, r)
      BY DEF FromBytes, Abs!FromBytes, Ok, Abs!Ok, Err, Abs!Err, Unit, Abs!Unit,
             Read, Abs!Read
<1>2. \A u : Abs!Block(u) = Block(u)
      BY DEF Block, Abs!Block, NullRow, Abs!NullRow
<1>3. \A x : Abs!Reads(x) = Reads(x)
      BY <1>1, SameFiles DEF Reads, Abs!Reads
<1>. QED BY <1>1, <1>2, <1>3 DEF Build, Abs!Build

LEMMA RefinedInit == Init => Abs!Init
BY BoundAssumption, SameFiles DEF Init, Abs!Init, Stage

LEMMA RefinedBind ==
  ASSUME TypeOK, Phases, NEW c \in Calls, NEW a \in Args,
         BindRefused(c, a) \/ BindBlob(c, a) \/ BindPaths(c, a)
  PROVE  Abs!Next
<1>0. stage[c] = "idle"
      BY DEF BindRefused, BindBlob, BindPaths, Bind, stage, Stage
<1>4. /\ units = [units EXCEPT ![c] = <<>>]
      /\ delivered = [delivered EXCEPT ![c] = <<>>]
  <2>1. units[c] = <<>> /\ delivered[c] = <<>>
        BY DEF BindRefused, BindBlob, BindPaths, Bind, Phases
  <2>. QED BY <2>1 DEF TypeOK
<1>1. CASE BindRefused(c, a)
  <2>1. stage' = [stage EXCEPT ![c] = "refused"]
        BY <1>1, StageMoves DEF BindRefused, States, Stage
  <2>2. Abs!Refuse(c)
        BY <1>0, <1>1, <2>1 DEF BindRefused, fsVars, Abs!Refuse, Abs!Enter, stage
  <2>. QED BY <2>2 DEF Abs!Next
<1>2. CASE BindBlob(c, a)
  <2>1. stage' = [stage EXCEPT ![c] = "resolved"]
        BY <1>2, StageMoves DEF BindBlob, States, Stage
  <2>2. a.blob \in Bytes
        BY <1>2, ArgsAssumption DEF BindBlob, Refused
  <2>3. Abs!BeginInline(c, a.blob)
        BY <1>0, <1>2, <1>4, <2>1, SameUnits
           DEF BindBlob, fsVars, Abs!BeginInline, Abs!BeginWith, Abs!Enter, stage
  <2>. QED BY <2>2, <2>3, SameFiles DEF Abs!Next
<1>3. CASE BindPaths(c, a)
  <2>1. stage' = [stage EXCEPT ![c] = "scanning"]
        BY <1>3, StageMoves DEF BindPaths, States, Stage
  <2>2. Abs!Begin(c)
        BY <1>0, <1>3, <1>4, <2>1
           DEF BindPaths, fsVars, Abs!Begin, Abs!BeginWith, Abs!Enter, stage
  <2>. QED BY <2>2 DEF Abs!Next
<1>. QED BY <1>1, <1>2, <1>3

LEMMA RefinedRead ==
  ASSUME TypeOK, NEW c \in Calls, ReadFile(c)
  PROVE  Abs!Next
<1>1. PICK p, r :
          /\ p \in pending[c] /\ r \in Reads(fs[Name[p]])
        /\ units' = [units EXCEPT ![c] = Append(@, Unit(Name[p], r))]
        /\ pc[c] = "reading" /\ UNCHANGED <<fs, pc, delivered>>
      BY DEF ReadFile, fsVars
<1>2. Name[p] \in Paths
      BY <1>1, NameType DEF TypeOK
<1>3. stage[c] = "scanning" /\ UNCHANGED stage
      BY <1>1 DEF stage, Stage
<1>4. Abs!ObserveFile(c, Name[p])
      BY <1>1, <1>3, SameUnits DEF Abs!ObserveFile, stage
<1>. QED BY <1>2, <1>4 DEF Abs!Next

LEMMA RefinedResolved ==
  ASSUME TypeOK, NEW c \in Calls, Resolved(c)
  PROVE  Abs!Next
<1>1. stage[c] = "scanning"
      BY DEF Resolved, stage, Stage
<1>2. stage' = [stage EXCEPT ![c] = "resolved"]
      BY StageMoves DEF Resolved, States, Stage
<1>3. Abs!Resolve(c)
      BY <1>1, <1>2 DEF Resolved, fsVars, Abs!Resolve, Abs!Enter, stage
<1>. QED BY <1>3 DEF Abs!Next

LEMMA RefinedFailure ==
  ASSUME TypeOK, NEW c \in Calls, BuildFails(c)
  PROVE  Abs!Next
<1>1. stage[c] = "resolved"
      BY DEF BuildFails, stage, Stage
<1>2. stage' = [stage EXCEPT ![c] = "failed"]
      BY StageMoves DEF BuildFails, States, Stage
<1>3. Abs!Fail(c)
      BY <1>1, <1>2 DEF BuildFails, fsVars, Abs!Fail, Abs!Enter, stage
<1>. QED BY <1>3 DEF Abs!Next

LEMMA RefinedDelivery ==
  ASSUME TypeOK, Phases, NEW c \in Calls, NextBatch(c)
  PROVE  Abs!Next
<1>1. stage[c] = "resolved"
      BY DEF NextBatch, stage, Stage
<1>2. stage' = [stage EXCEPT ![c] = "delivered"]
      BY StageMoves DEF NextBatch, States, Stage
<1>3. delivered[c] = <<>> /\ Build(units[c]) \in Seq(Blocks)
      BY BuildType DEF NextBatch, Phases, TypeOK
<1>4. delivered' = [delivered EXCEPT ![c] = Build(units[c])]
      BY <1>3 DEF NextBatch
<1>5. Abs!Deliver(c)
      BY <1>1, <1>2, <1>4, SameUnits DEF NextBatch, fsVars, Abs!Deliver, Abs!Enter, stage
<1>. QED BY <1>5 DEF Abs!Next

LEMMA RefinedRecreate ==
  ASSUME TypeOK, Phases, NEW c \in Calls, Recreate(c)
  PROVE  Abs!Next
<1>1. /\ Produced(c) /\ fs' = fs
      /\ delivered' = [delivered EXCEPT ![c] = <<>>]
      BY DEF Recreate, RecreatePaths, RecreateBlob, Restart
<1>2. stage[c] \in {"resolved", "delivered", "failed"}
      BY <1>1 DEF Produced, stage, Stage
<1>3. CASE RecreatePaths(c)
  <2>1. stage' = [stage EXCEPT ![c] = "scanning"]
        BY <1>3, StageMoves DEF RecreatePaths, States, Stage
  <2>2. Abs!Begin(c)
        BY <1>1, <1>2, <1>3, <2>1
           DEF RecreatePaths, Abs!Begin, Abs!BeginWith, Abs!Enter, stage
  <2>. QED BY <2>2 DEF Abs!Next
<1>4. CASE RecreateBlob(c)
  <2>1. stage' = [stage EXCEPT ![c] = "resolved"]
        BY <1>4, StageMoves DEF RecreateBlob, States, Stage
  <2>2. arg[c] \in Args /\ ~Refused(arg[c])
        BY <1>1 DEF Produced, Phases
  <2>3. arg[c].blob \in Bytes
        BY <1>4, <2>2, ArgsAssumption DEF RecreateBlob, Refused
  <2>4. Abs!BeginInline(c, arg[c].blob)
        BY <1>1, <1>2, <1>4, <2>1, SameUnits
           DEF RecreateBlob, Abs!BeginInline, Abs!BeginWith, Abs!Enter, stage
  <2>. QED BY <2>3, <2>4, SameFiles DEF Abs!Next
<1>. QED BY <1>3, <1>4 DEF Recreate

LEMMA RefinedEnd ==
  ASSUME TypeOK, NEW c \in Calls, Forget(c)
  PROVE  Abs!Next
<1>1. stage[c] \in {"resolved", "delivered", "failed", "refused"}
      BY DEF Forget, Produced, stage, Stage
<1>2. stage' = [stage EXCEPT ![c] = "idle"]
      BY StageMoves DEF Forget, States, Stage
<1>3. Abs!End(c)
      BY <1>1, <1>2 DEF Forget, fsVars, Abs!End, Abs!Enter, stage
<1>. QED BY <1>3 DEF Abs!Next

LEMMA RefinedStutter ==
  ASSUME TypeOK, NEW c \in Calls, Step(c) \/ EndOfStream(c), ~ReadFile(c), ~Resolved(c)
  PROVE  UNCHANGED <<fs, stage, units, delivered>>
<1>1. UNCHANGED <<fs, units, delivered>>
      BY DEF Step, TakeElement, ElementsDone, ExpandLiteral, ExpandGlob,
         ListDirectory, GlobDone, SpecDone, EndOfStream, fsVars
<1>2. stage' = stage
  <2>1. \/ UNCHANGED pc
        \/ \E s \in States : Goto(c, s) /\ Stage(s) = Stage(pc[c])
        BY DEF Step, TakeElement, ElementsDone, ExpandLiteral, ExpandGlob,
           ListDirectory, GlobDone, SpecDone, EndOfStream, Stage, States
  <2>2. CASE UNCHANGED pc
        BY <2>2 DEF stage
  <2>. QED BY <2>1, <2>2, StageStays
<1>. QED BY <1>1, <1>2

LEMMA RefinedStep == TypeOK /\ TypeOK' /\ Phases /\ [Next]_vars => [Abs!Next]_(Abs!vars)
<1>. SUFFICES ASSUME TypeOK, TypeOK', Phases, [Next]_vars PROVE [Abs!Next]_(Abs!vars)
     OBVIOUS
<1>1. ASSUME NEW c \in Calls, Bound(c) PROVE Abs!Next
      BY <1>1, RefinedBind DEF Bound
<1>2. ASSUME NEW c \in Calls, Step(c) \/ Pull(c) PROVE [Abs!Next]_(Abs!vars)
  <2>1. CASE ReadFile(c)
        BY <2>1, RefinedRead
  <2>2. CASE Resolved(c)
        BY <2>2, RefinedResolved
  <2>3. CASE NextBatch(c)
        BY <2>3, RefinedDelivery
  <2>4. CASE BuildFails(c)
        BY <2>4, RefinedFailure
  <2>5. CASE (Step(c) \/ EndOfStream(c)) /\ ~ReadFile(c) /\ ~Resolved(c)
        BY <2>5, RefinedStutter DEF Abs!vars, stage
  <2>. QED BY <1>2, <2>1, <2>2, <2>3, <2>4, <2>5 DEF Pull
<1>3. ASSUME NEW c \in Calls, Forget(c) PROVE Abs!Next
      BY <1>3, RefinedEnd
<1>4. ASSUME Environment PROVE Abs!Next
  <2>1. UNCHANGED <<pc, units, delivered>>
        BY <1>4 DEF Environment, Write, Rename, Chmod, callVars
  <2>2. fs' \in [Paths -> Files]
        BY DEF TypeOK
  <2>3. Abs!World
        BY <2>1, <2>2, SameFiles DEF Abs!World
  <2>. QED BY <2>3 DEF Abs!Next
<1>5. CASE UNCHANGED vars
      BY <1>5 DEF vars, fsVars, callVars, Abs!vars
<1>6. ASSUME NEW c \in Calls, Recreate(c) PROVE Abs!Next
      BY <1>6, RefinedRecreate
<1>. QED BY <1>1, <1>2, <1>3, <1>4, <1>5, <1>6 DEF Next

\* Every behaviour of the worker's calls is, seen through its observations and
\* deliveries, a behaviour of the abstract promise: files are read one at a time,
\* and a producer that is pulled from delivers all of them at once and once only,
\* or nothing when its batch cannot be built (table/mod.rs:102-107); none of it is
\* from a producer that was dropped.
THEOREM ScanImplementsSafety == Spec => Abs!Safety
<1>1. Init => TypeOK /\ Phases
      BY TypeInit, PhasesInit
<1>2. TypeOK /\ Phases /\ [Next]_vars => (TypeOK /\ Phases)'
      BY TypeStep, PhasesStep
<1>. QED BY <1>1, <1>2, RefinedInit, RefinedStep, PTL DEF Spec, Abs!Safety

-------------------------------------------------------------------------------
(* The promises of ScanRef *)

\* A call that works on path specs.
Scanning(c) == pc[c] \notin {"idle", "unbuilt", "failed"} /\ arg[c].kind # "binary"

LEMMA ArgType ==
  ASSUME IndInv, NEW c \in Calls, pc[c] # "idle"
  PROVE  arg[c] \in Args /\ arg[c].elems \in Seq(Specs \cup {NullElem})
BY ArgsAssumption DEF IndInv, Phases

LEMMA PlaceType ==
  \A c, x : x \in Places(c) =>
    /\ x[1] \in DOMAIN arg[c].elems /\ x[2] \in Paths /\ x = <<x[1], x[2]>>
    /\ MayName(arg[c].elems[x[1]], x[2])
BY DEF Places

\* A call at work has the witnesses of its progress, and a call that has them is traced.
LEMMA TraceOf ==
  ASSUME NEW c, Traced(c), Scanning(c)
  PROVE  \E m \in 0..Len(arg[c].elems) :
         \E at \in [DOMAIN specs[c] -> DOMAIN arg[c].elems] :
         \E from \in [DOMAIN Output(c) -> Places(c)] : Trace(c, m, at, from)
BY DEF Traced, Scanning

LEMMA TracedBy ==
  ASSUME NEW c, Tidy(c)', Scanning(c)',
         NEW m \in 0..Len(arg'[c].elems),
         NEW at \in [DOMAIN specs'[c] -> DOMAIN arg'[c].elems],
         NEW from \in [(DOMAIN Output(c))' -> Places(c)'],
         pc'[c] = "args" => m = 0,
         Ahead(arg[c].elems, elems[c], specs[c], m, at)', Behind(c, m, from)',
         Current(c, m, from)', Collected(c, m, from)'
  PROVE  Traced(c)'
<1>1. Trace(c, m, at, from)'
      BY DEF Trace
<1>. QED BY <1>1 DEF Traced, Scanning

-------------------------------------------------------------------------------
(* Steps outside call c: they leave its work alone, and what it has seen grows. *)

LEMMA SamePlaces ==
  ASSUME NEW c, arg'[c] = arg[c]
  PROVE  Places(c)' = Places(c)
BY DEF Places

LEMMA SawGrows ==
  ASSUME NEW c, NEW q \in Paths,
         \A p \in Paths : seenFile[c][p] \subseteq seenFile'[c][p],
         \A d \in Dirs : seenDir[c][d] \subseteq seenDir'[c][d]
  PROVE  /\ SawFound(c, q) => SawFound(c, q)'
         /\ SawMissing(c, q) => SawMissing(c, q)'
BY DirsAssumption DEF SawFound, SawMissing

LEMMA TracedElsewhere ==
  ASSUME NEW c, Traced(c), pc'[c] = pc[c], arg'[c] = arg[c], elems'[c] = elems[c],
         specs'[c] = specs[c], glob'[c] = glob[c], dirs'[c] = dirs[c],
         pending'[c] = pending[c], units'[c] = units[c], delivered'[c] = delivered[c],
         \A p \in Paths : seenFile[c][p] \subseteq seenFile'[c][p],
         \A d \in Dirs : seenDir[c][d] \subseteq seenDir'[c][d]
  PROVE  Traced(c)'
<1>1. Tidy(c)'
      BY DEF Traced, Tidy
<1>2. Output(c)' = Output(c)
      BY DEF Output, Finished
<1>3. CASE ~Scanning(c)
      BY <1>1, <1>2, <1>3 DEF Traced, Scanning
<1>4. CASE Scanning(c)
  <2>1. PICK m \in 0..Len(arg[c].elems),
             at \in [DOMAIN specs[c] -> DOMAIN arg[c].elems],
             from \in [DOMAIN Output(c) -> Places(c)] : Trace(c, m, at, from)
        BY <1>4, TraceOf
  <2>2. Places(c)' = Places(c)
        BY SamePlaces
  <2>3. Ahead(arg[c].elems, elems[c], specs[c], m, at)'
        BY <2>1 DEF Trace, Ahead
  <2>4. Behind(c, m, from)'
        BY <1>2, <2>1 DEF Trace, Behind, InOrder
  <2>5. Current(c, m, from)'
        BY <2>1, <2>2 DEF Trace, Current
  <2>6. Collected(c, m, from)'
    <3>1. \A x \in Places(c) : Taken(c, m, from, x)' = Taken(c, m, from, x)
          BY DEF Taken
    <3>2. \A x \in Places(c) : x[2] \in Paths
          BY PlaceType
    <3>. QED BY <2>1, <2>2, <3>1, <3>2, SawGrows DEF Trace, Collected
  <2>7. Scanning(c)' /\ (pc'[c] = "args" => m = 0)
        BY <1>4, <2>1 DEF Scanning, Trace
  <2>8. /\ m \in 0..Len(arg'[c].elems)
        /\ at \in [DOMAIN specs'[c] -> DOMAIN arg'[c].elems]
        /\ from \in [(DOMAIN Output(c))' -> Places(c)']
        BY <1>2, <2>1, <2>2
  <2>. QED BY <1>1, <2>3, <2>4, <2>5, <2>6, <2>7, <2>8, TracedBy
<1>. QED BY <1>3, <1>4

-------------------------------------------------------------------------------
(* Steps of call c itself.  Its argument and what it has seen stay, and mostly so *)
(* does its output.                                                           *)

LEMMA SameSights ==
  ASSUME NEW c, arg'[c] = arg[c], seenFile'[c] = seenFile[c], seenDir'[c] = seenDir[c]
  PROVE  /\ Places(c)' = Places(c)
         /\ \A q : SawFound(c, q)' = SawFound(c, q) /\ SawMissing(c, q)' = SawMissing(c, q)
BY SamePlaces DEF SawFound, SawMissing

LEMMA BehindStays ==
  ASSUME NEW c, NEW m \in Nat, NEW n \in Nat, m <= n, Output(c)' = Output(c),
         NEW from \in [DOMAIN Output(c) -> Places(c)], Behind(c, m, from),
         \A x \in Places(c) : x[1] \in Nat
  PROVE  Behind(c, n, from)'
BY DEF Behind, InOrder

LEMMA PlaceIsNat ==
  ASSUME IndInv, NEW c \in Calls, pc[c] # "idle"
  PROVE  \A x \in Places(c) : x[1] \in Nat
BY ArgType, PlaceType

LEMMA AheadTake ==
  ASSUME NEW X, NEW E \in Seq(X), NEW es \in Seq(X), NEW sp \in Seq(X),
         NEW at \in [DOMAIN sp -> DOMAIN E], Ahead(E, es, sp, 0, at), es # <<>>
  PROVE  /\ Head(es) = NullElem => Ahead(E, Tail(es), sp, 0, at)
         /\ \E at1 \in [DOMAIN Append(sp, Head(es)) -> DOMAIN E] :
              Ahead(E, Tail(es), Append(sp, Head(es)), 0, at1)
<1>. DEFINE k == Len(E) - Len(es)
            n1 == Len(sp) + 1
            sp1 == Append(sp, Head(es))
            at1 == [i \in 1..n1 |-> IF i = n1 THEN k + 1 ELSE at[i]]
<1>1. Len(E) \in Nat /\ Len(es) \in Nat \ {0} /\ Len(sp) \in Nat
      OBVIOUS
<1>2. k \in Nat /\ k + 1 \in DOMAIN E
  <2>1. k >= 0
        BY DEF Ahead
  <2>. QED BY <1>1, <2>1
<1>3. Len(E) - Len(Tail(es)) = k + 1
  <2>1. Tail(es) \in Seq(X) /\ Len(Tail(es)) = Len(es) - 1
        OBVIOUS
  <2>. HIDE DEF sp1, at1
  <2>. QED BY <1>1, <2>1
<1>4. /\ \A i \in DOMAIN es : es[i] = E[k + i]
      /\ \A i \in DOMAIN at : at[i] > 0 /\ at[i] <= k /\ sp[i] = E[at[i]]
      /\ \A i, j \in DOMAIN at : i < j => at[i] < at[j]
      /\ \A n \in 1..k : E[n] = NullElem \/ \E i \in DOMAIN at : at[i] = n
      BY DEF Ahead
<1>5. DOMAIN at = 1..Len(sp) /\ DOMAIN at1 = 1..n1 /\ \A i \in DOMAIN at : at[i] \in Nat
      OBVIOUS
<1>6. Head(es) = E[k + 1]
      BY <1>1, <1>4
<1>. HIDE DEF k
<1>7. \A i \in DOMAIN Tail(es) : Tail(es)[i] = E[(k + 1) + i]
  <2>1. \A i \in DOMAIN Tail(es) : /\ i \in Nat /\ i + 1 \in DOMAIN es
                                   /\ Tail(es)[i] = es[i + 1]
        OBVIOUS
  <2>2. \A i \in Nat : k + (i + 1) = (k + 1) + i
        BY <1>2
  <2>3. \A i \in DOMAIN Tail(es) : es[i + 1] = E[k + (i + 1)]
        BY <1>4, <2>1, Zenon
  <2>. HIDE DEF sp1, at1
  <2>. QED BY <2>1, <2>2, <2>3, Zenon
<1>8. ASSUME Head(es) = NullElem PROVE Ahead(E, Tail(es), sp, 0, at)
  <2>1. \A i \in DOMAIN at : at[i] <= k + 1
        BY <1>2, <1>4, <1>5
  <2>2. \A n \in 1..(k + 1) : n = k + 1 \/ n \in 1..k
        BY <1>2
  <2>3. \A n \in 1..(k + 1) : E[n] = NullElem \/ \E i \in DOMAIN at : at[i] = n
        BY <1>4, <1>6, <1>8, <2>2
  <2>4. k + 1 >= 0 /\ 0 + 1 = 1
        BY <1>2
  <2>. QED BY <1>3, <1>4, <1>7, <2>1, <2>3, <2>4 DEF Ahead
<1>9. DOMAIN sp1 = 1..n1 /\ at1 \in [1..n1 -> DOMAIN E]
      BY <1>2, <1>5
<1>10. n1 \in 1..n1 /\ at1[n1] = k + 1 /\ sp1[n1] = Head(es)
      BY <1>1
<1>11. \A i \in DOMAIN at : i \in 1..n1 /\ i # n1 /\ at1[i] = at[i] /\ sp1[i] = sp[i]
      BY <1>1, <1>5
<1>12. \A i \in 1..n1 : i = n1 \/ i \in DOMAIN at
      BY <1>1, <1>5
<1>. HIDE DEF at1, sp1
<1>13. Ahead(E, Tail(es), sp1, 0, at1)
  <2>1. \A i \in DOMAIN at : at1[i] > 0 /\ at1[i] <= k + 1 /\ sp1[i] = E[at1[i]]
        BY <1>2, <1>4, <1>5, <1>11
  <2>2. at1[n1] > 0 /\ at1[n1] <= k + 1 /\ sp1[n1] = E[at1[n1]]
        BY <1>2, <1>6, <1>10
  <2>3. \A i \in DOMAIN at1 : at1[i] > 0 /\ at1[i] <= k + 1 /\ sp1[i] = E[at1[i]]
        BY <1>5, <1>12, <2>1, <2>2
  <2>4. \A i, j \in DOMAIN at1 : i < j => at1[i] < at1[j]
    <3>. SUFFICES ASSUME NEW i \in DOMAIN at1, NEW j \in DOMAIN at1, i < j
                  PROVE  at1[i] < at1[j]
         OBVIOUS
    <3>1. i \in DOMAIN at
          BY <1>1, <1>5, <1>12
    <3>2. CASE j = n1
          BY <1>2, <1>4, <1>5, <1>10, <1>11, <3>1, <3>2
    <3>3. CASE j # n1
          BY <1>4, <1>5, <1>11, <1>12, <3>1, <3>3
    <3>. QED BY <3>2, <3>3
  <2>5. \A n \in 1..(k + 1) : E[n] = NullElem \/ \E i \in DOMAIN at1 : at1[i] = n
    <3>1. \A n \in 1..(k + 1) : n = k + 1 \/ n \in 1..k
          BY <1>2
    <3>2. \E i \in DOMAIN at1 : at1[i] = k + 1
          BY <1>5, <1>10
    <3>3. \A n \in 1..k : E[n] = NullElem \/ \E i \in DOMAIN at1 : at1[i] = n
          BY <1>4, <1>5, <1>11
    <3>. QED BY <3>1, <3>2, <3>3
  <2>6. k + 1 >= 0 /\ 0 + 1 = 1
        BY <1>2
  <2>. QED BY <1>3, <1>7, <2>3, <2>4, <2>5, <2>6 DEF Ahead
<1>. QED BY <1>8, <1>9, <1>13 DEF sp1

LEMMA AheadNext ==
  ASSUME NEW X, NEW E \in Seq(X), NEW sp \in Seq(X), NEW m \in Nat,
         NEW at \in [DOMAIN sp -> DOMAIN E], Ahead(E, <<>>, sp, m, at), sp # <<>>
  PROVE  /\ at[1] \in DOMAIN E /\ at[1] > m /\ E[at[1]] = Head(sp)
         /\ \A n \in DOMAIN E : n > m /\ n < at[1] => E[n] = NullElem
         /\ \E at1 \in [DOMAIN Tail(sp) -> DOMAIN E] : Ahead(E, <<>>, Tail(sp), at[1], at1)
<1>. DEFINE at1 == [i \in 1..Len(Tail(sp)) |-> at[i + 1]]
<1>1. Len(E) \in Nat /\ DOMAIN E = 1..Len(E) /\ DOMAIN at = 1..Len(sp) /\ Len(sp) \in Nat \ {0}
      OBVIOUS
<1>2. Len(E) - Len(<<>>) = Len(E)
      BY <1>1
<1>3. /\ \A i \in DOMAIN at : at[i] > m /\ at[i] <= Len(E) /\ sp[i] = E[at[i]]
      /\ \A i, j \in DOMAIN at : i < j => at[i] < at[j]
      /\ \A n \in (m + 1)..Len(E) : E[n] = NullElem \/ \E i \in DOMAIN at : at[i] = n
      BY <1>2 DEF Ahead
<1>4. 1 \in DOMAIN at /\ \A i \in DOMAIN at : i # 1 => 1 < i
      BY <1>1
<1>5. at[1] \in DOMAIN E /\ at[1] > m /\ E[at[1]] = Head(sp)
      BY <1>3, <1>4
<1>6. \A i \in DOMAIN at : i # 1 => at[1] < at[i]
      BY <1>3, <1>4
<1>7. \A n \in DOMAIN E : n > m /\ n < at[1] => E[n] = NullElem
  <2>. SUFFICES ASSUME NEW n \in DOMAIN E, n > m, n < at[1] PROVE E[n] = NullElem
       OBVIOUS
  <2>1. n \in (m + 1)..Len(E)
        BY <1>1
  <2>2. \A i \in DOMAIN at : at[i] # n
        BY <1>1, <1>5, <1>6
  <2>. QED BY <1>3, <2>1, <2>2
<1>8. /\ Tail(sp) \in Seq(X) /\ Len(Tail(sp)) = Len(sp) - 1
      /\ DOMAIN Tail(sp) = 1..Len(Tail(sp)) /\ DOMAIN at1 = 1..Len(Tail(sp))
      OBVIOUS
<1>9. \A i \in DOMAIN at1 : /\ i + 1 \in DOMAIN at /\ i + 1 # 1 /\ at1[i] = at[i + 1]
                            /\ Tail(sp)[i] = sp[i + 1]
      BY <1>1, <1>8
<1>10. \A j \in DOMAIN at : j # 1 => j - 1 \in DOMAIN at1 /\ (j - 1) + 1 = j
      BY <1>1, <1>8
<1>. HIDE DEF at1
<1>11. at1 \in [DOMAIN Tail(sp) -> DOMAIN E]
  <2>1. at1 \in [1..Len(Tail(sp)) -> DOMAIN E]
        BY <1>1, <1>8, <1>9 DEF at1
  <2>. QED BY <1>8, <2>1
<1>12. Ahead(E, <<>>, Tail(sp), at[1], at1)
  <2>1. \A i \in DOMAIN at1 : at1[i] > at[1] /\ at1[i] <= Len(E) /\ Tail(sp)[i] = E[at1[i]]
    <3>. SUFFICES ASSUME NEW i \in DOMAIN at1
                  PROVE  at1[i] > at[1] /\ at1[i] <= Len(E) /\ Tail(sp)[i] = E[at1[i]]
         OBVIOUS
    <3>1. at[i + 1] > at[1]
          BY <1>1, <1>5, <1>6, <1>9
    <3>2. at[i + 1] <= Len(E) /\ sp[i + 1] = E[at[i + 1]]
          BY <1>3, <1>9
    <3>. QED BY <1>9, <3>1, <3>2
  <2>2. \A i, j \in DOMAIN at1 : i < j => at1[i] < at1[j]
    <3>1. \A i, j \in DOMAIN at1 : i < j => i + 1 < j + 1
          BY <1>8
    <3>. QED BY <1>3, <1>9, <3>1
  <2>3. \A n \in (at[1] + 1)..Len(E) : E[n] = NullElem \/ \E i \in DOMAIN at1 : at1[i] = n
    <3>. SUFFICES ASSUME NEW n \in (at[1] + 1)..Len(E), E[n] # NullElem
                  PROVE  \E i \in DOMAIN at1 : at1[i] = n
         OBVIOUS
    <3>1. n \in (m + 1)..Len(E) /\ n # at[1]
          BY <1>1, <1>5
    <3>2. PICK j \in DOMAIN at : at[j] = n
          BY <1>3, <3>1
    <3>3. j # 1
          BY <3>1, <3>2
    <3>. QED BY <1>9, <1>10, <3>2, <3>3
  <2>4. Len(E) >= at[1] /\ DOMAIN <<>> = {}
        BY <1>1, <1>5
  <2>. QED BY <1>2, <2>1, <2>2, <2>3, <2>4 DEF Ahead
<1>. QED BY <1>5, <1>7, <1>11, <1>12

LEMMA TracedTakeElement ==
  ASSUME IndInv, NEW c \in Calls, Traced(c), TakeElement(c)
  PROVE  Traced(c)'
<1>. DEFINE E == arg[c].elems
            h == Head(elems[c])
<1>1. /\ pc[c] = "args" /\ elems[c] # <<>> /\ elems'[c] = Tail(elems[c])
      /\ specs'[c] = IF h = NullElem THEN specs[c] ELSE Append(specs[c], h)
      /\ UNCHANGED <<pc, arg, glob, dirs, pending, units, delivered, seenFile, seenDir>>
      BY DEF TakeElement, IndInv, TypeOK, auxVars
<1>2. Scanning(c)
      BY <1>1 DEF Traced, Tidy, Scanning
<1>3. PICK m \in 0..Len(E), at \in [DOMAIN specs[c] -> DOMAIN E],
           from \in [DOMAIN Output(c) -> Places(c)] : Trace(c, m, at, from)
      BY <1>2, TraceOf
<1>4. /\ m = 0 /\ Ahead(E, elems[c], specs[c], 0, at) /\ Behind(c, m, from)
      /\ Current(c, m, from) /\ Collected(c, m, from)
      BY <1>1, <1>3 DEF Trace
<1>5. Output(c)' = Output(c)
      BY <1>1 DEF Output, Finished
<1>6. Tidy(c)' /\ Scanning(c)'
      BY <1>1, <1>2 DEF Traced, Tidy, Scanning
<1>7. /\ E \in Seq(Specs \cup {NullElem}) /\ elems[c] \in Seq(Specs \cup {NullElem})
      /\ specs[c] \in Seq(Specs \cup {NullElem})
  <2>1. elems[c] \in Seq(Specs \cup {NullElem}) /\ specs[c] \in Seq(Specs)
        BY DEF IndInv, TypeOK
  <2>2. Seq(Specs) \subseteq Seq(Specs \cup {NullElem})
        OBVIOUS
  <2>. QED BY <1>1, <2>1, <2>2, ArgType
<1>8. /\ Places(c)' = Places(c)
      /\ \A q : SawFound(c, q)' = SawFound(c, q) /\ SawMissing(c, q)' = SawMissing(c, q)
      BY <1>1, SameSights
<1>9. Behind(c, m, from)'
  <2>1. \A x \in Places(c) : x[1] \in Nat
        BY <1>1, PlaceIsNat
  <2>2. m \in Nat /\ m <= m /\ from \in [DOMAIN Output(c) -> Places(c)]
        BY <1>3, <1>4
  <2>. QED BY <1>4, <1>5, <2>1, <2>2, BehindStays, Zenon
<1>10. Current(c, m, from)'
      BY <1>1, <1>4, <1>8 DEF Current
<1>11. Collected(c, m, from)'
  <2>1. \A x : Taken(c, m, from, x)' = Taken(c, m, from, x)
        BY <1>1 DEF Taken
  <2>. QED BY <1>1, <1>4, <1>8, <2>1 DEF Collected
<1>12. /\ from \in [(DOMAIN Output(c))' -> Places(c)'] /\ m \in 0..Len(arg'[c].elems)
       /\ arg'[c].elems = E
      BY <1>1, <1>3, <1>5, <1>8
<1>13. \E at1 \in [DOMAIN specs'[c] -> DOMAIN E] : Ahead(E, elems'[c], specs'[c], 0, at1)
  <2>. HIDE DEF E
  <2>0. elems[c] # <<>> /\ at \in [DOMAIN specs[c] -> DOMAIN E]
        BY <1>1, <1>3
  <2>1. /\ h = NullElem => Ahead(E, Tail(elems[c]), specs[c], 0, at)
        /\ \E at1 \in [DOMAIN Append(specs[c], h) -> DOMAIN E] :
             Ahead(E, Tail(elems[c]), Append(specs[c], h), 0, at1)
        BY <2>0, <1>4, <1>7, AheadTake, Zenon
  <2>2. CASE h = NullElem
    <3>1. specs'[c] = specs[c]
          BY <1>1, <2>2
    <3>. QED BY <2>0, <2>1, <2>2, <1>1, <3>1
  <2>3. CASE h # NullElem
    <3>1. specs'[c] = Append(specs[c], h)
          BY <1>1, <2>3
    <3>. QED BY <2>1, <1>1, <3>1
  <2>. QED BY <2>2, <2>3
<1>14. PICK at1 \in [DOMAIN specs'[c] -> DOMAIN E] : Ahead(E, elems'[c], specs'[c], 0, at1)
       BY <1>13
<1>15. Ahead(arg[c].elems, elems[c], specs[c], m, at1)'
       BY <1>4, <1>12, <1>14
<1>16. at1 \in [DOMAIN specs'[c] -> DOMAIN arg'[c].elems]
       BY <1>12, <1>14
<1>. QED BY <1>4, <1>6, <1>9, <1>10, <1>11, <1>12, <1>15, <1>16, TracedBy

\* A step that only moves the call on to its next phase.
Passes(c) ==
  ElementsDone(c) \/ GlobDone(c) \/ SpecDone(c) \/ Resolved(c) \/ EndOfStream(c)

LEMMA TracedPasses ==
  ASSUME IndInv, NEW c \in Calls, Traced(c), Passes(c)
  PROVE  Traced(c)'
<1>1. /\ UNCHANGED <<arg, elems, specs, dirs, pending, units, delivered, seenFile, seenDir>>
      /\ \/ pc[c] = "args" /\ pc'[c] = "specs" /\ elems[c] = <<>>
         \/ pc[c] = "listing" /\ pc'[c] = "reading" /\ dirs[c] = {}
         \/ pc[c] = "reading" /\ pc'[c] = "specs" /\ pending[c] = {}
         \/ pc[c] = "specs" /\ pc'[c] = "ready" /\ specs[c] = <<>>
         \/ pc[c] = "drained" /\ pc'[c] = "done"
      BY DEF Passes, ElementsDone, GlobDone, SpecDone, Resolved, EndOfStream, Goto,
             IndInv, TypeOK, auxVars
<1>2. Output(c)' = Output(c)
      BY <1>1 DEF Output, Finished
<1>3. Tidy(c)'
      BY <1>1 DEF Traced, Tidy
<1>4. CASE ~Scanning(c)
  <2>1. arg[c].kind = "binary"
        BY <1>1, <1>4 DEF Scanning
  <2>. QED BY <1>1, <1>2, <1>3, <2>1 DEF Traced
<1>5. CASE Scanning(c)
  <2>1. PICK m \in 0..Len(arg[c].elems),
             at \in [DOMAIN specs[c] -> DOMAIN arg[c].elems],
             from \in [DOMAIN Output(c) -> Places(c)] : Trace(c, m, at, from)
        BY <1>5, TraceOf
  <2>2. /\ Ahead(arg[c].elems, elems[c], specs[c], m, at) /\ Behind(c, m, from)
        /\ Current(c, m, from) /\ Collected(c, m, from)
        BY <2>1 DEF Trace
  <2>3. Scanning(c)'
        BY <1>1, <1>5 DEF Scanning
  <2>4. /\ Places(c)' = Places(c)
        /\ \A q : SawFound(c, q)' = SawFound(c, q) /\ SawMissing(c, q)' = SawMissing(c, q)
        BY <1>1, SameSights
  <2>5. Behind(c, m, from)'
        BY <1>1, <1>2, <2>1, <2>2, BehindStays, PlaceIsNat
  <2>6. Current(c, m, from)'
        BY <1>1, <2>2, <2>4 DEF Current
  <2>7. Collected(c, m, from)'
    <3>1. \A x : Taken(c, m, from, x)' = Taken(c, m, from, x)
          BY <1>1 DEF Taken
    <3>2. ~(pc'[c] = "listing") /\ (pc[c] = "listing" => dirs[c] = {})
          BY <1>1
    <3>. QED BY <1>1, <2>2, <2>4, <3>1, <3>2 DEF Collected
  <2>8. Ahead(arg[c].elems, elems[c], specs[c], m, at)' /\ pc'[c] # "args"
        BY <1>1, <2>2
  <2>9. /\ m \in 0..Len(arg'[c].elems)
        /\ at \in [DOMAIN specs'[c] -> DOMAIN arg'[c].elems]
        /\ from \in [(DOMAIN Output(c))' -> Places(c)']
        BY <1>1, <1>2, <2>1, <2>4
  <2>. QED BY <1>3, <2>3, <2>5, <2>6, <2>7, <2>8, <2>9, TracedBy
<1>. QED BY <1>4, <1>5

\* A pattern's or a path's turn: the first spec left is element m1.
LEMMA NextSpec ==
  ASSUME IndInv, NEW c \in Calls, Traced(c), pc[c] = "specs", specs[c] # <<>>
  PROVE  \E m \in Nat, m1 \in DOMAIN arg[c].elems,
            at1 \in [DOMAIN Tail(specs[c]) -> DOMAIN arg[c].elems],
            from \in [DOMAIN Output(c) -> Places(c)] :
           /\ m < m1 /\ arg[c].elems[m1] = Head(specs[c])
           /\ Ahead(arg[c].elems, elems[c], Tail(specs[c]), m1, at1)
           /\ Behind(c, m, from) /\ Collected(c, m, from)
           /\ \A x \in Places(c) : x[1] <= m1 => x[1] <= m \/ x[1] = m1
<1>. DEFINE E == arg[c].elems
<1>1. Scanning(c) /\ elems[c] = <<>>
      BY DEF Traced, Tidy, Scanning
<1>2. PICK m \in 0..Len(E), at \in [DOMAIN specs[c] -> DOMAIN E],
           from \in [DOMAIN Output(c) -> Places(c)] : Trace(c, m, at, from)
      BY <1>1, TraceOf
<1>3. Ahead(E, <<>>, specs[c], m, at) /\ Behind(c, m, from) /\ Collected(c, m, from)
      BY <1>1, <1>2 DEF Trace
<1>4. /\ E \in Seq(Specs \cup {NullElem}) /\ specs[c] \in Seq(Specs \cup {NullElem})
      /\ m \in Nat
  <2>1. specs[c] \in Seq(Specs)
        BY DEF IndInv, TypeOK
  <2>2. Seq(Specs) \subseteq Seq(Specs \cup {NullElem})
        OBVIOUS
  <2>. QED BY <1>2, <2>1, <2>2, ArgType
<1>. HIDE DEF E
<1>5. /\ at[1] \in DOMAIN E /\ at[1] > m /\ E[at[1]] = Head(specs[c])
      /\ \A n \in DOMAIN E : n > m /\ n < at[1] => E[n] = NullElem
      /\ \E at1 \in [DOMAIN Tail(specs[c]) -> DOMAIN E] :
           Ahead(E, <<>>, Tail(specs[c]), at[1], at1)
      BY <1>2, <1>3, <1>4, AheadNext, Zenon
<1>6. PICK at1 \in [DOMAIN Tail(specs[c]) -> DOMAIN E] :
        Ahead(E, <<>>, Tail(specs[c]), at[1], at1)
      BY <1>5
<1>7. ASSUME NEW x \in Places(c), x[1] <= at[1] PROVE x[1] <= m \/ x[1] = at[1]
  <2>1. x[1] \in DOMAIN E /\ E[x[1]] # NullElem
    <3>1. x[1] \in DOMAIN arg[c].elems /\ MayName(arg[c].elems[x[1]], x[2])
          BY PlaceType
    <3>. QED BY <3>1 DEF MayName, E
  <2>2. x[1] \in Nat /\ at[1] \in Nat /\ m \in Nat
        BY <1>4, <1>5, <2>1
  <2>3. ~(x[1] > m /\ x[1] < at[1])
        BY <1>5, <2>1
  <2>. QED BY <1>7, <2>2, <2>3
<1>8. m < at[1]
      BY <1>4, <1>5
<1>9. /\ m \in Nat /\ at[1] \in DOMAIN arg[c].elems
      /\ at1 \in [DOMAIN Tail(specs[c]) -> DOMAIN arg[c].elems]
      /\ Ahead(arg[c].elems, elems[c], Tail(specs[c]), at[1], at1)
      /\ arg[c].elems[at[1]] = Head(specs[c])
      BY <1>1, <1>4, <1>5, <1>6 DEF E
<1>. USE <1>9
<1>. WITNESS m \in Nat, at[1] \in DOMAIN arg[c].elems,
             at1 \in [DOMAIN Tail(specs[c]) -> DOMAIN arg[c].elems],
             from \in [DOMAIN Output(c) -> Places(c)]
<1>. QED BY <1>3, <1>7, <1>8

\* The places of the elements before m1 stay as they were taken in or left out.
LEMMA CollectedBefore ==
  ASSUME NEW c, NEW m, NEW m1, NEW from, NEW x, x \in Places(c), x[1] <= m, x[1] # m1,
         Collected(c, m, from), pc[c] # "listing", pending[c] = {}, arg'[c] = arg[c],
         \A q : SawFound(c, q)' = SawFound(c, q) /\ SawMissing(c, q)' = SawMissing(c, q)
  PROVE  IF ExpandsAsGlob(arg'[c].elems[x[1]])
         THEN IF Taken(c, m1, from, x)' THEN SawFound(c, x[2])'
              ELSE SawMissing(c, x[2])'
         ELSE Taken(c, m1, from, x)'
<1>1. Taken(c, m1, from, x)' = Taken(c, m, from, x)
      BY DEF Taken
<1>. QED BY <1>1 DEF Collected

LEMMA TracedExpandLiteral ==
  ASSUME IndInv, NEW c \in Calls, Traced(c), ExpandLiteral(c)
  PROVE  Traced(c)'
<1>. DEFINE E == arg[c].elems
            s == Head(specs[c])
<1>1. /\ pc[c] = "specs" /\ specs[c] # <<>> /\ ~ExpandsAsGlob(s)
      /\ pc'[c] = "reading" /\ specs'[c] = Tail(specs[c]) /\ pending'[c] = {Literal(s)}
      /\ UNCHANGED <<arg, elems, units, delivered, seenFile, seenDir>>
      BY DEF ExpandLiteral, Goto, IndInv, TypeOK, auxVars
<1>2. /\ Scanning(c) /\ Scanning(c)' /\ Tidy(c)' /\ pending[c] = {}
      BY <1>1 DEF Traced, Tidy, Scanning
<1>3. PICK m \in Nat, m1 \in DOMAIN E, at1 \in [DOMAIN Tail(specs[c]) -> DOMAIN E],
           from \in [DOMAIN Output(c) -> Places(c)] :
         /\ m < m1 /\ E[m1] = s /\ Ahead(E, elems[c], Tail(specs[c]), m1, at1)
         /\ Behind(c, m, from) /\ Collected(c, m, from)
         /\ \A x \in Places(c) : x[1] <= m1 => x[1] <= m \/ x[1] = m1
      BY <1>1, NextSpec
<1>4. Output(c)' = Output(c)
      BY <1>1 DEF Output, Finished
<1>5. /\ Places(c)' = Places(c)
      /\ \A q : SawFound(c, q)' = SawFound(c, q) /\ SawMissing(c, q)' = SawMissing(c, q)
      BY <1>1, SameSights
<1>6. m1 \in Nat /\ m1 \in 0..Len(E) /\ m1 > 0 /\ m <= m1 /\ \A x \in Places(c) : x[1] \in Nat
      BY <1>1, <1>3, ArgType, PlaceIsNat
<1>7. Behind(c, m1, from)'
      BY <1>3, <1>4, <1>6, BehindStays
<1>8. s \in Specs /\ s # NullElem /\ Literal(s) \in Paths
  <2>1. s \in Specs
        BY <1>1 DEF IndInv, TypeOK
  <2>2. s \in Malformed \/ s \in Names
        BY <1>1, <2>1 DEF ExpandsAsGlob, IsGlob, Specs
  <2>. QED BY <2>1, <2>2, GlobsAssumption, NameType DEF Literal
<1>9. \A d \in DOMAIN from : from[d][1] <= m
      BY <1>3 DEF Behind
<1>10. \A d \in DOMAIN from : from[d] \in Places(c)
      BY <1>3
<1>11. <<m1, Literal(s)>> \in Places(c)
      BY <1>1, <1>3, <1>8 DEF Places, MayName
<1>12. Current(c, m1, from)'
  <2>1. ASSUME NEW d \in DOMAIN from PROVE from[d][1] # m1 /\ from[d] # <<m1, Literal(s)>>
        BY <1>3, <1>6, <1>9, <1>10
  <2>. QED BY <1>1, <1>5, <1>6, <1>11, <2>1 DEF Current
<1>13. Collected(c, m1, from)'
  <2>. SUFFICES ASSUME NEW x \in Places(c), x[1] <= m1
                PROVE  IF ExpandsAsGlob(arg'[c].elems[x[1]])
                       THEN IF Taken(c, m1, from, x)' THEN SawFound(c, x[2])'
                            ELSE SawMissing(c, x[2])'
                       ELSE Taken(c, m1, from, x)'
       BY <1>1, <1>5 DEF Collected
  <2>1. CASE x[1] = m1
    <3>1. MayName(s, x[2])
          BY <1>3, <2>1, PlaceType
    <3>2. x[2] = Literal(s)
          BY <1>1, <3>1 DEF MayName
    <3>3. Taken(c, m1, from, x)'
          BY <1>1, <2>1, <3>2 DEF Taken
    <3>. QED BY <1>1, <1>3, <2>1, <3>3
  <2>2. CASE x[1] # m1
    <3>1. x[1] <= m
          BY <1>3, <2>2
    <3>. QED BY <1>1, <1>2, <1>3, <1>5, <2>2, <3>1, CollectedBefore
  <2>. QED BY <2>1, <2>2
<1>14. Ahead(arg[c].elems, elems[c], specs[c], m1, at1)' /\ pc'[c] # "args"
      BY <1>1, <1>3
<1>15. /\ m1 \in 0..Len(arg'[c].elems)
       /\ at1 \in [DOMAIN specs'[c] -> DOMAIN arg'[c].elems]
       /\ from \in [(DOMAIN Output(c))' -> Places(c)']
      BY <1>1, <1>3, <1>4, <1>5, <1>6
<1>. QED BY <1>2, <1>7, <1>12, <1>13, <1>14, <1>15, TracedBy

LEMMA TracedExpandGlob ==
  ASSUME IndInv, NEW c \in Calls, Traced(c), ExpandGlob(c)
  PROVE  Traced(c)'
<1>. DEFINE E == arg[c].elems
            s == Head(specs[c])
<1>1. /\ pc[c] = "specs" /\ specs[c] # <<>> /\ ExpandsAsGlob(s)
      /\ pc'[c] = "listing" /\ specs'[c] = Tail(specs[c])
      /\ glob'[c] = s /\ dirs'[c] = Listed(s)
      /\ UNCHANGED <<arg, elems, pending, units, delivered, seenFile, seenDir>>
      BY DEF ExpandGlob, Goto, IndInv, TypeOK, auxVars
<1>2. /\ Scanning(c) /\ Scanning(c)' /\ Tidy(c)' /\ pending[c] = {}
      BY <1>1 DEF Traced, Tidy, Scanning
<1>3. PICK m \in Nat, m1 \in DOMAIN E, at1 \in [DOMAIN Tail(specs[c]) -> DOMAIN E],
           from \in [DOMAIN Output(c) -> Places(c)] :
         /\ m < m1 /\ E[m1] = s /\ Ahead(E, elems[c], Tail(specs[c]), m1, at1)
         /\ Behind(c, m, from) /\ Collected(c, m, from)
         /\ \A x \in Places(c) : x[1] <= m1 => x[1] <= m \/ x[1] = m1
      BY <1>1, NextSpec
<1>4. Output(c)' = Output(c)
      BY <1>1 DEF Output, Finished
<1>5. /\ Places(c)' = Places(c)
      /\ \A q : SawFound(c, q)' = SawFound(c, q) /\ SawMissing(c, q)' = SawMissing(c, q)
      BY <1>1, SameSights
<1>6. m1 \in Nat /\ m1 \in 0..Len(E) /\ m1 > 0 /\ m <= m1 /\ \A x \in Places(c) : x[1] \in Nat
      BY <1>1, <1>3, ArgType, PlaceIsNat
<1>7. Behind(c, m1, from)'
      BY <1>3, <1>4, <1>6, BehindStays
<1>8. \A d \in DOMAIN from : from[d][1] < m1
  <2>1. \A d \in DOMAIN from : from[d][1] <= m /\ from[d] \in Places(c)
        BY <1>3 DEF Behind
  <2>. QED BY <1>3, <1>6, <2>1
<1>9. Current(c, m1, from)'
      BY <1>1, <1>2, <1>3, <1>6, <1>8 DEF Current
<1>10. Collected(c, m1, from)'
  <2>. SUFFICES ASSUME NEW x \in Places(c), x[1] <= m1
                PROVE  IF ExpandsAsGlob(arg'[c].elems[x[1]])
                       THEN IF Taken(c, m1, from, x)' THEN SawFound(c, x[2])'
                            ELSE \/ SawMissing(c, x[2])'
                                 \/ x[1] = m1 /\ DirOf[x[2]] \in dirs'[c]
                       ELSE Taken(c, m1, from, x)'
       BY <1>1, <1>5 DEF Collected
  <2>1. CASE x[1] = m1
    <3>1. MayName(s, x[2])
          BY <1>3, <2>1, PlaceType
    <3>2. DirOf[x[2]] \in dirs'[c]
          BY <1>1, <3>1 DEF MayName, Listed
    <3>3. ~Taken(c, m1, from, x)'
          BY <1>1, <1>2, <1>6, <1>8, <2>1 DEF Taken
    <3>. QED BY <1>1, <1>3, <2>1, <3>2, <3>3
  <2>2. CASE x[1] # m1
    <3>1. x[1] <= m
          BY <1>3, <2>2
    <3>. QED BY <1>1, <1>2, <1>3, <1>5, <2>2, <3>1, CollectedBefore
  <2>. QED BY <2>1, <2>2
<1>11. Ahead(arg[c].elems, elems[c], specs[c], m1, at1)' /\ pc'[c] # "args"
      BY <1>1, <1>3
<1>12. /\ m1 \in 0..Len(arg'[c].elems)
       /\ at1 \in [DOMAIN specs'[c] -> DOMAIN arg'[c].elems]
       /\ from \in [(DOMAIN Output(c))' -> Places(c)']
      BY <1>1, <1>3, <1>4, <1>5, <1>6
<1>. QED BY <1>2, <1>7, <1>9, <1>10, <1>11, <1>12, TracedBy

LEMMA TracedListDirectory ==
  ASSUME IndInv, NEW c \in Calls, NEW e \in Dirs, Traced(c), ListDirectory(c, e)
  PROVE  Traced(c)'
<1>. DEFINE E == arg[c].elems
            new == {p \in Matches[glob[c]] : DirOf[p] = e /\ listable[e] /\ fs[p] # Absent}
<1>1. /\ pc[c] = "listing" /\ pending'[c] = pending[c] \cup new /\ dirs'[c] = dirs[c] \ {e}
      /\ UNCHANGED <<pc, arg, elems, specs, glob, units, delivered, seenFile, seenDir>>
      BY DEF ListDirectory, IndInv, TypeOK, auxVars
<1>2. Scanning(c) /\ Scanning(c)' /\ Tidy(c)'
      BY <1>1 DEF Traced, Tidy, Scanning
<1>3. PICK m \in 0..Len(E), at \in [DOMAIN specs[c] -> DOMAIN E],
           from \in [DOMAIN Output(c) -> Places(c)] : Trace(c, m, at, from)
      BY <1>2, TraceOf
<1>4. /\ Ahead(E, elems[c], specs[c], m, at) /\ Behind(c, m, from)
      /\ Current(c, m, from) /\ Collected(c, m, from)
      BY <1>3 DEF Trace
<1>5. Output(c)' = Output(c)
      BY <1>1 DEF Output, Finished
<1>6. /\ Places(c)' = Places(c)
      /\ \A q : SawFound(c, q)' = SawFound(c, q) /\ SawMissing(c, q)' = SawMissing(c, q)
      BY <1>1, SameSights
<1>7. Behind(c, m, from)'
      BY <1>1, <1>3, <1>4, <1>5, BehindStays, PlaceIsNat
<1>8. /\ m > 0 /\ glob[c] = E[m] /\ ExpandsAsGlob(glob[c])
      /\ \A d \in DOMAIN from : from[d][1] < m
      BY <1>1, <1>4 DEF Current
<1>9. /\ E \in Seq(Specs \cup {NullElem}) /\ m \in DOMAIN E
      /\ glob[c] \in Globs /\ glob[c] # NullElem /\ new \subseteq Paths
  <2>1. E \in Seq(Specs \cup {NullElem})
        BY <1>1, ArgType
  <2>2. glob[c] \in Globs /\ glob[c] # NullElem
        BY <1>8, GlobsAssumption DEF ExpandsAsGlob, IsGlob, Specs
  <2>3. Matches[glob[c]] \subseteq Paths
        BY <2>2, GlobsAssumption
  <2>. QED BY <1>3, <1>8, <2>1, <2>2, <2>3
<1>10. \A d \in DOMAIN from : from[d][1] \in Nat /\ from[d][1] # m
  <2>1. \A d \in DOMAIN from : from[d][1] \in Nat
        BY <1>1, <1>3, PlaceIsNat
  <2>. QED BY <1>3, <1>8, <2>1
<1>11. \A q \in new : <<m, q>> \in Places(c)
       BY <1>8, <1>9 DEF Places, MayName
<1>12. \A q \in new : SawFound(c, q)
  <2>1. Active(c)
        BY <1>1 DEF Active
  <2>. QED BY <1>9, <2>1 DEF IndInv, SeesPresent, SawFound
<1>13. \A q \in Matches[glob[c]] \ new : DirOf[q] = e => SawMissing(c, q)
  <2>1. Active(c)
        BY <1>1 DEF Active
  <2>2. Matches[glob[c]] \subseteq Paths
        BY <1>9, GlobsAssumption
  <2>3. \A q \in Matches[glob[c]] \ new : DirOf[q] = e => ~listable[e] \/ fs[q] = Absent
        OBVIOUS
  <2>4. listable[e] \in BOOLEAN
        BY DEF IndInv, TypeOK
  <2>5. /\ listable[e] \in seenDir[c][e]
        /\ \A q \in Paths : fs[q] \in seenFile[c][q]
        BY <2>1 DEF IndInv, SeesPresent
  <2>. QED BY <2>2, <2>3, <2>4, <2>5 DEF SawMissing
<1>. HIDE DEF new
<1>14. Current(c, m, from)'
  <2>1. ASSUME NEW q \in pending'[c], NEW d \in DOMAIN from
        PROVE  from[d] # <<m, q>> /\ (from[d][1] = m => Name[from[d][2]] <= Name[q])
        BY <1>10
  <2>2. \A q \in pending'[c] : <<m, q>> \in Places(c)
        BY <1>1, <1>4, <1>11 DEF Current
  <2>. QED BY <1>1, <1>6, <1>8, <2>1, <2>2 DEF Current
<1>15. Collected(c, m, from)'
  <2>. SUFFICES ASSUME NEW x \in Places(c), x[1] <= m
                PROVE  IF ExpandsAsGlob(arg'[c].elems[x[1]])
                       THEN IF Taken(c, m, from, x)' THEN SawFound(c, x[2])
                            ELSE \/ SawMissing(c, x[2])
                                 \/ x[1] = m /\ DirOf[x[2]] \in dirs'[c]
                       ELSE Taken(c, m, from, x)'
       BY <1>1, <1>6 DEF Collected
  <2>1. IF ExpandsAsGlob(E[x[1]])
        THEN IF Taken(c, m, from, x) THEN SawFound(c, x[2])
             ELSE \/ SawMissing(c, x[2])
                  \/ x[1] = m /\ DirOf[x[2]] \in dirs[c]
        ELSE Taken(c, m, from, x)
        BY <1>1, <1>4 DEF Collected
  <2>2. CASE x[1] = m
    <3>1. MayName(glob[c], x[2])
          BY <1>8, <2>2, PlaceType
    <3>2. x[2] \in Matches[glob[c]] /\ ExpandsAsGlob(E[x[1]])
          BY <1>8, <2>2, <3>1 DEF MayName
    <3>3. Taken(c, m, from, x) <=> x[2] \in pending[c]
          BY <1>10, <2>2 DEF Taken
    <3>4. Taken(c, m, from, x)' <=> x[2] \in pending[c] \cup new
          BY <1>1, <1>10, <2>2 DEF Taken
    <3>5. CASE x[2] \in pending[c]
          BY <1>1, <2>1, <3>2, <3>3, <3>4, <3>5
    <3>6. CASE x[2] \in new
          BY <1>1, <1>12, <3>2, <3>4, <3>6
    <3>7. CASE x[2] \notin pending[c] \cup new
          BY <1>1, <1>13, <2>1, <2>2, <3>2, <3>3, <3>4, <3>7
    <3>. QED BY <3>5, <3>6, <3>7
  <2>3. CASE x[1] # m
    <3>1. Taken(c, m, from, x)' = Taken(c, m, from, x)
          BY <2>3 DEF Taken
    <3>. QED BY <1>1, <2>1, <2>3, <3>1
  <2>. QED BY <2>2, <2>3
<1>16. Ahead(arg[c].elems, elems[c], specs[c], m, at)' /\ pc'[c] # "args"
       BY <1>1, <1>4
<1>17. /\ m \in 0..Len(arg'[c].elems)
       /\ at \in [DOMAIN specs'[c] -> DOMAIN arg'[c].elems]
       /\ from \in [(DOMAIN Output(c))' -> Places(c)']
      BY <1>1, <1>3, <1>5, <1>6
<1>. QED BY <1>2, <1>7, <1>14, <1>15, <1>16, <1>17, TracedBy

LEMMA TracedReadFile ==
  ASSUME IndInv, NEW c \in Calls, Traced(c), ReadFile(c)
  PROVE  Traced(c)'
<1>. DEFINE E == arg[c].elems
            n == Len(units[c])
<1>1. PICK p \in pending[c], r \in Results :
        /\ pc[c] = "reading" /\ \A q \in pending[c] : Name[p] <= Name[q]
        /\ units'[c] = Append(units[c], Unit(Name[p], r))
        /\ pending'[c] = pending[c] \ {p}
        /\ UNCHANGED <<pc, arg, elems, specs, glob, dirs, delivered, seenFile, seenDir>>
  <2>1. PICK p, r :
          /\ p \in pending[c] /\ r \in Reads(fs[Name[p]])
          /\ pc[c] = "reading" /\ \A q \in pending[c] : Name[p] <= Name[q]
          /\ units' = [units EXCEPT ![c] = Append(@, Unit(Name[p], r))]
          /\ pending' = [pending EXCEPT ![c] = @ \ {p}]
          /\ UNCHANGED <<auxVars, pc, arg, elems, specs, glob, dirs, delivered>>
        BY DEF ReadFile
  <2>2. r \in Results
        BY <2>1, ReadType, NameType DEF IndInv, TypeOK
  <2>3. /\ units'[c] = Append(units[c], Unit(Name[p], r))
        /\ pending'[c] = pending[c] \ {p}
        BY <2>1 DEF IndInv, TypeOK
  <2>. QED BY <2>1, <2>2, <2>3 DEF auxVars
<1>2. Scanning(c) /\ Scanning(c)' /\ Tidy(c)'
      BY <1>1 DEF Traced, Tidy, Scanning
<1>3. PICK m \in 0..Len(E), at \in [DOMAIN specs[c] -> DOMAIN E],
           from \in [DOMAIN Output(c) -> Places(c)] : Trace(c, m, at, from)
      BY <1>2, TraceOf
<1>4. /\ Ahead(E, elems[c], specs[c], m, at) /\ Behind(c, m, from)
      /\ Current(c, m, from) /\ Collected(c, m, from)
      BY <1>3 DEF Trace
<1>0. PICK from1 : from1 = [d \in 1..(n + 1) |-> IF d = n + 1 THEN <<m, p>> ELSE from[d]]
      OBVIOUS
<1>5. /\ Places(c)' = Places(c)
      /\ \A q : SawFound(c, q)' = SawFound(c, q) /\ SawMissing(c, q)' = SawMissing(c, q)
      BY <1>1, SameSights
<1>6. units[c] \in Seq(Units) /\ n \in Nat /\ Output(c) = units[c] /\ Output(c)' = units'[c]
      BY <1>1 DEF Output, Finished, IndInv, TypeOK
<1>7. /\ DOMAIN from = 1..n /\ DOMAIN Output(c)' = 1..(n + 1)
      /\ \A d \in 1..n : Output(c)'[d] = Output(c)[d]
      /\ Output(c)'[n + 1].file = Name[p]
  <2>1. Unit(Name[p], r).file = Name[p]
        BY DEF Unit
  <2>2. /\ Len(units'[c]) = n + 1 /\ DOMAIN units'[c] = 1..(n + 1)
        /\ \A d \in 1..n : units'[c][d] = units[c][d]
        /\ units'[c][n + 1] = Unit(Name[p], r)
        BY <1>1, <1>6
  <2>. QED BY <1>3, <1>6, <2>1, <2>2
<1>8. <<m, p>> \in Places(c) /\ m > 0 /\ \A q \in pending[c] : <<m, q>> \in Places(c)
      BY <1>1, <1>4 DEF Current
<1>9. /\ DOMAIN from1 = 1..(n + 1) /\ from1[n + 1] = <<m, p>>
      /\ \A d \in 1..n : from1[d] = from[d]
      /\ \A d \in 1..(n + 1) : d \in 1..n \/ d = n + 1
      BY <1>0, <1>6
<1>10. from1 \in [(DOMAIN Output(c))' -> Places(c)']
       BY <1>0, <1>3, <1>5, <1>7, <1>8
<1>11. \A d \in 1..n : /\ from[d][1] <= m /\ from[d] # <<m, p>>
                       /\ from[d][1] = m => Name[from[d][2]] <= Name[p]
       BY <1>1, <1>4, <1>7 DEF Behind, Current
<1>12. \A d \in 1..n : from[d][1] \in Nat
  <2>1. \A d \in 1..n : from[d] \in Places(c)
        BY <1>3, <1>7
  <2>. QED BY <1>1, <2>1, PlaceIsNat
<1>13. Behind(c, m, from1)'
  <2>1. ASSUME NEW d \in DOMAIN from1, NEW e \in DOMAIN from1, from1[d] = from1[e]
        PROVE  d = e
    <3>1. \A i, j \in 1..n : from[i] = from[j] => i = j
          BY <1>4, <1>7 DEF Behind
    <3>. QED BY <1>9, <1>11, <2>1, <3>1
  <2>2. ASSUME NEW d \in DOMAIN from1, NEW e \in DOMAIN from1, d < e
        PROVE  \/ from1[d][1] < from1[e][1]
               \/ from1[d][1] = from1[e][1] /\ Name[from1[d][2]] <= Name[from1[e][2]]
    <3>1. \A i, j \in 1..n : i < j =>
            \/ from[i][1] < from[j][1]
            \/ from[i][1] = from[j][1] /\ Name[from[i][2]] <= Name[from[j][2]]
          BY <1>4, <1>7 DEF Behind, InOrder
    <3>2. d \in 1..n
          BY <1>6, <1>9, <2>2
    <3>3. CASE e \in 1..n
          BY <1>9, <2>2, <3>1, <3>2, <3>3
    <3>4. CASE e = n + 1
      <4>1. from[d][1] < m \/ from[d][1] = m
            BY <1>3, <1>11, <1>12, <3>2
      <4>2. from1[e][1] = m /\ from1[e][2] = p /\ from1[d] = from[d]
            BY <1>9, <3>2, <3>4
      <4>. QED BY <1>11, <3>2, <4>1, <4>2
    <3>. QED BY <1>9, <3>3, <3>4
  <2>3. ASSUME NEW d \in DOMAIN from1
        PROVE  from1[d][1] <= m /\ Output(c)'[d].file = Name[from1[d][2]]
    <3>1. CASE d \in 1..n
          BY <1>4, <1>7, <1>9, <3>1 DEF Behind
    <3>2. CASE d = n + 1
          BY <1>3, <1>7, <1>9, <3>2
    <3>. QED BY <1>9, <3>1, <3>2
  <2>. QED BY <2>1, <2>2, <2>3 DEF Behind, InOrder
<1>14. Current(c, m, from1)'
  <2>1. ASSUME NEW q \in pending'[c], NEW d \in DOMAIN from1
        PROVE  from1[d] # <<m, q>> /\ (from1[d][1] = m => Name[from1[d][2]] <= Name[q])
    <3>1. q \in pending[c] /\ q # p /\ Name[p] <= Name[q]
          BY <1>1
    <3>2. CASE d \in 1..n
          BY <1>4, <1>7, <1>9, <3>1, <3>2 DEF Current
    <3>3. CASE d = n + 1
          BY <1>9, <3>1, <3>3
    <3>. QED BY <1>9, <3>2, <3>3
  <2>2. pc'[c] # "listing" /\ \A q \in pending'[c] : <<m, q>> \in Places(c)
        BY <1>1, <1>8
  <2>. QED BY <1>5, <1>8, <2>1, <2>2 DEF Current
<1>15. Collected(c, m, from1)'
  <2>1. ASSUME NEW x \in Places(c) PROVE Taken(c, m, from1, x)' = Taken(c, m, from, x)
    <3>1. x = <<x[1], x[2]>>
          BY PlaceType
    <3>2. (\E d \in 1..(n + 1) : from1[d] = x) <=> x = <<m, p>> \/ \E d \in 1..n : from[d] = x
      <4>1. n + 1 \in 1..(n + 1) /\ \A d \in 1..n : d \in 1..(n + 1)
            BY <1>6
      <4>. QED BY <1>9, <4>1
    <3>3. x = <<m, p>> <=> x[1] = m /\ x[2] = p
          BY <3>1
    <3>4. /\ p \in pending[c] /\ pending'[c] = pending[c] \ {p}
          /\ DOMAIN from = 1..n /\ DOMAIN from1 = 1..(n + 1)
          BY <1>1, <1>7, <1>9
    <3>5. x[2] \in pending[c] <=> x[2] \in pending'[c] \/ x[2] = p
          BY <3>4
    <3>. QED BY <3>2, <3>3, <3>4, <3>5 DEF Taken
  <2>2. pc[c] # "listing" /\ pc'[c] # "listing"
        BY <1>1
  <2>. QED BY <1>1, <1>4, <1>5, <2>1, <2>2 DEF Collected
<1>16. Ahead(arg[c].elems, elems[c], specs[c], m, at)' /\ pc'[c] # "args"
       BY <1>1, <1>4
<1>17. m \in 0..Len(arg'[c].elems) /\ at \in [DOMAIN specs'[c] -> DOMAIN arg'[c].elems]
      BY <1>1, <1>3
<1>. QED BY <1>2, <1>10, <1>13, <1>14, <1>15, <1>16, <1>17, TracedBy

LEMMA TracedNextBatch ==
  ASSUME IndInv, NEW c \in Calls, Traced(c), NextBatch(c)
  PROVE  Traced(c)'
<1>1. /\ pc[c] = "ready" /\ pc'[c] = "drained" /\ units'[c] = <<>>
      /\ delivered'[c] = delivered[c] \o Build(units[c])
      /\ UNCHANGED <<arg, elems, specs, glob, dirs, pending, seenFile, seenDir>>
      BY DEF NextBatch, Goto, IndInv, TypeOK, auxVars
<1>2. delivered'[c] = Build(units[c])
  <2>1. delivered[c] = <<>> /\ Build(units[c]) \in Seq(Blocks)
        BY <1>1, BuildType DEF IndInv, Phases, TypeOK
  <2>. QED BY <1>1, <2>1
<1>3. /\ Output(c) = units[c] /\ Output(c)' = Build(units[c]) /\ units[c] \in Seq(Units)
      BY <1>1, <1>2 DEF Output, Finished, IndInv, TypeOK
<1>4. /\ (DOMAIN Output(c))' = DOMAIN Output(c) /\ Len(Output(c))' = Len(Output(c))
      /\ \A d \in DOMAIN Output(c) : Output(c)'[d].file = Output(c)[d].file
      BY <1>3 DEF Build, Block
<1>5. Tidy(c)'
      BY <1>1 DEF Traced, Tidy
<1>6. CASE ~Scanning(c)
  <2>1. arg[c].kind = "binary"
        BY <1>1, <1>6 DEF Scanning
  <2>2. Len(Output(c)) = 1 /\ Output(c)[1].file = NoFile
        BY <1>1, <2>1 DEF Traced
  <2>3. 1 \in DOMAIN Output(c)
        BY <1>3, <2>2
  <2>4. Len(Output(c))' = 1 /\ Output(c)'[1].file = NoFile
        BY <1>4, <2>2, <2>3
  <2>. QED BY <1>1, <1>5, <2>1, <2>4 DEF Traced
<1>7. CASE Scanning(c)
  <2>1. PICK m \in 0..Len(arg[c].elems),
             at \in [DOMAIN specs[c] -> DOMAIN arg[c].elems],
             from \in [DOMAIN Output(c) -> Places(c)] : Trace(c, m, at, from)
        BY <1>7, TraceOf
  <2>2. /\ Ahead(arg[c].elems, elems[c], specs[c], m, at) /\ Behind(c, m, from)
        /\ Current(c, m, from) /\ Collected(c, m, from)
        BY <2>1 DEF Trace
  <2>3. Scanning(c)'
        BY <1>1, <1>7 DEF Scanning
  <2>4. /\ Places(c)' = Places(c)
        /\ \A q : SawFound(c, q)' = SawFound(c, q) /\ SawMissing(c, q)' = SawMissing(c, q)
        BY <1>1, SameSights
  <2>5. Behind(c, m, from)'
    <3>1. \A d \in DOMAIN from : Output(c)'[d].file = Output(c)[d].file
          BY <1>4, <2>1
    <3>. QED BY <2>2, <3>1 DEF Behind, InOrder
  <2>6. Current(c, m, from)'
        BY <1>1, <2>2, <2>4 DEF Current
  <2>7. Collected(c, m, from)'
    <3>1. \A x : Taken(c, m, from, x)' = Taken(c, m, from, x)
          BY <1>1 DEF Taken
    <3>. QED BY <1>1, <2>2, <2>4, <3>1 DEF Collected
  <2>8. Ahead(arg[c].elems, elems[c], specs[c], m, at)' /\ pc'[c] # "args"
        BY <1>1, <2>2
  <2>9. /\ m \in 0..Len(arg'[c].elems)
        /\ at \in [DOMAIN specs'[c] -> DOMAIN arg'[c].elems]
        /\ from \in [(DOMAIN Output(c))' -> Places(c)']
        BY <1>1, <1>4, <2>1, <2>4
  <2>. QED BY <1>5, <2>3, <2>5, <2>6, <2>7, <2>8, <2>9, TracedBy
<1>. QED BY <1>6, <1>7

LEMMA TracedBuildFails ==
  ASSUME IndInv, NEW c \in Calls, Traced(c), BuildFails(c)
  PROVE  Traced(c)'
<1>1. /\ pc[c] = "ready" /\ pc'[c] = "unbuilt" /\ units'[c] = <<>>
      /\ UNCHANGED <<elems, specs, pending>>
      BY DEF BuildFails, Goto, IndInv, TypeOK
<1>. QED BY <1>1 DEF Traced, Tidy

-------------------------------------------------------------------------------
(* Steps that begin or end a call. *)

\* A producer that has the whole argument before it has got nowhere yet.
LEMMA TracedFromStart ==
  ASSUME NEW c \in Calls, NEW a \in Args, arg'[c] = a, a.kind # "binary",
         pc'[c] = "args", elems'[c] = a.elems, specs'[c] = <<>>, units'[c] = <<>>,
         pending'[c] = {}
  PROVE  Traced(c)'
<1>1. Tidy(c)' /\ Scanning(c)'
      BY DEF Tidy, Scanning
<1>2. Output(c)' = <<>>
      BY DEF Output, Finished
<1>3. a.elems \in Seq(Specs \cup {NullElem}) /\ Len(a.elems) \in Nat
      BY ArgsAssumption
<1>4. Ahead(a.elems, a.elems, <<>>, 0, <<>>)
  <2>1. Len(a.elems) - Len(a.elems) = 0 /\ 1..0 = {} /\ DOMAIN <<>> = {}
        BY <1>3
  <2>2. \A i \in DOMAIN a.elems : a.elems[i] = a.elems[0 + i]
        BY <1>3
  <2>. QED BY <2>1, <2>2 DEF Ahead
<1>5. Ahead(arg[c].elems, elems[c], specs[c], 0, <<>>)'
      BY <1>4
<1>6. DOMAIN <<>> = {}
      OBVIOUS
<1>7. Behind(c, 0, <<>>)' /\ Current(c, 0, <<>>)'
      BY <1>6 DEF Behind, InOrder, Current
<1>8. Collected(c, 0, <<>>)'
  <2>1. ASSUME NEW x \in Places(c)' PROVE ~(x[1] <= 0)
    <3>1. x[1] \in DOMAIN a.elems
          BY <2>1 DEF Places
    <3>. QED BY <1>3, <3>1
  <2>. QED BY <2>1 DEF Collected
<1>9. /\ 0 \in 0..Len(arg'[c].elems)
      /\ <<>> \in [DOMAIN specs'[c] -> DOMAIN arg'[c].elems]
      /\ <<>> \in [(DOMAIN Output(c))' -> Places(c)']
      BY <1>2, <1>3
<1>. QED BY <1>1, <1>5, <1>7, <1>8, <1>9, TracedBy

\* A producer of inline bytes has its one unit.
LEMMA TracedFromBlob ==
  ASSUME NEW c \in Calls, NEW r, arg'[c].kind = "binary", pc'[c] = "ready",
         elems'[c] = <<>>, specs'[c] = <<>>, units'[c] = <<Unit(NoFile, r)>>,
         pending'[c] = {}
  PROVE  Traced(c)'
<1>1. Len(Output(c))' = 1 /\ Output(c)'[1].file = NoFile
      BY DEF Output, Finished, Unit
<1>. QED BY <1>1 DEF Traced, Tidy

LEMMA TracedBound ==
  ASSUME IndInv, NEW c \in Calls, Traced(c), Bound(c)
  PROVE  Traced(c)'
<1>1. PICK a \in Args : BindRefused(c, a) \/ BindBlob(c, a) \/ BindPaths(c, a)
      BY DEF Bound
<1>2. /\ pc[c] = "idle" /\ arg'[c] = a /\ UNCHANGED <<specs, pending, delivered>>
      BY <1>1 DEF BindRefused, BindBlob, BindPaths, Bind, IndInv, TypeOK
<1>3. elems[c] = <<>> /\ specs[c] = <<>> /\ pending[c] = {} /\ units[c] = <<>>
      BY <1>2 DEF Traced, Tidy, IndInv, Phases
<1>4. CASE BindRefused(c, a)
  <2>1. pc'[c] = "failed" /\ elems'[c] = <<>>
        BY <1>3, <1>4 DEF BindRefused, Goto, IndInv, TypeOK
  <2>. QED BY <1>2, <1>3, <2>1 DEF Traced, Tidy
<1>5. CASE BindBlob(c, a)
  <2>1. /\ pc'[c] = "ready" /\ elems'[c] = <<>> /\ a.kind = "binary"
        /\ units'[c] = <<Unit(NoFile, FromBytes(a.blob))>>
        BY <1>3, <1>5 DEF BindBlob, Goto, IndInv, TypeOK
  <2>2. specs'[c] = <<>> /\ pending'[c] = {} /\ arg'[c].kind = "binary"
        BY <1>2, <1>3, <2>1
  <2>. QED BY <2>1, <2>2, TracedFromBlob
<1>6. CASE BindPaths(c, a)
  <2>1. /\ pc'[c] = "args" /\ elems'[c] = a.elems /\ a.kind # "binary" /\ units' = units
        BY <1>6 DEF BindPaths, Goto, IndInv, TypeOK
  <2>. QED BY <1>2, <1>3, <2>1, TracedFromStart
<1>. QED BY <1>1, <1>4, <1>5, <1>6

LEMMA TracedRecreate ==
  ASSUME IndInv, NEW c \in Calls, Traced(c), Recreate(c)
  PROVE  Traced(c)'
<1>1. Produced(c) /\ UNCHANGED <<arg, specs, pending>>
      BY DEF Recreate, RecreatePaths, RecreateBlob, Restart
<1>2. elems[c] = <<>> /\ specs[c] = <<>> /\ pending[c] = {} /\ arg[c] \in Args
      BY <1>1 DEF Produced, Traced, Tidy, IndInv, Phases
<1>3. CASE RecreatePaths(c)
  <2>1. /\ pc'[c] = "args" /\ arg[c].kind # "binary"
        /\ elems'[c] = arg[c].elems /\ units'[c] = <<>>
        BY <1>3 DEF RecreatePaths, Goto, IndInv, TypeOK
  <2>. QED BY <1>1, <1>2, <2>1, TracedFromStart
<1>4. CASE RecreateBlob(c)
  <2>1. /\ pc'[c] = "ready" /\ arg'[c].kind = "binary" /\ elems'[c] = <<>>
        /\ units'[c] = <<Unit(NoFile, FromBytes(arg[c].blob))>>
        BY <1>1, <1>2, <1>4 DEF RecreateBlob, Goto, IndInv, TypeOK
  <2>. QED BY <1>1, <1>2, <2>1, TracedFromBlob
<1>. QED BY <1>3, <1>4 DEF Recreate

LEMMA TracedForget ==
  ASSUME IndInv, NEW c \in Calls, Traced(c), Forget(c)
  PROVE  Traced(c)'
<1>1. /\ pc[c] \in {"ready", "drained", "unbuilt", "done", "failed"} /\ pc'[c] = "idle"
      /\ UNCHANGED <<elems, specs, pending>>
      BY DEF Forget, Produced, Goto, IndInv, TypeOK
<1>. QED BY <1>1 DEF Traced, Tidy

-------------------------------------------------------------------------------
LEMMA TracedInit == Init => ProgressIsTraced
BY DEF Init, ProgressIsTraced, Traced, Tidy

\* A step of call c is a step outside every other call.
LEMMA ElsewhereOf ==
  ASSUME IndInv, NEW c \in Calls, NEW k \in Calls, k # c,
         Bound(c) \/ Step(c) \/ Pull(c) \/ Recreate(c) \/ Forget(c)
  PROVE  /\ pc'[k] = pc[k] /\ arg'[k] = arg[k] /\ elems'[k] = elems[k]
         /\ specs'[k] = specs[k] /\ glob'[k] = glob[k] /\ dirs'[k] = dirs[k]
         /\ pending'[k] = pending[k] /\ units'[k] = units[k]
         /\ delivered'[k] = delivered[k]
         /\ seenFile'[k] = seenFile[k] /\ seenDir'[k] = seenDir[k]
<1>. USE DEF Goto, IndInv, TypeOK
<1>1. CASE Bound(c)
      BY <1>1 DEF Bound, BindRefused, BindBlob, BindPaths, Bind
<1>2. CASE Recreate(c)
      BY <1>2 DEF Recreate, RecreatePaths, RecreateBlob, Restart
<1>3. CASE Forget(c)
      BY <1>3 DEF Forget
<1>4. CASE ElementsDone(c) \/ GlobDone(c) \/ SpecDone(c) \/ Resolved(c) \/ EndOfStream(c)
      BY <1>4 DEF ElementsDone, GlobDone, SpecDone, Resolved, EndOfStream, auxVars
<1>5. CASE TakeElement(c)
      BY <1>5 DEF TakeElement, auxVars
<1>6. CASE ExpandLiteral(c)
      BY <1>6 DEF ExpandLiteral, auxVars
<1>7. CASE ExpandGlob(c)
      BY <1>7 DEF ExpandGlob, auxVars
<1>8. CASE \E d \in Dirs : ListDirectory(c, d)
      BY <1>8 DEF ListDirectory, auxVars
<1>9. CASE ReadFile(c)
      BY <1>9 DEF ReadFile, auxVars
<1>10. CASE NextBatch(c)
      BY <1>10 DEF NextBatch, auxVars
<1>11. CASE BuildFails(c)
      BY <1>11 DEF BuildFails, auxVars
<1>. QED BY <1>1, <1>2, <1>3, <1>4, <1>5, <1>6, <1>7, <1>8, <1>9, <1>10, <1>11
         DEF Step, Pull

LEMMA TracedStep ==
  IndInv /\ ProgressIsTraced /\ [Next]_vars => ProgressIsTraced'
<1>. SUFFICES ASSUME IndInv, ProgressIsTraced, [Next]_vars, NEW k \in Calls
              PROVE  Traced(k)'
     BY DEF ProgressIsTraced
<1>1. Traced(k)
      BY DEF ProgressIsTraced
<1>2. ASSUME NEW c \in Calls,
             Bound(c) \/ Step(c) \/ Pull(c) \/ Recreate(c) \/ Forget(c)
      PROVE  Traced(k)'
  <2>1. CASE k # c
        BY <1>1, <1>2, <2>1, ElsewhereOf, TracedElsewhere
  <2>2. CASE k = c /\ (Step(c) \/ Pull(c))
        BY <1>1, <2>2, TracedTakeElement, TracedExpandLiteral, TracedExpandGlob,
           TracedListDirectory, TracedReadFile, TracedPasses, TracedNextBatch,
           TracedBuildFails
           DEF Step, Pull, Passes
  <2>. QED BY <1>1, <1>2, <2>1, <2>2, TracedBound, TracedRecreate, TracedForget
<1>3. CASE Environment
  <2>1. Observe /\ UNCHANGED callVars
        BY <1>3 DEF Environment, Write, Rename, Chmod
  <2>2. /\ \A p \in Paths : seenFile[k][p] \subseteq seenFile'[k][p]
        /\ \A d \in Dirs : seenDir[k][d] \subseteq seenDir'[k][d]
        BY <2>1 DEF Observe
  <2>. QED BY <1>1, <2>1, <2>2, TracedElsewhere DEF callVars
<1>4. CASE UNCHANGED vars
      BY <1>1, <1>4, TracedElsewhere DEF vars, callVars, auxVars
<1>. QED BY <1>2, <1>3, <1>4 DEF Next

\* Whatever a call has read and whatever it has still to do come, place by place and in
\* order, from its argument; a match it left out was missing when it looked
\* (source.rs:39-60, 147-157).
THEOREM ProgressTraced == Spec => []ProgressIsTraced
<1>1. Init => IndInv /\ ProgressIsTraced
      BY Inductive, TracedInit
<1>2. IndInv /\ ProgressIsTraced /\ [Next]_vars => (IndInv /\ ProgressIsTraced)'
      BY Inductive, TracedStep
<1>. QED BY <1>1, <1>2, PTL DEF Spec

-------------------------------------------------------------------------------
(* What the trace of a finished call says of its result. *)

LEMMA DoneTrace ==
  ASSUME IndInv, NEW c \in Calls, Traced(c), FromPaths(c)
  PROVE  \E from \in [DOMAIN delivered[c] -> Places(c)] :
           /\ \A d, e \in DOMAIN from : from[d] = from[e] => d = e
           /\ InOrder(from)
           /\ \A d \in DOMAIN from : delivered[c][d].file = Name[from[d][2]]
           /\ \A x \in Places(c) :
                IF ExpandsAsGlob(arg[c].elems[x[1]])
                THEN IF \E d \in DOMAIN from : from[d] = x THEN SawFound(c, x[2])
                     ELSE SawMissing(c, x[2])
                ELSE \E d \in DOMAIN from : from[d] = x
<1>. DEFINE E == arg[c].elems
<1>1. /\ pc[c] \in {"drained", "done"} /\ Scanning(c) /\ Output(c) = delivered[c]
      /\ elems[c] = <<>> /\ specs[c] = <<>> /\ pending[c] = {}
      BY DEF FromPaths, Finished, Scanning, Output, Traced, Tidy
<1>2. PICK m \in 0..Len(E), at \in [DOMAIN specs[c] -> DOMAIN E],
           from \in [DOMAIN Output(c) -> Places(c)] : Trace(c, m, at, from)
      BY <1>1, TraceOf
<1>3. Ahead(E, <<>>, <<>>, m, at) /\ Behind(c, m, from) /\ Collected(c, m, from)
      BY <1>1, <1>2 DEF Trace
<1>4. E \in Seq(Specs \cup {NullElem}) /\ DOMAIN at = {}
      BY <1>1, <1>2, ArgType
<1>5. \A n \in (m + 1)..Len(E) : E[n] = NullElem
  <2>1. Len(E) - Len(<<>>) = Len(E)
        BY <1>4
  <2>. QED BY <1>3, <1>4, <2>1 DEF Ahead
<1>6. ASSUME NEW x \in Places(c) PROVE x[1] <= m
  <2>1. x[1] \in DOMAIN E /\ E[x[1]] # NullElem
    <3>1. x[1] \in DOMAIN E /\ MayName(E[x[1]], x[2])
          BY PlaceType
    <3>. QED BY <3>1 DEF MayName
  <2>2. x[1] \notin (m + 1)..Len(E)
        BY <1>5, <2>1
  <2>. QED BY <1>2, <1>4, <2>1, <2>2
<1>7. ASSUME NEW x \in Places(c)
      PROVE  IF ExpandsAsGlob(E[x[1]])
             THEN IF \E d \in DOMAIN from : from[d] = x THEN SawFound(c, x[2])
                  ELSE SawMissing(c, x[2])
             ELSE \E d \in DOMAIN from : from[d] = x
  <2>1. Taken(c, m, from, x) <=> \E d \in DOMAIN from : from[d] = x
        BY <1>1 DEF Taken
  <2>. QED BY <1>1, <1>3, <1>6, <2>1 DEF Collected
<1>8. /\ \A d, e \in DOMAIN from : from[d] = from[e] => d = e
      /\ InOrder(from)
      /\ \A d \in DOMAIN from : delivered[c][d].file = Name[from[d][2]]
      BY <1>1, <1>3 DEF Behind
<1>. QED BY <1>1, <1>2, <1>7, <1>8

\* Where it is settled whether a pattern finds path q, a match that is taken in is
\* found and one that is found is taken in.
LEMMA FoundWhenStill ==
  ASSUME NEW c, NEW q, StillFound(c, q), seenDir[c][DirOf[q]] \subseteq BOOLEAN
  PROVE  /\ SawFound(c, q) => Found(c, q)
         /\ Found(c, q) => ~SawMissing(c, q)
<1>1. PICK b : seenDir[c][DirOf[q]] = {b}
      BY DEF StillFound, IsOne
<1>2. Only(seenDir[c][DirOf[q]]) = b
      BY <1>1 DEF Only
<1>3. b \in BOOLEAN
      BY <1>1
<1>. QED BY <1>1, <1>2, <1>3 DEF SawFound, SawMissing, Found, StillFound

\* What is delivered of a file that did not change is what it held.
LEMMA StillIsExact ==
  ASSUME IndInv, NEW c \in Calls, NEW d \in DOMAIN delivered[c], NEW p \in Names,
         Still(c, p), delivered[c][d].file = p
  PROVE  delivered[c][d] = BlockOf(c, p)
<1>1. PICK u \in Units : /\ TrueOf(seenFile[c], arg[c], u.file, u.result)
                         /\ delivered[c][d] = Block(u)
      BY DEF IndInv, ResultsAreObserved, CallIsObserved
<1>2. u.file = p
      BY <1>1 DEF Block
<1>3. p # NoFile
      BY PathsAssumption, NameType
<1>4. \E x \in seenFile[c][p] : u.result \in Reads(x)
      BY <1>1, <1>2, <1>3 DEF TrueOf
<1>5. PICK x : seenFile[c][p] = {x} /\ x # InFlux
      BY DEF Still, IsOne
<1>6. Held(c, p) = x
      BY <1>5 DEF Held, Only
<1>7. u.result = Read(x)
      BY <1>4, <1>5 DEF Reads
<1>8. u = Unit(p, Read(x))
      BY <1>2, <1>7 DEF Units, Unit
<1>. QED BY <1>1, <1>6, <1>8 DEF BlockOf

LEMMA NamesOfPlaces ==
  ASSUME NEW c, NEW x \in Places(c)
  PROVE  Name[x[2]] \in Names
BY PlaceType DEF Names

\* The places a finished call delivers are those its argument names, as far as the
\* files read under the name p are concerned.
LEMMA PlacesOfName ==
  ASSUME IndInv, NEW c \in Calls, NEW from,
         \A x \in Places(c) :
           IF ExpandsAsGlob(arg[c].elems[x[1]])
           THEN IF \E d \in DOMAIN from : from[d] = x THEN SawFound(c, x[2])
                ELSE SawMissing(c, x[2])
           ELSE \E d \in DOMAIN from : from[d] = x,
         NEW x \in Places(c), Steady(c, Name[x[2]])
  PROVE  x \in Named(c) <=> \E d \in DOMAIN from : from[d] = x
<1>1. CASE ~ExpandsAsGlob(arg[c].elems[x[1]])
      BY <1>1 DEF Named
<1>2. CASE ExpandsAsGlob(arg[c].elems[x[1]])
  <2>1. StillFound(c, x[2])
        BY <1>2 DEF Steady
  <2>2. seenDir[c][DirOf[x[2]]] \subseteq BOOLEAN
        BY PlaceType, DirsAssumption DEF IndInv, TypeOK
  <2>3. /\ SawFound(c, x[2]) => Found(c, x[2])
        /\ Found(c, x[2]) => ~SawMissing(c, x[2])
        BY <2>1, <2>2, FoundWhenStill
  <2>. QED BY <1>2, <2>3 DEF Named
<1>. QED BY <1>1, <1>2

LEMMA FollowsFromTrace ==
  ASSUME IndInv, ProgressIsTraced
  PROVE  ResultFollowsArgument
<1>. SUFFICES ASSUME NEW c \in Calls, FromPaths(c)
              PROVE  \E from \in Injection(DOMAIN delivered[c], Places(c)) :
                       /\ InOrder(from)
                       /\ \A d \in DOMAIN from : delivered[c][d].file = Name[from[d][2]]
                       /\ \A x \in Places(c) : ~ExpandsAsGlob(arg[c].elems[x[1]]) =>
                            \E d \in DOMAIN from : from[d] = x
     BY DEF ResultFollowsArgument
<1>1. PICK from \in [DOMAIN delivered[c] -> Places(c)] :
           /\ \A d, e \in DOMAIN from : from[d] = from[e] => d = e
           /\ InOrder(from)
           /\ \A d \in DOMAIN from : delivered[c][d].file = Name[from[d][2]]
           /\ \A x \in Places(c) :
                IF ExpandsAsGlob(arg[c].elems[x[1]])
                THEN IF \E d \in DOMAIN from : from[d] = x THEN SawFound(c, x[2])
                     ELSE SawMissing(c, x[2])
                ELSE \E d \in DOMAIN from : from[d] = x
      BY DoneTrace DEF ProgressIsTraced
<1>2. from \in Injection(DOMAIN delivered[c], Places(c))
      BY <1>1 DEF Injection, IsInjective
<1>. QED BY <1>1, <1>2

LEMMA QuietFromTrace ==
  ASSUME IndInv, ProgressIsTraced
  PROVE  QuietCallIsExact
<1>. SUFFICES ASSUME NEW c \in Calls, Finished(c), \A p \in Names : Steady(c, p)
              PROVE  IF arg[c].kind = "binary"
                     THEN delivered[c] = <<Block(Unit(NoFile, FromBytes(arg[c].blob)))>>
                     ELSE \E from \in Bijection(DOMAIN delivered[c], Named(c)) :
                            /\ InOrder(from)
                            /\ \A d \in DOMAIN from :
                                 delivered[c][d] = BlockOf(c, Name[from[d][2]])
     BY DEF QuietCallIsExact
<1>1. Traced(c) /\ delivered[c] \in Seq(Blocks)
      BY DEF ProgressIsTraced, IndInv, TypeOK
<1>2. CASE arg[c].kind = "binary"
  <2>1. Len(delivered[c]) = 1 /\ delivered[c][1].file = NoFile
        BY <1>1, <1>2 DEF Traced, Finished, Output
  <2>2. 1 \in DOMAIN delivered[c]
        BY <1>1, <2>1
  <2>3. PICK u \in Units : /\ TrueOf(seenFile[c], arg[c], u.file, u.result)
                           /\ delivered[c][1] = Block(u)
        BY <2>2 DEF IndInv, ResultsAreObserved, CallIsObserved
  <2>4. u.file = NoFile
        BY <2>1, <2>3 DEF Block
  <2>5. u.result = FromBytes(arg[c].blob)
        BY <2>3, <2>4 DEF TrueOf
  <2>6. u = Unit(NoFile, FromBytes(arg[c].blob))
        BY <2>4, <2>5 DEF Units, Unit
  <2>. QED BY <1>1, <1>2, <2>1, <2>3, <2>6
<1>3. CASE arg[c].kind # "binary"
  <2>1. PICK from \in [DOMAIN delivered[c] -> Places(c)] :
           /\ \A d, e \in DOMAIN from : from[d] = from[e] => d = e
           /\ InOrder(from)
           /\ \A d \in DOMAIN from : delivered[c][d].file = Name[from[d][2]]
           /\ \A x \in Places(c) :
                IF ExpandsAsGlob(arg[c].elems[x[1]])
                THEN IF \E d \in DOMAIN from : from[d] = x THEN SawFound(c, x[2])
                     ELSE SawMissing(c, x[2])
                ELSE \E d \in DOMAIN from : from[d] = x
        BY <1>1, <1>3, DoneTrace DEF FromPaths
  <2>2. \A x \in Places(c) : x \in Named(c) <=> \E d \in DOMAIN from : from[d] = x
        BY <2>1, NamesOfPlaces, PlacesOfName
  <2>3. Named(c) \subseteq Places(c)
        BY DEF Named
  <2>4. from \in Bijection(DOMAIN delivered[c], Named(c))
    <3>1. from \in [DOMAIN delivered[c] -> Named(c)]
          BY <2>1, <2>2
    <3>2. from \in Injection(DOMAIN delivered[c], Named(c))
          BY <2>1, <3>1 DEF Injection, IsInjective
    <3>3. from \in Surjection(DOMAIN delivered[c], Named(c))
          BY <2>1, <2>2, <2>3, <3>1 DEF Surjection
    <3>. QED BY <3>2, <3>3 DEF Bijection
  <2>5. \A d \in DOMAIN from : delivered[c][d] = BlockOf(c, Name[from[d][2]])
    <3>. SUFFICES ASSUME NEW d \in DOMAIN from
                  PROVE  delivered[c][d] = BlockOf(c, Name[from[d][2]])
         OBVIOUS
    <3>1. from[d] \in Places(c) /\ d \in DOMAIN delivered[c]
          BY <2>1
    <3>2. Name[from[d][2]] \in Names
          BY <3>1, NamesOfPlaces
    <3>3. Still(c, Name[from[d][2]])
          BY <3>2 DEF Steady
    <3>. QED BY <2>1, <3>1, <3>2, <3>3, StillIsExact
  <2>. QED BY <1>3, <2>1, <2>4, <2>5
<1>. QED BY <1>2, <1>3

LEMMA SteadyFromTrace ==
  ASSUME IndInv, ProgressIsTraced
  PROVE  SteadyFileIsExact
<1>. SUFFICES ASSUME NEW c \in Calls, FromPaths(c), NEW p \in Names, Steady(c, p)
              PROVE  LET mine == {d \in DOMAIN delivered[c] : delivered[c][d].file = p}
                     IN  /\ \A d \in mine : delivered[c][d] = BlockOf(c, p)
                         /\ Cardinality(mine)
                              = Cardinality({x \in Named(c) : Name[x[2]] = p})
     BY DEF SteadyFileIsExact
<1>. DEFINE mine   == {d \in DOMAIN delivered[c] : delivered[c][d].file = p}
            places == {x \in Named(c) : Name[x[2]] = p}
<1>1. Traced(c) /\ delivered[c] \in Seq(Blocks)
      BY DEF ProgressIsTraced, IndInv, TypeOK
<1>2. PICK from \in [DOMAIN delivered[c] -> Places(c)] :
           /\ \A d, e \in DOMAIN from : from[d] = from[e] => d = e
           /\ InOrder(from)
           /\ \A d \in DOMAIN from : delivered[c][d].file = Name[from[d][2]]
           /\ \A x \in Places(c) :
                IF ExpandsAsGlob(arg[c].elems[x[1]])
                THEN IF \E d \in DOMAIN from : from[d] = x THEN SawFound(c, x[2])
                     ELSE SawMissing(c, x[2])
                ELSE \E d \in DOMAIN from : from[d] = x
      BY <1>1, DoneTrace
<1>3. ASSUME NEW x \in Places(c), Name[x[2]] = p
      PROVE  x \in Named(c) <=> \E d \in DOMAIN from : from[d] = x
      BY <1>2, <1>3, PlacesOfName
<1>4. \A d \in mine : delivered[c][d] = BlockOf(c, p)
      BY StillIsExact DEF Steady
<1>5. [d \in mine |-> from[d]] \in Bijection(mine, places)
  <2>. DEFINE f == [d \in mine |-> from[d]]
  <2>1. \A d \in mine : /\ d \in DOMAIN from /\ from[d] \in Places(c)
                        /\ Name[from[d][2]] = p
        BY <1>2
  <2>2. \A d \in mine : from[d] \in places
        BY <1>3, <2>1
  <2>3. \A x \in places : \E d \in mine : from[d] = x
    <3>. SUFFICES ASSUME NEW x \in Named(c), Name[x[2]] = p
                  PROVE  \E d \in mine : from[d] = x
         OBVIOUS
    <3>1. x \in Places(c)
          BY DEF Named
    <3>2. PICK d \in DOMAIN from : from[d] = x
          BY <1>3, <3>1
    <3>. QED BY <1>2, <3>2
  <2>. HIDE DEF mine, places
  <2>4. f \in [mine -> places]
        BY <2>2
  <2>5. f \in Injection(mine, places)
        BY <1>2, <2>1, <2>4 DEF Injection, IsInjective
  <2>6. f \in Surjection(mine, places)
        BY <2>3, <2>4 DEF Surjection
  <2>. QED BY <2>5, <2>6 DEF Bijection
<1>6. IsFiniteSet(mine)
  <2>1. Len(delivered[c]) \in Nat /\ DOMAIN delivered[c] = 1..Len(delivered[c])
        BY <1>1
  <2>2. IsFiniteSet(DOMAIN delivered[c])
        BY <2>1, FS_Interval
  <2>. QED BY <2>2, FS_Subset
<1>. HIDE DEF mine, places
<1>7. ExistsBijection(mine, places)
      BY <1>5 DEF ExistsBijection
<1>8. Cardinality(places) = Cardinality(mine)
      BY <1>6, <1>7, FS_Bijection
<1>. QED BY <1>4, <1>8 DEF mine, places

\* Whatever other programs do to the files in the meantime, the result of a scan
\* follows its argument: every block has its own place, in order, and no literal
\* path vanishes (source.rs:39-60, 147-157).
THEOREM ResultsFollowArguments == Spec => []ResultFollowsArgument
<1>1. IndInv /\ ProgressIsTraced => ResultFollowsArgument
      BY FollowsFromTrace
<1>. QED BY <1>1, ScanInvariant, ProgressTraced, PTL

\* A scan during which nothing it looks at changes delivers exactly the reference
\* answer: every spec in order, matches sorted, one block a file, each once.
THEOREM QuietCallsAreExact == Spec => []QuietCallIsExact
<1>1. IndInv /\ ProgressIsTraced => QuietCallIsExact
      BY QuietFromTrace
<1>. QED BY <1>1, ScanInvariant, ProgressTraced, PTL

\* A file that does not change contributes exactly its own rows, as often as it is
\* named, whatever happens to every other file (source.rs:11-14).
THEOREM SteadyFilesAreExact == Spec => []SteadyFileIsExact
<1>1. IndInv /\ ProgressIsTraced => SteadyFileIsExact
      BY SteadyFromTrace
<1>. QED BY <1>1, ScanInvariant, ProgressTraced, PTL
==============================================================================
