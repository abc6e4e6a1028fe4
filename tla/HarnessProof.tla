----------------------------- MODULE HarnessProof -----------------------------
(***************************************************************************)
(* Theorems about Harness, for every set of tests and patterns and every   *)
(* length of the readiness loop.                                           *)
(***************************************************************************)
EXTENDS Harness, TLAPS

LEMMA RunInit == Init => RunInv
<1>. SUFFICES ASSUME Init PROVE RunInv
     OBVIOUS
<1>1. TypeOK
  <2>1. log \in LogStates
        BY InputAssumption DEF Init, LogStates
  <2>2. tries \in 0..MaxTries
        BY TriesAssumption DEF Init
  <2>3. outcome \in [Tests -> {"none"} \cup Outcomes]
        BY DEF Init
  <2>. QED BY <2>1, <2>2, <2>3 DEF Init, TypeOK
<1>2. RoundsAreLeft
      BY TriesAssumption DEF Init, RoundsAreLeft
<1>3. PidIsKnown /\ JudgedWhenRun /\ WaitedFor /\ GreenIsEarned /\ NothingIsLeft
      BY DEF Init, PidIsKnown, JudgedWhenRun, WaitedFor, GreenIsEarned, NothingIsLeft
<1>. QED BY <1>1, <1>2, <1>3 DEF RunInv

\* One round of the readiness loop, entered with rounds left.
LEMMA NextTryKeeps ==
  ASSUME TypeOK, tries < MaxTries, NextTry
  PROVE  /\ tries' \in 0..MaxTries /\ location' = location
         /\ \/ pc' = "alive" /\ status' = status /\ tries' < MaxTries
            \/ pc' = "kill" /\ status' = "red"
BY TriesAssumption DEF TypeOK, NextTry, Exit

\* A poll that ends the loop moves the script and may set the location.
LEMMA PollEndsTyped ==
  ASSUME TypeOK, UNCHANGED <<input, known, tries, suiteVars, serverVars, signal>>,
         pc' \in {"kill", "warm"}, status' \in {status, "silent"},
         location' \in {location, "old", "own"}
  PROVE  TypeOK'
BY DEF TypeOK, input, suiteVars, serverVars, Cleanup

LEMMA RemoveSocketTyped == TypeOK /\ RemoveSocket => TypeOK'
<1>. SUFFICES ASSUME TypeOK, RemoveSocket PROVE TypeOK'
     OBVIOUS
<1>1. (server \in {"none", "forked", "running", "bound", "up", "dying", "gone"})'
      BY DEF TypeOK, RemoveSocket
<1>2. (log \in LogStates /\ sock \in BOOLEAN)'
      BY DEF TypeOK, RemoveSocket
<1>3. (cache \in SUBSET Extensions /\ outcome \in [Tests -> {"none"} \cup Outcomes])'
      BY DEF TypeOK, RemoveSocket, suiteVars
<1>4. (known \in BOOLEAN /\ tries \in 0..MaxTries)'
      BY DEF TypeOK, RemoveSocket
<1>. QED BY <1>1, <1>2, <1>3, <1>4 DEF TypeOK, RemoveSocket, input

LEMMA ScriptKeeps == RunInv /\ Script => RunInv'
<1>. SUFFICES ASSUME RunInv, Script PROVE RunInv'
     OBVIOUS
<1>. USE DEF RunInv, TypeOK, Cleanup, LogStates, RoundsAreLeft, PidIsKnown, JudgedWhenRun,
     WaitedFor, GreenIsEarned, NothingIsLeft, Exit, Alive, input, scriptVars,
     suiteVars, serverVars
<1>1. CASE Start
      BY <1>1, TriesAssumption DEF Start
<1>2. CASE Fork
      BY <1>2, TriesAssumption DEF Fork
<1>3. CASE SavePid
      BY <1>3, TriesAssumption DEF SavePid
<1>4. CASE CheckAlive
      BY <1>4, TriesAssumption DEF CheckAlive
<1>5. CASE PollPort
  <2>1. CASE log \in {"nodir", "absent"}
    <3>1. /\ pc = "poll" /\ pc' = "kill" /\ status' = "silent"
          /\ UNCHANGED <<input, known, tries, location, suiteVars, serverVars, signal>>
          BY <1>5, <2>1 DEF PollPort
    <3>2. TypeOK'
          BY <3>1, PollEndsTyped
    <3>. QED BY <3>1, <3>2
  <2>2. CASE log = "empty"
        BY <1>5, <2>2, NextTryKeeps, TriesAssumption DEF PollPort
  <2>3. CASE log \in {"old", "own"}
    <3>1. /\ pc = "poll" /\ pc' = "warm" /\ location' \in {"old", "own"}
          /\ UNCHANGED <<input, status, known, tries, suiteVars, serverVars, signal>>
          BY <1>5, <2>3 DEF PollPort
    <3>2. TypeOK'
          BY <3>1, PollEndsTyped
    <3>. QED BY <3>1, <3>2
  <2>. QED BY <2>1, <2>2, <2>3
<1>6. CASE PollSocket
      BY <1>6, NextTryKeeps, TriesAssumption DEF PollSocket
<1>7. CASE Warm
  <2>1. cache' \in SUBSET Extensions
        BY <1>7 DEF Warm, Extensions
  <2>. QED BY <1>7, <2>1, TriesAssumption DEF Warm
<1>8. CASE SuiteEnds
      BY <1>8, TriesAssumption DEF SuiteEnds
<1>9. CASE Judge
  <2>1. CASE \E t \in Tests : outcome[t] \in {"failed", "skipped"}
        BY <1>9, <2>1 DEF Judge
  <2>2. CASE ~\E t \in Tests : outcome[t] \in {"failed", "skipped"}
    <3>1. \A t \in pattern : outcome[t] = "passed"
      <4>1. ASSUME NEW t \in pattern PROVE outcome[t] = "passed"
        <5>1. t \in Tests /\ outcome[t] # "none"
              BY <1>9, InputAssumption DEF Judge
        <5>2. outcome[t] \in {"none"} \cup Outcomes /\ outcome[t] \notin {"failed", "skipped"}
              BY <2>2, <5>1
        <5>. QED BY <5>1, <5>2 DEF Outcomes
      <4>. QED BY <4>1
    <3>. QED BY <1>9, <2>2, <3>1 DEF Judge
  <2>. QED BY <2>1, <2>2
<1>10. CASE Kill
      BY <1>10, TriesAssumption DEF Kill
<1>11. CASE Wait
      BY <1>11, TriesAssumption DEF Wait
<1>12. CASE RemoveSocket
  <2>1. NothingIsLeft'
        BY <1>12 DEF RemoveSocket
  <2>2. TypeOK'
        BY <1>12, RemoveSocketTyped
  <2>. QED BY <1>12, <2>1, <2>2 DEF RemoveSocket
<1>. QED BY <1>1, <1>2, <1>3, <1>4, <1>5, <1>6, <1>7, <1>8, <1>9, <1>10, <1>11, <1>12 DEF Script

LEMMA WorkerKeeps == RunInv /\ Worker => RunInv'
<1>. SUFFICES ASSUME RunInv, Worker PROVE RunInv'
     OBVIOUS
<1>. USE DEF RunInv, TypeOK, Cleanup, LogStates, RoundsAreLeft, PidIsKnown, JudgedWhenRun,
     WaitedFor, GreenIsEarned, NothingIsLeft, Exit, Alive, input, scriptVars,
     suiteVars, serverVars
<1>1. CASE OpenLog
      BY <1>1, TriesAssumption DEF OpenLog
<1>2. CASE Bind
      BY <1>2, TriesAssumption DEF Bind
<1>3. CASE Announce
      BY <1>3, TriesAssumption DEF Announce
<1>4. CASE Crash
      BY <1>4, TriesAssumption DEF Crash
<1>5. CASE Die
      BY <1>5, TriesAssumption DEF Die
<1>. QED BY <1>1, <1>2, <1>3, <1>4, <1>5 DEF Worker

LEMMA FaultsKeep == RunInv /\ Faults => RunInv'
<1>. SUFFICES ASSUME RunInv, Faults PROVE RunInv'
     OBVIOUS
<1>. USE DEF RunInv, TypeOK, Cleanup, LogStates, RoundsAreLeft, PidIsKnown, JudgedWhenRun,
     WaitedFor, GreenIsEarned, NothingIsLeft, Exit, Alive, input, scriptVars,
     suiteVars, serverVars
<1>1. CASE StageFails
      BY <1>1, TriesAssumption DEF StageFails
<1>2. CASE RunnerDies
      BY <1>2, TriesAssumption DEF RunnerDies
<1>3. CASE Signal
      BY <1>3, TriesAssumption DEF Signal
<1>4. CASE WorkerMissing
      BY <1>4, TriesAssumption DEF WorkerMissing
<1>. QED BY <1>1, <1>2, <1>3, <1>4 DEF Faults

LEMMA RunnerKeeps == RunInv /\ Runner => RunInv'
<1>. SUFFICES ASSUME RunInv, NEW t \in Tests, RunTest(t) PROVE RunInv'
     BY DEF Runner
<1>1. /\ UNCHANGED <<input, scriptVars, serverVars, signal>>
      /\ pc = "suite" /\ outcome[t] = "none" /\ t \in pattern
      BY DEF RunTest
<1>2. PICK o \in Outcomes : outcome' = [outcome EXCEPT ![t] = o]
  <2>1. "skipped" \in Outcomes
        BY DEF Outcomes
  <2>. QED BY <2>1 DEF RunTest
<1>3. cache' \in SUBSET Extensions
      BY DEF RunTest, Installs, Injected, RunInv, TypeOK
<1>. HIDE DEF Outcomes
<1>. QED BY <1>1, <1>2, <1>3 DEF RunInv, TypeOK, RoundsAreLeft, PidIsKnown, JudgedWhenRun,
            WaitedFor, GreenIsEarned, NothingIsLeft, input, scriptVars, serverVars

LEMMA RunStep == RunInv /\ [Next]_vars => RunInv'
<1>1. RunInv /\ UNCHANGED vars => RunInv'
      BY DEF RunInv, TypeOK, RoundsAreLeft, PidIsKnown, JudgedWhenRun, WaitedFor,
         GreenIsEarned, NothingIsLeft, vars, input, scriptVars, suiteVars, serverVars
<1>. QED BY <1>1, ScriptKeeps, WorkerKeeps, FaultsKeep, RunnerKeeps DEF Next

\* A run of the suite is green only if every test its pattern names was run and
\* passed, whatever crashes, is skipped or is signalled on the way.
THEOREM GreenRunsPassed == Spec => []GreenIsEarned
<1>1. RunInv => GreenIsEarned
      BY DEF RunInv
<1>. QED BY <1>1, RunInit, RunStep, PTL DEF Spec

\* However a run ends, its worker and its socket are gone, but for the two windows
\* in which a signal can cut between a start and its record or into the cleanup.
THEOREM RunsLeaveNothing == Spec => []NothingIsLeft
<1>1. RunInv => NothingIsLeft
      BY DEF RunInv
<1>. QED BY <1>1, RunInit, RunStep, PTL DEF Spec

-------------------------------------------------------------------------------
LEMMA WorkerInit == Init => WorkerInv
BY InputAssumption DEF Init, WorkerInv, LogTells, LocationTells, NothingRanYet

LEMMA WorkerStep == TypeOK /\ WorkerInv /\ [Next]_vars => WorkerInv'
<1>. SUFFICES ASSUME TypeOK, WorkerInv, [Next]_vars PROVE WorkerInv'
     OBVIOUS
<1>. USE DEF WorkerInv, LogTells, LocationTells, NothingRanYet,
     Cleanup, LogStates, Exit, input, scriptVars, suiteVars, serverVars
<1>1. CASE Start
      BY <1>1 DEF Start
<1>2. CASE Fork
      BY <1>2 DEF Fork, TypeOK
<1>3. CASE SavePid
      BY <1>3 DEF SavePid
<1>4. CASE CheckAlive
      BY <1>4 DEF CheckAlive
<1>5. CASE PollPort
      BY <1>5 DEF PollPort, NextTry, TypeOK
<1>6. CASE PollSocket
      BY <1>6 DEF PollSocket, NextTry
<1>7. CASE Warm \/ StageFails \/ SuiteEnds \/ Judge \/ Kill \/ Wait \/ RemoveSocket
      BY <1>7 DEF Warm, StageFails, SuiteEnds, Judge, Kill, Wait, RemoveSocket, Alive
<1>8. CASE Worker
      BY <1>8 DEF Worker, OpenLog, Bind, Announce, Crash, Die
<1>9. CASE WorkerMissing \/ RunnerDies \/ Signal
      BY <1>9 DEF WorkerMissing, RunnerDies, Signal
<1>10. CASE Runner
      BY <1>10 DEF Runner, RunTest
<1>11. CASE UNCHANGED vars
      BY <1>11 DEF vars
<1>. QED BY <1>1, <1>2, <1>3, <1>4, <1>5, <1>6, <1>7, <1>8, <1>9, <1>10, <1>11
         DEF Next, Script, Faults

\* What the script knows of its worker is true at every moment of a run: its PID unless
\* a signal came between, the end it waited for, and what the log and the socket it
\* polls tell of the worker behind them (run-integration.sh:45-103).
THEOREM ScriptKnowsItsWorker == Spec => []IndInv
<1>1. RunInv => TypeOK
      BY DEF RunInv
<1>2. RunInv /\ WorkerInv => IndInv
      BY DEF IndInv
<1>. QED BY <1>1, <1>2, RunInit, RunStep, WorkerInit, WorkerStep, PTL DEF Spec
===============================================================================
