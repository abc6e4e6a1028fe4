------------------------------- MODULE Harness -------------------------------
(***************************************************************************)
(* ci/run-integration.sh: one run of the integration suite over one        *)
(* transport, with the worker it starts, the log it polls, the test runner *)
(* it drives and the signals that may end it.                              *)
(*                                                                         *)
(* The script, the worker and the runner are processes of their own.  The  *)
(* worker and the runner are not in the repository's scripts: of the       *)
(* worker only what the script sees is modelled (the redirected log, the   *)
(* announcement, the socket, its death), of the runner the outcome of each *)
(* test and the exit status.                                               *)
(***************************************************************************)
EXTENDS Naturals, FiniteSets

CONSTANTS Tests,      \* test/sql/*.test
          Form,       \* Form[t]: how test t loads vgi: "require", "load" or "other"
          NeedsData,  \* the tests with a line require-env VGI_PPROF_DATA
          Patterns,   \* the sets of tests a TEST_PATTERN may match
          Logs,       \* what $STAGE/.worker-$kind.log may be beforehand
          MaxTries    \* seq 1 60

Transports == {"subprocess", "http", "unix"}
LogStates  == {"nodir", "absent", "old", "empty", "own"}

ASSUME FormAssumption  == Form \in [Tests -> {"require", "load", "other"}]
ASSUME InputAssumption == /\ Patterns \subseteq SUBSET Tests /\ NeedsData \subseteq Tests
                          /\ Logs \subseteq {"nodir", "absent", "old"}
ASSUME TriesAssumption == MaxTries \in Nat \ {0}

VARIABLES
  transport, \* $TRANSPORT
  url,       \* VGI_PPROF_WORKER is an http(s) URL already
  pattern,   \* the tests that $TEST_PATTERN matches
  data,      \* VGI_PPROF_DATA is set, which the script neither does nor looks at
  pc,        \* where the script stands
  status,    \* what it will exit with: green is 0, silent a set -e without a word
  known,     \* SERVER_PID is set
  tries,     \* rounds of the readiness loop so far
  location,  \* whom VGI_PPROF_WORKER names
  cache,     \* the extensions in the runner's cache
  outcome,   \* what the runner reported of each test
  server,    \* the worker the script started
  log,       \* its log: missing, a former run's, empty, or with its announcement
  sock,      \* there is a socket of its making
  signal     \* where a signal met the script

input      == <<transport, url, pattern, data>>
serverVars == <<server, log, sock>>
scriptVars == <<pc, status, known, tries, location>>
suiteVars  == <<cache, outcome>>
vars       == <<input, scriptVars, suiteVars, serverVars, signal>>

Cleanup    == {"kill", "wait", "rm"}
Extensions == {"vgi", "httpfs"}
Outcomes   == {"passed", "failed", "skipped"}

TypeOK ==
  /\ transport \in Transports /\ url \in BOOLEAN /\ pattern \in Patterns
  /\ data \in BOOLEAN
  /\ pc \in {"start", "fork", "pid", "alive", "poll", "warm", "suite", "judge",
             "ended"} \cup Cleanup
  /\ status \in {"none", "green", "red", "silent"}
  /\ known \in BOOLEAN /\ tries \in 0..MaxTries
  /\ location \in {"none", "command", "url", "own", "old"}
  /\ cache \in SUBSET Extensions /\ outcome \in [Tests -> {"none"} \cup Outcomes]
  /\ server \in {"none", "forked", "running", "bound", "up", "dying", "gone"}
  /\ log \in LogStates /\ sock \in BOOLEAN
  /\ signal \in {"none", "window", "run", "cleanup"}

Init ==
  /\ transport \in Transports /\ url \in BOOLEAN /\ pattern \in Patterns
  /\ data \in BOOLEAN /\ cache \in SUBSET Extensions
  /\ pc = "start" /\ status = "none" /\ known = FALSE /\ tries = 0
  /\ location = "none" /\ outcome = [t \in Tests |-> "none"]
  /\ server = "none" /\ log \in Logs /\ sock = FALSE /\ signal = "none"

Alive(s) == s \in {"forked", "running", "bound", "up", "dying"}

-------------------------------------------------------------------------------
\* exit: the EXIT trap runs cleanup, whatever ended the script.
Exit(s) == status' = s /\ pc' = "kill"

\* The transport decides where VGI_PPROF_WORKER comes from.
Start ==
  /\ pc = "start"
  /\ IF transport = "subprocess"
     THEN location' = "command" /\ pc' = "warm"
     ELSE IF transport = "http" /\ url
          THEN location' = "url" /\ pc' = "warm"
          ELSE pc' = "fork" /\ UNCHANGED location
  /\ UNCHANGED <<input, status, known, tries, suiteVars, serverVars, signal>>

\* [[ -x "$WORKER_BIN" ]] does not hold.
WorkerMissing ==
  /\ pc = "fork" /\ Exit("red")
  /\ UNCHANGED <<input, known, tries, location, suiteVars, serverVars, signal>>

\* "$WORKER_BIN" ... >"$log" 2>&1 & : the child is there, and has yet to open
\* its log.
Fork ==
  /\ pc = "fork" /\ pc' = "pid" /\ server' = "forked"
  /\ UNCHANGED <<input, status, known, tries, location, suiteVars, log, sock, signal>>

SavePid ==
  /\ pc = "pid" /\ pc' = "alive" /\ known' = TRUE
  /\ UNCHANGED <<input, status, tries, location, suiteVars, serverVars, signal>>

\* kill -0 $SERVER_PID
CheckAlive ==
  /\ pc = "alive"
  /\ IF Alive(server) THEN pc' = "poll" /\ UNCHANGED status ELSE Exit("red")
  /\ UNCHANGED <<input, known, tries, location, suiteVars, serverVars, signal>>

\* Faulty variants: the loop counts one round too many; it never gives up.
NextTryTooFar ==
  /\ tries' = tries + 1
  /\ IF tries < MaxTries THEN pc' = "alive" /\ UNCHANGED status ELSE Exit("red")
  /\ UNCHANGED location

NextTryForever ==
  /\ pc' = "alive" /\ UNCHANGED <<tries, status, location>>

\* sleep 0.5, and the next round if there is one.
NextTry ==
  /\ tries' = tries + 1
  /\ IF tries + 1 < MaxTries THEN pc' = "alive" /\ UNCHANGED status ELSE Exit("red")
  /\ UNCHANGED location

\* The http leg reads the first PORT line of the log, whoever wrote it.  Without
\* a log sed fails, and with it, under pipefail and set -e, the script.
PollPort ==
  /\ pc = "poll" /\ transport = "http"
  /\ CASE log \in {"nodir", "absent"} -> Exit("silent") /\ UNCHANGED <<tries, location>>
       [] log = "empty"               -> NextTry
       [] log = "old"                 -> /\ location' = "old" /\ pc' = "warm"
                                         /\ UNCHANGED <<tries, status>>
       [] log = "own"                 -> /\ location' = "own" /\ pc' = "warm"
                                         /\ UNCHANGED <<tries, status>>
  /\ UNCHANGED <<input, known, suiteVars, serverVars, signal>>

\* The unix leg wants the announcement of its path and the socket, which was
\* removed before the worker was started; here grep may fail.
PollSocket ==
  /\ pc = "poll" /\ transport = "unix"
  /\ IF log \in {"old", "own"} /\ sock
     THEN location' = "own" /\ pc' = "warm" /\ UNCHANGED <<tries, status>>
     ELSE NextTry
  /\ UNCHANGED <<input, known, suiteVars, serverVars, signal>>

\* Staging and the warm step, whose failure is only a warning.
Warm ==
  /\ pc = "warm" /\ pc' = "suite" /\ cache' \in {cache, cache \cup {"vgi"}}
  /\ UNCHANGED <<input, status, known, tries, location, outcome, serverVars, signal>>

\* Staging fails (a full disk): set -e, after the failing command's own message.
StageFails ==
  /\ pc = "warm" /\ Exit("red")
  /\ UNCHANGED <<input, known, tries, location, suiteVars, serverVars, signal>>

-------------------------------------------------------------------------------
\* preprocess-require.awk: a require line becomes INSTALL and LOAD, while a LOAD line
\* needs a warm cache; after either, the http leg gets an INSTALL and LOAD of httpfs.
Injected(t) == {x \in Extensions :
                  \/ x = "vgi"    /\ Form[t] = "require"
                  \/ x = "httpfs" /\ Form[t] \in {"require", "load"} /\ transport = "http"}

\* Each of them downloads what is not in the cache, or fails to and ends the test.
Installs(t) ==
  /\ cache' \in {cache \cup got : got \in SUBSET Injected(t)}
  /\ "httpfs" \in cache' \ cache => "vgi" \in cache'

Loads(t) == /\ "vgi" \in cache'
            /\ transport = "http" => "httpfs" \in Injected(t) \cap cache'

\* Whether an ATTACH reaches a worker now.  A command is spawned then and there (one
\* that cannot be is among the failed tests).  Of a URL that was passed in, and of the
\* port in a former run's log, the script knows nothing.
Reaches(r) == CASE location = "command"      -> r
                [] location = "own"          -> r = (server \in {"bound", "up"})
                [] location \in {"url", "old"} -> r \in BOOLEAN

\* The runner runs one test.  It skips a test whose require-env names a variable that
\* is not set.  A test that cannot load its extensions or reach its worker fails, or
\* is skipped when the message has a word of the runner's ignore list in it (HTTP, a
\* part of every message of the http leg, or "Unable to connect").  One that can
\* passes, unless the worker is wrong.
RunTest(t) ==
  /\ pc = "suite" /\ t \in pattern /\ outcome[t] = "none"
  /\ \/ /\ t \in NeedsData /\ ~data
        /\ outcome' = [outcome EXCEPT ![t] = "skipped"] /\ UNCHANGED cache
     \/ /\ t \in NeedsData => data
        /\ Installs(t)
        /\ \E r \in BOOLEAN, o \in Outcomes :
             /\ Reaches(r)
             /\ o = "passed"  => r /\ Loads(t)
             /\ o = "skipped" => transport = "http" \/ ~(r /\ Loads(t))
             /\ outcome' = [outcome EXCEPT ![t] = o]
  /\ UNCHANGED <<input, scriptVars, serverVars, signal>>

SuiteEnds ==
  /\ pc = "suite" /\ pc' = "judge"
  /\ \A t \in pattern : outcome[t] # "none"
  /\ UNCHANGED <<input, status, known, tries, location, suiteVars, serverVars, signal>>

\* The runner itself dies: a non-zero status.
RunnerDies ==
  /\ pc = "suite" /\ Exit("red")
  /\ UNCHANGED <<input, known, tries, location, suiteVars, serverVars, signal>>

\* Faulty variant: no guard against skips.
JudgeWithoutGuard ==
  /\ pc = "judge"
  /\ Exit(IF \E t \in Tests : outcome[t] = "failed" THEN "red" ELSE "green")
  /\ UNCHANGED <<input, known, tries, location, suiteVars, serverVars, signal>>

\* PIPESTATUS[0] is 0 when no test failed; the report must not speak of skips.
Judge ==
  /\ pc = "judge"
  /\ Exit(IF \E t \in Tests : outcome[t] \in {"failed", "skipped"} THEN "red"
          ELSE "green")
  /\ UNCHANGED <<input, known, tries, location, suiteVars, serverVars, signal>>

-------------------------------------------------------------------------------
\* cleanup: kill and wait, if a PID is known, then the socket.
Kill ==
  /\ pc = "kill"
  /\ IF known THEN pc' = "wait" /\ server' = IF Alive(server) THEN "dying" ELSE server
              ELSE pc' = "rm" /\ UNCHANGED server
  /\ UNCHANGED <<input, status, known, tries, location, suiteVars, log, sock, signal>>

\* Faulty variant: cleanup does not wait.
WaitNot ==
  /\ pc = "wait" /\ pc' = "rm"
  /\ UNCHANGED <<input, status, known, tries, location, suiteVars, serverVars, signal>>

Wait ==
  /\ pc = "wait" /\ server = "gone" /\ pc' = "rm"
  /\ UNCHANGED <<input, status, known, tries, location, suiteVars, serverVars, signal>>

RemoveSocket ==
  /\ pc = "rm" /\ pc' = "ended" /\ sock' = FALSE
  /\ UNCHANGED <<input, status, known, tries, location, suiteVars, server, log, signal>>

\* SIGTERM or SIGINT, once.  It ends the script at once and runs the EXIT trap,
\* or cuts the trap short when that is what it meets.
Signal ==
  /\ signal = "none" /\ pc # "ended" /\ status' = "red"
  /\ IF pc \in Cleanup THEN signal' = "cleanup" /\ pc' = "ended"
     ELSE signal' = (IF pc = "pid" THEN "window" ELSE "run") /\ pc' = "kill"
  /\ UNCHANGED <<input, known, tries, location, suiteVars, serverVars>>

-------------------------------------------------------------------------------
\* The worker: it opens its log (or cannot, and dies), binds, announces itself,
\* and dies at any moment, and when it is told to.
OpenLog ==
  /\ server = "forked"
  /\ IF log = "nodir" THEN server' = "gone" /\ UNCHANGED log
                      ELSE server' = "running" /\ log' = "empty"
  /\ UNCHANGED <<input, scriptVars, suiteVars, sock, signal>>

Bind ==
  /\ server = "running" /\ server' = "bound" /\ sock' = (transport = "unix")
  /\ UNCHANGED <<input, scriptVars, suiteVars, log, signal>>

Announce ==
  /\ server = "bound" /\ server' = "up" /\ log' = "own"
  /\ UNCHANGED <<input, scriptVars, suiteVars, sock, signal>>

Crash ==
  /\ server \in {"forked", "running", "bound", "up"} /\ server' = "gone"
  /\ UNCHANGED <<input, scriptVars, suiteVars, log, sock, signal>>

Die ==
  /\ server = "dying" /\ server' = "gone"
  /\ UNCHANGED <<input, scriptVars, suiteVars, log, sock, signal>>

-------------------------------------------------------------------------------
Script == \/ Start \/ Fork \/ SavePid \/ CheckAlive \/ PollPort \/ PollSocket
          \/ Warm \/ SuiteEnds \/ Judge \/ Kill \/ Wait \/ RemoveSocket
Runner == \E t \in Tests : RunTest(t)
Worker == OpenLog \/ Bind \/ Announce \/ Crash \/ Die
Faults == WorkerMissing \/ StageFails \/ RunnerDies \/ Signal

Next == Script \/ Runner \/ Worker \/ Faults

\* The script goes on, the runner gets through its tests, and a worker that was
\* sent SIGTERM ends.
Fairness == WF_vars(Script) /\ WF_vars(Runner) /\ WF_vars(Die)

Spec == Init /\ [][Next]_vars /\ Fairness

-------------------------------------------------------------------------------
\* A run is green only if every test the pattern names was run to the end and
\* passed: a skip is not a pass, and neither is a runner, a worker or a script
\* that died (run-integration.sh:157-187, ci/README.md:42-44).
GreenIsEarned ==
  status = "green" => \A t \in pattern : outcome[t] = "passed"

\* Unless a signal falls between the start of the worker and the assignment of
\* its PID, or into the cleanup itself, the script leaves neither its worker nor
\* its socket behind, however it ends (run-integration.sh:49-56).
NothingIsLeft ==
  pc = "ended" /\ signal \in {"none", "run"} => server \in {"none", "gone"} /\ ~sock

\* Rounds are left while the loop runs; the worker's PID is known unless a signal
\* came between; the suite is judged when it was run; the socket is removed when
\* the worker is gone.
RoundsAreLeft == /\ pc \in {"start", "fork", "pid"} => tries = 0
                 /\ pc \in {"alive", "poll"} => tries < MaxTries
PidIsKnown    == known \/ server = "none" \/ pc = "pid" \/ signal = "window"
JudgedWhenRun == pc = "judge" => \A t \in pattern : outcome[t] # "none"
WaitedFor     == pc = "rm" /\ signal \in {"none", "run"} => server \in {"none", "gone"}

RunInv == /\ TypeOK /\ RoundsAreLeft /\ PidIsKnown /\ JudgedWhenRun /\ WaitedFor
          /\ GreenIsEarned /\ NothingIsLeft

\* The announcement and the socket are the worker's own doing; the suite runs against
\* something; before it no test ran, and before the fork no worker.
LogTells      == /\ log = "own" => server \in {"up", "dying", "gone"}
                 /\ sock => server \in {"bound", "up", "dying", "gone"}
LocationTells == /\ location = "own" => server \in {"bound", "up", "dying", "gone"}
                 /\ location = "command" => transport = "subprocess"
                 /\ pc \in {"warm", "suite"} => location # "none"
NothingRanYet == /\ pc \in {"start", "fork"} => server = "none"
                 /\ pc \in {"start", "fork", "pid", "alive", "poll", "warm"} =>
                      \A t \in Tests : outcome[t] = "none"
WorkerInv == LogTells /\ LocationTells /\ NothingRanYet

\* The inductive invariant.
IndInv == RunInv /\ WorkerInv

\* Every run ends in which every test does, whatever becomes of the worker: the
\* readiness loop is bounded, and the cleanup waits only for a worker it has told to
\* end (run-integration.sh:45-103).  The script puts no limit on a test.
EveryRunEnds == <>(pc = "ended")

\* The worker advertises PORT:<n>, "which we poll for in the log before running the
\* suite (readiness gate)" (run-integration.sh:59-60): the poll comes to an end with
\* the announcement of the worker this run started, or in the script's own words.
PollIsAReadinessGate == status # "silent" /\ location # "old"
==============================================================================
