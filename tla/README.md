# A TLA+ model of vgi-pprof

`vgi-pprof` is a worker that DuckDB queries for the contents of pprof profiles.
A query calls one of six table functions with a source: a path, a glob, a list
of both, or inline bytes. The worker finds the files, decodes each one, flattens
it into rows and returns one Arrow batch. This directory models that path from
the argument to the batch, the ways a process becomes a worker, the JSON the
worker describes itself with and the script that tests it, checks the models
with TLC and proves their main properties with TLAPS.

Source paths below are relative to the repository root; `core` is
`crates/pprof-core/src/lib.rs`, the other Rust files are those of
`crates/pprof-worker/src`.

## The system

| Part | State it keeps | Operations | Talks to |
|---|---|---|---|
| Source resolution, `source.rs` | none between calls; a list of units while it runs | `resolve`, `path_specs`, `blob_bytes`, `expand` | the file system (shared with every other program), the decoder |
| Decoder and views, `core` | a decoded profile, two id indexes | `from_bytes`, `stacks`, `samples`, `functions`, `locations`, `mappings`, `meta` | called by resolution and by the tables |
| Table functions, `table/*.rs` | nothing | `on_bind` (schema), `producer`, `build` | resolution, views, column builders |
| One-shot producer, `table/mod.rs` | the units until they are taken | `next_batch` | the query engine, which pulls |
| Column builders, `arrow_build.rs` | nothing | flat and nested builders over `offsets_and_nulls` | Arrow's own checks |
| Worker, `lib.rs`, `main.rs` | a catalog; one variable of the process's environment | `build_worker`, `catalog_name` | the VGI SDK |
| Browser build, `pprof-wasm` | a second environment variable; a serve thread per stream | `wasm_init`, the SDK's macro | the same worker, on a 32-bit target and on many threads |
| Container entry, `docker-entrypoint.sh` | the arguments left | choose a mode, hand the rest on | becomes the worker's process |
| Metadata JSON, `meta.rs` | nothing | four writers, `trailing_result_columns` | any JSON parser of a client |
| Integration harness, `ci/`, `run_tests.sh` | a server process, its log, a socket, a staged tree | start, poll until ready, run, judge, clean up | the worker binary, the test runner |
| Release checks, `.github/workflows` | none | version comparison, pipelines | registries |

What is hard in it:

- **The file system moves.** A glob lists directories one after another, and the
  files it found are opened later. Anything may be written, renamed or removed
  in between, and directories may become unreadable.
- **Partial failure.** One bad file of a hundred must become one error row and
  leave the other ninety-nine as they are.
- **Once, and everything or nothing.** The engine pulls when it will, if it does;
  the producer hands over its one batch exactly once, and when the batch cannot be
  built the units are already taken, so nothing of them ever comes.
- **Malformed but decodable profiles.** Ids repeat or dangle, string indexes
  point outside the table, labels repeat a key. Each case has an answer in
  the code, and the views must still join to each other.
- **Widths.** Indexes are cast from 64 bits to the machine's, element counts
  and offsets to 32 bits.
- **Parallel vectors.** Each table pushes six to eight vectors by hand, orders
  them by hand, declares their types in another function and documents them in
  a third.
- **One environment.** Every serve thread of the browser build goes through a
  test, a set and a read of the same process-wide variable.
- **Processes.** The test script starts a worker it does not control, reads a log
  it does not write, and may be ended at any moment.
- **Escapes.** JSON is written by replacements over the whole text, one after
  another.

`PROJECT.json` lists these hazards line by line, with the property that covers
each of them or the reason none does yet.

What makes each part correct: resolution gives every file its own result, in
argument order, read during the call; the views agree with each other and
resolve nothing that is not in the profile; a batch read by column name is the
views' rows, under the documented columns; a column reads back or is refused; an
accepted call is resolved, and delivers at most once; all workers of a process are in one catalog, the one asked
for; what the JSON helpers write is read back as meant; a green test run is
earned and leaves nothing behind.

## Modules

| Module | Models | How it corresponds |
|---|---|---|
| `DecodeUnits` | `DecodeUnit`, `from_bytes` by the class of its bytes, a unit's block of rows | pure operators; a profile is an opaque payload with a number of rows |
| `Scan` | `producer`, `resolve`, `path_specs`, `expand`, `next_batch`, and the file system | one action per loop iteration or file access of a call, calls interleaved with each other and with `Write`, `Rename`, `Chmod` of other programs. The engine pulls (`NextBatch`, `BuildFails`, `EndOfStream`), drops a producer (`Forget`) or drops it and makes another (`Recreate`) whenever there is one, pulled from or not |
| `ScanAbs` | nothing of the code: the promise of a call | refused, or observes whole files one at a time; then, if asked, delivers all of it once, or nothing of it when the batch cannot be built |
| `ScanRefinement` | the mapping from `Scan` to `ScanAbs` | `units` are the observations; the stages are groups of `pc` values |
| `ScanRef` | the answer a caller expects | the reference answer, what remains of it when files change, and how far a call has come in terms of its argument |
| `PprofCore` | the message types, `str`, the id indexes, `frames_for`, `labels`, the six views | pure operators, one per function |
| `StackFlatten` | the loops of `stacks`, `frames_for` and `labels` | one action per iteration |
| `StackRef` | the stacks view as a join of the raw views | properties only |
| `Tables` | schema, documented columns, `build` and `try_new` of the six tables | one action per pushed row; a column is a builder and the field it is given; it overflows at a number of elements or of text bytes, summed up as the builders do |
| `ArrowList` | `offsets_and_nulls` and the loop of the nested builders | one action per row, two's complement arithmetic of a chosen width |
| `Startup` | `main`, `build_worker`, `catalog_name`, `wasm_init`, the serve threads, `docker-entrypoint.sh` | one action per access to the environment, all threads interleaved |
| `MetaJson` | the four writers of `meta.rs` | each a pure operator on texts of symbols; a JSON reader takes their output symbol by symbol |
| `Harness` | `ci/run-integration.sh`, `ci/preprocess-require.awk` | script, worker, runner and signal as processes; one action per command that another process can see or spoil |
| `MCScan`, `MCStacks`, `MCTables`, `MCArrowList`, `MCStartup`, `MCMetaJson`, `MCHarness` | small instances | constants for TLC |
| `CoreProof` | nothing: least elements, induction for sets of numbers, recursive functions and flattening, then the types of what the operators of `PprofCore` return | lemmas that `StackProof`, `TablesProof` and `MetaJsonProof` share |
| `ScanProof`, `StackProof`, `TablesProof`, `ArrowProof`, `StartupProof`, `MetaJsonProof`, `HarnessProof` | proofs | theorems |

How they compose: `Scan` delivers `Build(units)` of `DecodeUnits`, where a row of
a profile is just `<<profile, i>>`, or fails after the units were taken when they
do not fit (`Fits`). `Tables` shows that what the six `build`
functions produce, read by column name, is that same `Build` with row `i` of the
table's view from `PprofCore`, and which units do not fit. `Tables` takes from
`ArrowList` that a nested column either reads back or panics at a limit on its
elements, as it does where no single row has 2^32 of them. `Startup` ends
where a worker serves and `Scan` begins; `Harness` sees a worker only from
outside, as a process with a log.

Operators named as faulty variants (for instance `ReadFileUnsorted`) are used by
no specification. Each is a plausible bug, and each property is shown to fail
when its variant replaces the real definition.

### Choices of abstraction

- A path is its rank in `String` order, so `out.sort()` is the order of numbers.
  A glob is the set of paths it matches; a malformed one is the path whose name
  is its own text. A path given relatively and absolutely is two paths.
- One `fs::read` and one directory listing are single steps. A file that another
  program rewrites in place is `InFlux`: a read of it gives any bytes at all,
  so it decodes to any profile or to any failure (`Reads`), each time anew.
- `Name[p]` is the path that a match of path p is read as, the lossy string of
  `source.rs` 48. It is p itself where the path is UTF-8.
- `Fits(us)` says in `Scan` that the batch of the units `us` can be built. It is a
  parameter: what decides it, the elements and bytes of each column, is the subject
  of `Tables` and `ArrowList`. The error of `try_new` and the panics of Arrow end a
  call in the same way.
- An engine can drop a producer only once `producer()` has returned, since all of
  `resolve` runs within that call. So `Recreate` and `Forget` are possible from
  `ready` on, and there is nothing to drop while paths are expanded and read.
- The size of a text and of a number's text are parameters of `Tables`; the limit
  on elements and bytes is one number there. The texts within nested columns (map
  keys and values, the names in a frame) have byte counts of their own (`Parts`).
- `MetaJson` has a symbol for each character that an escape or a split treats
  differently, and one or two for all others. Member names and structure are
  single symbols. The reader is JSON's own grammar for arrays of strings and of
  flat objects, a part of no source file.
- Each access to an environment variable is one step: std holds a lock for it. The
  lock does not span `catalog_name`'s three accesses, and neither does the model.
  The ports and paths of the entry script are left out.
- Of the worker and the test runner, `Harness` models what the script sees. The runner
  skips a test, over any transport, whose `require-env` names a variable that is not
  set. A test that cannot load its extensions or reach its worker fails or is
  skipped: the runner's list of words to ignore has `HTTP` and `Unable to connect`
  in it, and a failed `INSTALL`, be it of the warm step or one that
  `preprocess-require.awk` has put into the test, is a download over HTTP. On the
  http leg every failure may be a skip, since every message names a URL. One
  signal may arrive. `SIGKILL`, which runs no trap, is left out.
- A decodable profile is an opaque value in `Scan` and a record in `PprofCore`.
  A number label's text is kept as the number and its unit.
- `ArrowList` models the limit 2^31 as `Half`; the elements are identified by row
  and place. A row may have any number of elements. Where a property needs that
  no row has 2^32 of them it says so (`RowsFit`).

## Runs

| Run | Instance | Question |
|---|---|---|
| `scan_one` | one call at a time, 3 paths in 2 directories, 7 path arguments, 2 changes or recreated producers, batches of up to 3 decoded files | is a quiet call exact; do changes to one file leave the others alone; does the result always follow the argument; is every result this producer's own |
| `scan_two` | two calls, 2 paths, 1 change, batches of up to 2 decoded files | do overlapping calls share nothing; is every accepted argument resolved; do they implement `ScanAbs`, with batches that are built, fail, or are never asked for; the inductive invariants of the proofs |
| `scan_inputs` | every argument kind and class of inline bytes, 3 paths of which one is not UTF-8, files rewritten in place, 1 change | is each kind of argument answered exactly; what becomes of a lossy name that is free, taken or spelled by the caller |
| `tables` | 6 tables, up to 3 units over 2 files, full and empty profile, 2 failures, inline units | is the batch the promised rows; do the schema and the documented columns match; is it lost exactly when what the units have for one column reaches the limit |
| `stacks` | up to 2 locations, 2 functions, 2 ids in a sample, 3 line tables, string indexes from below to beyond the table; up to 3 labels out of 16 | is flattening the join; are slots kept; is an index outside the table unresolved; are keys unique and does the first win |
| `stacks_wasm` | the profiles of `stacks` without labels, with a usize of 3 bits | expected to fail, see Findings |
| `arrow` | a 3-bit i32, up to 4 rows of 0 to 9 elements or NULL, with and without overflow checks | does wrapping ever shift a value, where no row's own count wraps; is the limit the same in both builds; the inductive invariant |
| `startup` | 3 serve threads, every environment of 3 texts, unset or not Unicode, 5 argument lists | are all workers in one catalog; is the environment kept and exported; does a container get its mode and arguments |
| `startup_no_argument` | the same | expected to fail, see Findings |
| `meta_json` | keywords up to 5 symbols, texts up to 3 | does a JSON reader get back what was meant, and never get stuck |
| `harness` | 3 tests, one of each spelling of a load, one that needs `VGI_PPROF_DATA`, 3 patterns, 60 rounds | is green earned; is nothing left behind; does every run end; the inductive invariant |
| `harness_poll` | the same, with a log directory that exists | expected to fail, see Findings |

Why the bounds are enough to matter. `MaxChanges` of 2 lets a rename cross a scan
twice, or two files change between listing and reading; `Contents` limits what
is written. Three paths over two directories make sorted order differ from
listing order, and put a literal after a glob that already matched it; in
`scan_inputs` they put a lossy name before a path that it sorts after. A call
slot is reused when `Forget` has run, so `scan_two` also covers a call after a
call. `Fits` is a bound on the decoded files that a glob followed by a path, with
every file there, exceeds, and a shorter argument or one that found less does not. In `stacks` two table
entries are what a repeated id takes, and the indexes -3 and 9 and id 3 exist
nowhere. A 3-bit i32 lets four rows pass the limit, wrap below zero and climb
above it again; the counts 8 and 9 of one row wrap by themselves. `Limit` of 9 in
`tables` is reached exactly by three full profiles, in some tables through elements,
texts or texts within nested columns; in others their file names pass it; three
messages of failed files reach it too; two files overflow nothing. In `startup` two threads may
be between test and set while a third serves. In `meta_json` three symbols put
a backslash before a quote and before the end, and five hold two keywords with
blanks around them. 60 is the script's own bound. A test pattern of two tests
lets one pass and the other not.

`CHECK_DEADLOCK FALSE` appears only where the modelled function, script or start
comes to its end: flattening, `build`, a column, a JSON text, a test run, and a
main thread that serves or has become another program. `Scan` never stops: a
slot can always be bound again.

**Fairness.** `Scan` assumes weak fairness of each call's `Step`, which is all of
`resolve`, and of nothing else: the worker runs it on a thread that does not wait
for any other, and the file reads return. What the engine does is not assumed: it
may call or not, pull from a producer or not (LIMIT, a cancelled query), drop it at
any time. Nor need other programs change anything. `AcceptedCallIsResolved` starts
from an accepted argument and ends where the producer is there; it holds because
every loop runs over a finite list fixed when the loop is entered. Whether a batch
is delivered is then up to the engine and to `Fits`, and no liveness is claimed.

In `Harness` the script goes on, the runner gets through its tests, and a worker
that was sent SIGTERM ends: the operating system schedules the script and its
`sleep`, and the worker does not handle that signal. That no test hangs is assumed
too, and nothing in the script sees to it: it puts no time limit on the suite.
A worker need not start, bind, announce or crash. So `EveryRunEnds` is about the
bounded loop, and about a cleanup that waits only for a worker it has told to
end. In `MetaJson` the reader reads on. `Startup` assumes no fairness and states
no liveness: nothing makes a stream arrive.

### Findings

- `stacks_wasm`. `str` promises that an out-of-range index is unresolved (`core`
  212-213), and `idx as usize` (`core` 220) keeps that promise only where usize
  has 64 bits. In the wasm32 build an index of 2^32 + n comes back as string n.
  A profile that a pprof writer produced does not contain such an index. `stacks`
  shows that the promise holds when usize is wide enough.
- `startup_no_argument`. The entry script's default is http
  (`docker-entrypoint.sh` 5), and `case "${1:-http}"` chooses it without an
  argument, but `shift || true` then ends a POSIX shell such as dash, because a
  failing special built-in does so whatever follows. The image's own `CMD` always
  passes an argument, so only an overridden command line meets it.
- `harness_poll`. The http leg polls a log that its child opens only after the
  fork (`run-integration.sh` 70-76). A missing log makes `sed`, the pipe and under
  `set -euo pipefail` the script fail without a message; a former run's log, with
  a `STAGE` used again, sends the suite to the former port. The comment calls the
  poll a readiness gate (59-60). The unix leg is not affected: it removes its
  socket first, and a failing `grep` in its condition means another round.

Observations that no property states, because each follows from the choice of a
single input:

- `*n as i32` (`arrow_build.rs` 131) keeps the low half of a row's count. A single row
  of 2^32 + k elements adds k to the offsets; nothing overflows, and Arrow does not
  mind a child array that is longer than its last offset. The column is built, and
  that row and those after it read back wrong. It takes a sample of more than four
  billion values, so no real profile has it, but with 64 bits nothing rules it out.
  The properties of `ArrowList` name it as their condition, `RowsFit`; without it
  `arrow` fails with one row of 8 elements.
- The guard against skips says that subprocess and unix have "no skip path"
  (`run-integration.sh` 163-164). All tests but one have a line `require-env
  VGI_PPROF_DATA` (`test/sql/errors.test` 10), and the runner skips these over any
  transport when it is not set. Only `run_tests.sh` 39 and the workflows set it. The
  script does not, and neither its list of required environment (21-25) nor the
  commands for a local run (`ci/README.md` 78-95) mention it, so by these a healthy
  leg ends red, with a message about its transport. `Harness` has this skip (`RunTest`),
  and `harness` shows that it never makes a run green.
- A match that is not UTF-8 is read under its lossy name, so a file that is there
  becomes an error row, or another file's rows (`source.rs` 48). `scan_inputs`
  shows that this is all that happens to it.
- A `TEST_PATTERN` that matches nothing makes a green run in which nothing ran,
  though the guard is there to "fail if NOTHING actually ran"
  (`run-integration.sh` 163). `GreenIsEarned` speaks of the tests a pattern names.
- A signal between the start of the worker and the assignment of its PID, or during
  the cleanup, leaves the worker running. `NothingIsLeft` names both windows.

## Proofs

Everything stated as a THEOREM or LEMMA is checked by TLAPS for every value of
the constants that satisfies the named assumptions of the modules.

- `ScanProof`, first part, recreated producers, lossy names and torn reads included. `IndInv` is
  `TypeOK`, `Phases`, `SeesPresent` and the property `ResultsAreObserved`. The
  property alone is not inductive: a read adds a result
  of the file as it is *now*, so the current content must be among those the call
  has seen, as must whether a directory can be listed now (`SeesPresent`), and a
  producer that was pulled from, whether its batch was built or not, and a reused slot
  must hold no old units (`Phases`). One step per action.
  Results: `TypeCorrect`, `ScanInvariant`, `OnlyObservedResults`. They carry
  the refinement: initial states map to initial states, and each action of `Scan` maps to
  the `ScanAbs` action of the same meaning or to a stutter, using `IndInv` for the
  types of units and to know that nothing was delivered before `NextBatch`, and that
  nothing is left once `build` has failed. Result: `ScanImplementsSafety`, for any
  `Fits`.
- `ScanProof`, second part: what a caller may expect, for any number of calls, paths,
  patterns and changes. None of the three promises of `ScanRef` is inductive, because they speak
  of finished calls. `ProgressIsTraced` says what they come from: there are an element
  `m` up to which the argument has been expanded, a place in the argument for every
  spec still to come (`at`), and a place for every unit pushed so far (`from`), such
  that the specs are the argument's rest (`Ahead`), the units stand in the order
  of their places, no place twice (`Behind`), the paths pending are those of `m` and come
  after all units (`Current`), and every place up to `m` is accounted for: a literal
  has been taken in, and a match has been taken in or left out because the call saw it
  missing or its directory closed (`Collected`). Each action extends one of the three
  witnesses and leaves the others, with a lemma per action; other programs' steps only
  add to what was seen (`SawGrows`). At the end `m` is the length of the argument, so
  `from` is an injection into the places (`ResultsFollowArguments`); where what
  was seen is a single thing it is onto those that are found (`QuietCallsAreExact`),
  and counted name by name it is so for each unchanged file (`SteadyFilesAreExact`).
  `ProgressTraced` states the invariant itself, which `scan_two` also checks.
- `StackProof`. Types are preserved by every resolver, which takes the lemmas of
  `CoreProof` about `Str`, `FramesFor` and `AddLabel`; `IndexById` needs a greatest
  element. Results: `StackTypes`, `LabelsFormAMap` and
  `StacksKeepEveryLocation`, whose loop invariants are parts of the properties;
  `FirstLabelsWin`, which follows the label loop with the increasing map from the
  pairs collected to the labels they come from, and takes the least label of a key
  to show that a new key is a first one; `OutsideStaysUnresolved`, under the
  assumption `IndexesFit` that a `usize` holds every index (true on 64 bits, and
  exactly what run `stacks_wasm` refutes on 32); and `StacksAreTheJoin`. For the last
  one, `Flattened` says that the rows done are those of the view and that
  `frames` and `labels` are what its recursive functions hold at the loops' counters;
  that those functions exist, and so unfold, is `RecursiveFunction` of `CoreProof`. Then
  the view is shown to be the join of `StackRef`, which knows neither loops nor indexes:
  the index and the join both take the last entry of an id (`LastIsIndexed`),
  and flattening a sequence of sequences is appending them one by one
  (`FlattenIsStack`).
- `TablesProof`. The invariant adds to the types that the vectors are sequences: rows
  are pushed whole, so all stay equally long, and each of the six column lists
  has its schema's types. Results: `VectorsKeepPace` and `SchemasAgree`, for any
  units and profiles. `Placed` adds where each row is: `cut[b]` rows come from the first b
  units, the rows of a finished unit stay where they were pushed, and the unit at hand
  has `r - 1` of them. With the lemma that the schema's name of every column is the
  field it was built from, `BatchesAreBlocks` follows: the batch is the blocks that
  `Scan` delivers. `DocsAreTrue` compares the third list of columns, the documented one.
- `ArrowProof`. `IndInv` adds to the types that offsets are exact as long as they
  pass Arrow's check and fail it from the row that leaves i32
  (`OffsetsExactOrRefused`), and that the child array ends at the next offset
  (`ChildrenFollowOffsets`), both for as long as no row's own count has wrapped
  (`RowsFit`). The heart is `AddExactOrSmaller`: a wrapped addition
  comes out exact or smaller than before, so it can never look monotonic. Results:
  `ColumnInvariant`, `PanicsOnlyAtLimit`, whose first half (a column is refused only
  past the limit) holds of rows of any size, and `ColumnsReadBack`, which is about
  rows of fewer than 2^32 elements, as it has to be (see Findings).
- `StartupProof`. `IndInv` adds to the types what each stage has established:
  once a variable was found set, or has been set, it stays (`NameIsDecided`,
  `StorageIsDecided`), so a thread that reads between another one's test and set
  still reads the value asked for; the arguments are whole until the mode is
  chosen (`ModeIsDecided`). Results: `StartsAreDecided`, `WorkersShareOneCatalog` for any number of
  threads, `EnvironmentAgrees`, `GivenStays` (an action property) and
  `ContainerIsAsAsked`.
- `MetaJsonProof`. The reader's state is a place (`At`), and each of its actions a rule
  from one place to the next (`Takes`), of which at most one fits (`TakesOneWay`). So
  if there is one course of places through all of `out`, from the first place to one
  where what was read is meant, the reader is on it whatever it does: that is the
  inductive invariant `OnCourse`. Neither property is inductive without it, since
  what may follow depends on all that is still to be read. The course is put
  together the way the helpers put their output together. For a text of any
  length, each chain of replacements writes for one more symbol what that symbol is
  written as alone (`ColumnAppend`, `TaskAppend`, `ExampleAppend`: no later
  replacement touches what an earlier one put there, `ReplaceKeeps`), and a reader
  within a string takes that for the symbol (`ColumnSpelled`, `TaskSpelled`,
  `ExampleSpelled`). Then come quotes, members, objects and the commas between parts
  (`JoinPasses`), and arrays (`ArrayPasses`). For keywords it remains that the
  terms are those of the text: `Split` cuts it at its commas (`SplitCuts`), `Trim` keeps
  a piece from its first to its last solid symbol (`TrimPiece`), the filter keeps
  the parts that have one, in their order (`NonEmptyKeeps`), and these are the
  places of `TermEnds`, which knows neither splitting nor trimming (`TermsAreMeant`).
  Results: `HelpersReadBack` and `ReaderNeverStuck`, for texts of any length.
- `HarnessProof`. `IndInv` adds to the types and to the two properties that rounds are
  left while the loop runs, that the PID is known unless a signal came between,
  that the suite is judged only when it was run, and that the socket is removed
  only when the worker is gone (`RunInv`), and what the log and the socket tell of the
  worker behind a location (`WorkerInv`). Results: `GreenRunsPassed`,
  `RunsLeaveNothing` and `ScriptKnowsItsWorker`, for every set of tests, whatever
  variables and extensions they lack, and every number of rounds.

The assumptions the proofs use are named in the modules and evaluated by TLC. Most
only give constants their types. `UnitListsAssumption` says that a unit is a
decoded profile or an error, never the mark for no error: `DecodeUnit` holds a Rust
`Result`; it bounds nothing. (`LimitAssumption` and `SizeAssumption` of `Tables`, that
texts have a number of bytes, are about the parameters of `LostExactlyAtLimit` and
used by no proof.) `TextsAssumption` says of the texts of `MetaJson` what is true of the literals
that the helpers are called with, and each helper relies on: keywords and column
documentation are one line without tabs, since `esc` of `keywords_json` and of
`result_columns_schema` leaves control characters as they are, and tasks may have
line ends but neither tabs nor carriage returns. Examples may hold anything.

Model-checked only:

- liveness (`AcceptedCallIsResolved`, the fairness part of `ImplementsScanAbs`,
  `EveryRunEnds`, `EverythingIsRead`), which is out of the prover's reach.
  `ReaderNeverStuck` proves the part of `EverythingIsRead` that is not about fairness;
- `LostExactlyAtLimit`. It takes the sums that the builders form column by column and
  compares them with what the units hold in all, both ways. The sums are recursive
  functions over rows, the other side is a cardinality. Which column of which
  table is lost by which cause is a finite matter of the schema, and the run has every
  cause: elements, texts, texts within nested columns, file names, messages.

## Not modelled

- gzip inflation and protobuf parsing (libraries): only whether they succeed. A
  gzip file of several members is read up to the end of its first one; what it
  should mean is said nowhere.
- The texts of `metadata()`, of the catalog and of its guide view: data that no
  step depends on. The columns they document are in `Tables`, and their JSON in
  `MetaJson`.
- The VGI SDK, DuckDB and the transports: only the calls the worker receives, and
  how the browser's serve threads come and go.
- A literal path that contains `[`, `*` or `?` is a pattern by its characters, as
  documented; there is no promise about such a path to compare with.
- A profile that inflates without end, or that exhausts memory.
- The release workflows: their order, their concurrency groups and their
  cancellation are carried out by the hosting service and by reusable workflows
  of another repository; what is left in this one is a comparison of two
  versions. `run_tests.sh` only builds the worker and runs a suite.
- A `tee` that fails in the harness, whose report is then cut off; `SIGKILL`.

## Plan

Done: every component of the table above with its runs; theorems for every safety
invariant and action property that a run expects to hold, except `LostExactlyAtLimit`.
What only TLC checks besides is liveness. Whoever changes the code should start at `PROJECT.json`: its map names, for
every definition, the lines it stands for.
