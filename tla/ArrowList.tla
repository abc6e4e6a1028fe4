------------------------------ MODULE ArrowList ------------------------------
(***************************************************************************)
(* One nested column of a batch (arrow_build.rs): offsets_and_nulls runs   *)
(* over the element counts of the rows, OffsetBuffer::new checks what it   *)
(* built, and the builder appends the elements of every row that is not    *)
(* NULL.  The offsets are i32: `n as i32` keeps the low bits of a count,   *)
(* and the running total wraps in a release build and panics in a debug    *)
(* build.  A panic loses the whole batch, not one row.                     *)
(*                                                                         *)
(* Half stands for 2^31: an i32 is a number of -Half .. Half-1.  The       *)
(* elements of row n are the pairs <<n, 1>>, <<n, 2>>, ...                 *)
(***************************************************************************)
EXTENDS Integers, Sequences

CONSTANTS Half,           \* i32 holds -Half .. Half - 1
          Columns,        \* the columns that may be built: counts per row
          Null            \* a None row: the data column of an error row

ASSUME HalfAssumption    == Half \in Nat \ {0}
ASSUME NullAssumption    == Null \notin Nat
ASSUME ColumnsAssumption == Columns \subseteq Seq(Nat \cup {Null})

VARIABLES
  debug,    \* the build checks for overflow; the release build wraps
  counts,   \* the column's rows, by element count
  phase,    \* "offsets", "check", "children", "done", "panicked"
  total,    \* the i32 running total
  offsets,  \* the offsets pushed so far
  valid,    \* the validity bits pushed so far
  children, \* the child array so far
  n,        \* rows whose elements are appended
  exact     \* auxiliary: the total as a mathematical number

vars == <<debug, counts, phase, total, offsets, valid, children, n, exact>>

Phases == {"offsets", "check", "children", "done", "panicked"}
I32    == (-Half)..(Half - 1)
Count  == Nat \cup {Null}   \* Option<usize>: memory holds no more than usize counts

TypeOK ==
  /\ debug \in BOOLEAN
  /\ counts \in Seq(Count)
  /\ phase \in Phases
  /\ total \in I32 /\ offsets \in Seq(I32) /\ valid \in Seq(BOOLEAN)
  /\ Len(offsets) = Len(valid) + 1 /\ Len(valid) <= Len(counts)
  /\ children \in Seq(Nat \X Nat)
  /\ n \in 0..Len(counts) /\ exact \in Nat

\* Two's complement: `n as i32`, and what a wrapped addition leaves.
Wrap(x) == ((x + Half) % (2 * Half)) - Half

Init ==
  /\ debug \in BOOLEAN
  /\ counts \in Columns
  /\ phase = "offsets" /\ total = 0 /\ offsets = <<0>> /\ valid = <<>>
  /\ children = <<>> /\ n = 0 /\ exact = 0

\* The next row, counted from 1.
Row == Len(valid) + 1

\* Faulty variant: None becomes an empty list.
PushNullAsEmpty ==
  /\ phase = "offsets" /\ Row <= Len(counts) /\ counts[Row] = Null
  /\ valid' = Append(valid, TRUE) /\ offsets' = Append(offsets, total)
  /\ UNCHANGED <<debug, counts, phase, total, children, n, exact>>

\* Vec<Option<Vec<_>>>: a None row repeats the offset.
PushNull ==
  /\ phase = "offsets" /\ Row <= Len(counts) /\ counts[Row] = Null
  /\ valid' = Append(valid, FALSE) /\ offsets' = Append(offsets, total)
  /\ UNCHANGED <<debug, counts, phase, total, children, n, exact>>

\* Faulty variants: a saturating sum; the offset is pushed before the sum.
PushCountSaturates ==
  /\ phase = "offsets" /\ Row <= Len(counts) /\ counts[Row] # Null
  /\ total' = IF total + counts[Row] < Half THEN total + counts[Row] ELSE Half - 1
  /\ valid' = Append(valid, TRUE) /\ offsets' = Append(offsets, total')
  /\ exact' = exact + counts[Row]
  /\ UNCHANGED <<debug, counts, phase, children, n>>

PushCountLate ==
  /\ phase = "offsets" /\ Row <= Len(counts) /\ counts[Row] # Null
  /\ debug => total + Wrap(counts[Row]) \in I32
  /\ total' = Wrap(total + Wrap(counts[Row]))
  /\ valid' = Append(valid, TRUE) /\ offsets' = Append(offsets, total)
  /\ exact' = exact + counts[Row]
  /\ UNCHANGED <<debug, counts, phase, children, n>>

\* total += n as i32, in a build or at a value where the sum does not panic.
PushCount ==
  /\ phase = "offsets" /\ Row <= Len(counts) /\ counts[Row] # Null
  /\ debug => total + Wrap(counts[Row]) \in I32
  /\ total' = Wrap(total + Wrap(counts[Row]))
  /\ valid' = Append(valid, TRUE) /\ offsets' = Append(offsets, total')
  /\ exact' = exact + counts[Row]
  /\ UNCHANGED <<debug, counts, phase, children, n>>

OverflowPanic ==
  /\ phase = "offsets" /\ Row <= Len(counts) /\ counts[Row] # Null
  /\ debug /\ total + Wrap(counts[Row]) \notin I32
  /\ phase' = "panicked" /\ exact' = exact + counts[Row]
  /\ UNCHANGED <<debug, counts, total, offsets, valid, children, n>>

RowsDone ==
  /\ phase = "offsets" /\ Row > Len(counts) /\ phase' = "check"
  /\ UNCHANGED <<debug, counts, total, offsets, valid, children, n, exact>>

\* OffsetBuffer::new: offsets start at or above 0 and never decrease.
WellFormed(o) == /\ o[1] >= 0
                 /\ \A m \in 1..(Len(o) - 1) : o[m] <= o[m + 1]

CheckOffsets ==
  /\ phase = "check"
  /\ phase' = IF WellFormed(offsets) THEN "children" ELSE "panicked"
  /\ UNCHANGED <<debug, counts, total, offsets, valid, children, n, exact>>

\* The builder loop, rows.iter().flatten(): a NULL row contributes nothing.
Elements(row) == IF counts[row] = Null THEN <<>>
                 ELSE [e \in 1..counts[row] |-> <<row, e>>]

AppendRow ==
  /\ phase = "children" /\ n < Len(counts)
  /\ children' = children \o Elements(n + 1) /\ n' = n + 1
  /\ UNCHANGED <<debug, counts, phase, total, offsets, valid, exact>>

\* ListArray::new: the last offset may not lie beyond the child array.
Finish ==
  /\ phase = "children" /\ n = Len(counts)
  /\ phase' = IF offsets[Len(offsets)] <= Len(children) THEN "done" ELSE "panicked"
  /\ UNCHANGED <<debug, counts, total, offsets, valid, children, n, exact>>

Next == \/ PushNull \/ PushCount \/ OverflowPanic \/ RowsDone
        \/ CheckOffsets \/ AppendRow \/ Finish

Spec == Init /\ [][Next]_vars /\ WF_vars(Next)

-------------------------------------------------------------------------------
\* What a reader of the finished array finds in a row.
ReadBack(row) ==
  IF ~valid[row] THEN Null
  ELSE SubSeq(children, offsets[row] + 1, offsets[row + 1])

ReadsBack ==
  \A row \in 1..Len(counts) :
    ReadBack(row) = IF counts[row] = Null THEN Null ELSE Elements(row)

\* The elements row adds; no row counted so far has as many as 2^32 of them, so that
\* `n as i32` tells every count from every other.
Delta(row) == IF counts[row] = Null THEN 0 ELSE counts[row]
RowsFit    == \A row \in 1..Len(valid) : Delta(row) < 2 * Half

\* A column that is built of rows of fewer than 2^32 elements reads back as the rows
\* it was built from, NULL lists apart from empty ones: an offset that does not fit
\* i32 never shifts a value into another row (arrow_build.rs:124-160).  Of a row of
\* 2^32 + k elements `n as i32` is k, and a column is built with the first k of them.
NeverSilentlyWrong == phase = "done" /\ RowsFit => ReadsBack

\* The batch is lost only when the column has more elements than an i32 can count,
\* and always then when no single row has 2^32 of them, in debug and in release
\* builds alike (arrow_build.rs:131).
PanicsExactlyAtLimit ==
  /\ phase = "panicked" => exact >= Half
  /\ phase \in {"children", "done"} /\ RowsFit => exact < Half

\* As long as the offsets would pass the check they are the exact ones, and they
\* stop passing it with the row that takes the exact total out of i32.
OffsetsExactOrRefused ==
  /\ phase # "panicked" => (WellFormed(offsets) <=> exact < Half)
  /\ phase # "panicked" /\ WellFormed(offsets) => total = exact
  /\ WellFormed(offsets) =>
       \A row \in 1..Len(valid) : offsets[row + 1] = offsets[row] + Delta(row)
  /\ offsets[1] = 0 /\ offsets[Len(offsets)] = total
  /\ \A row \in 1..Len(valid) : valid[row] = (counts[row] # Null)

\* The child array ends where the next row's offsets begin, and the rows already
\* appended lie where their offsets say.
ChildrenFollowOffsets ==
  /\ phase \in {"check", "children", "done"} => Len(valid) = Len(counts)
  /\ phase = "done" => n = Len(counts)
  /\ phase \in {"children", "done"} =>
       /\ WellFormed(offsets)
       /\ Len(children) = offsets[n + 1]
       /\ \A row \in 1..n :
            /\ offsets[row] >= 0 /\ offsets[row + 1] <= Len(children)
            /\ \A e \in 1..Delta(row) : children[offsets[row] + e] = <<row, e>>
  /\ phase \in {"offsets", "check"} => n = 0 /\ children = <<>>

\* The inductive invariant: offsets_and_nulls and the builder loop that follows
\* it, together (arrow_build.rs:124-160).  The exact total counts every row so far.
IndInv == /\ TypeOK /\ PanicsExactlyAtLimit
          /\ \A row \in 1..Len(valid) : exact >= Delta(row)
          /\ RowsFit => OffsetsExactOrRefused /\ ChildrenFollowOffsets
=============================================================================
