----------------------------- MODULE ArrowProof -----------------------------
(***************************************************************************)
(* The nested columns of arrow_build.rs for an i32 of any width and columns *)
(* of any length and any counts.  A column is refused only when its        *)
(* elements exceed an i32; as long as no single row wraps to a smaller     *)
(* count (RowsFit), always then, and a column that is built reads back as  *)
(* its rows.                                                               *)
(***************************************************************************)
EXTENDS ArrowList, SequenceTheorems, TLAPS

-------------------------------------------------------------------------------
(* Arithmetic of the wrapped total *)

LEMMA WrapInI32 == ASSUME NEW x \in Int PROVE Wrap(x) \in I32 /\ Wrap(x) \in Int
  BY HalfAssumption, SMT DEF Wrap, I32

LEMMA WrapFits == \A x \in I32 : Wrap(x) = x
  BY HalfAssumption, SMT DEF Wrap, I32

LEMMA WrapOnce == \A x \in Half..(3 * Half - 1) : Wrap(x) = x - 2 * Half
  BY HalfAssumption, SMT DEF Wrap

\* One addition to an exact total either stays exact or comes out smaller, and
\* where it would panic instead the exact total has left i32.
LEMMA AddExactOrSmaller ==
  ASSUME NEW t \in 0..(Half - 1), NEW c \in 0..(2 * Half - 1)
  PROVE  /\ t + c < Half  => Wrap(t + Wrap(c)) = t + c /\ t + Wrap(c) \in I32
         /\ t + c >= Half => Wrap(t + Wrap(c)) < t
  <1>1. CASE c < Half /\ t + c < Half
    BY <1>1, HalfAssumption, WrapFits DEF I32
  <1>2. CASE c < Half /\ t + c >= Half
    <2>1. Wrap(c) = c
      BY <1>2, HalfAssumption, WrapFits DEF I32
    <2>2. Wrap(t + c) = t + c - 2 * Half
      BY <1>2, HalfAssumption, WrapOnce
    <2> QED  BY <1>2, <2>1, <2>2, HalfAssumption
  <1>3. CASE c >= Half
    <2>1. Wrap(c) = c - 2 * Half
      BY <1>3, HalfAssumption, WrapOnce
    <2>2. Wrap(t + (c - 2 * Half)) = t + (c - 2 * Half)
      BY <1>3, HalfAssumption, WrapFits DEF I32
    <2> QED  BY <1>3, <2>1, <2>2, HalfAssumption
  <1> QED  BY <1>1, <1>2, <1>3, HalfAssumption

\* The check of a longer list of offsets is that of its prefix and of the new end.
LEMMA WellFormedAppend ==
  ASSUME NEW o \in Seq(Int), Len(o) > 0, NEW t \in Int
  PROVE  WellFormed(Append(o, t)) <=> WellFormed(o) /\ o[Len(o)] <= t
  <1> DEFINE a == Append(o, t)
  <1>1. Len(a) = Len(o) + 1 /\ a[Len(o) + 1] = t /\ \A m \in 1..Len(o) : a[m] = o[m]
    OBVIOUS
  <1>2. ASSUME WellFormed(a) PROVE WellFormed(o) /\ o[Len(o)] <= t
    <2>1. \A m \in 1..(Len(o) - 1) : o[m] <= o[m + 1]
      <3> SUFFICES ASSUME NEW m \in 1..(Len(o) - 1) PROVE o[m] <= o[m + 1]
        OBVIOUS
      <3>1. m \in 1..(Len(a) - 1) /\ m \in 1..Len(o) /\ m + 1 \in 1..Len(o)
        BY <1>1
      <3> HIDE DEF a
      <3> QED  BY <1>1, <1>2, <3>1 DEF WellFormed
    <2>2. o[1] >= 0
      <3> HIDE DEF a
      <3> QED  BY <1>1, <1>2 DEF WellFormed
    <2>3. Len(o) \in 1..(Len(a) - 1)
      BY <1>1
    <2>4. a[Len(o)] <= a[Len(o) + 1]
      <3> HIDE DEF a
      <3> QED  BY <1>2, <2>3 DEF WellFormed
    <2>5. o[Len(o)] <= t
      BY <1>1, <2>4
    <2> QED  BY <2>1, <2>2, <2>5 DEF WellFormed
  <1>3. ASSUME WellFormed(o), o[Len(o)] <= t PROVE WellFormed(a)
    <2>1. a[1] >= 0
      BY <1>1, <1>3 DEF WellFormed
    <2>2. ASSUME NEW m \in 1..(Len(a) - 1) PROVE a[m] <= a[m + 1]
      <3> HIDE DEF a
      <3>1. m \in 1..Len(o) /\ Len(o) \in Nat
        BY <1>1
      <3>2. CASE m = Len(o)
        BY <1>1, <1>3, <3>1, <3>2
      <3>3. CASE m # Len(o)
        <4>1. m \in 1..(Len(o) - 1) /\ m + 1 \in 1..Len(o)
          BY <3>1, <3>3
        <4> QED  BY <1>1, <1>3, <3>1, <4>1 DEF WellFormed
      <3> QED  BY <3>2, <3>3
    <2> HIDE DEF a
    <2> QED  BY <2>1, <2>2 DEF WellFormed
  <1> QED  BY <1>2, <1>3

-------------------------------------------------------------------------------
(* The inductive invariant *)

LEMMA InitIndInv == Init => IndInv
  <1> SUFFICES ASSUME Init PROVE IndInv
    OBVIOUS
  <1>1. counts \in Seq(Count)
    BY ColumnsAssumption DEF Init, Count
  <1>2. TypeOK
    <2>1. valid = <<>> /\ children = <<>> /\ offsets = <<0>> /\ 0 \in I32
      BY HalfAssumption DEF Init, I32
    <2> QED  BY <1>1, <2>1 DEF Init, TypeOK, Phases
  <1>3. WellFormed(offsets)
    BY DEF Init, WellFormed
  <1> QED
    BY <1>2, <1>3, HalfAssumption
    DEF Init, IndInv, OffsetsExactOrRefused, ChildrenFollowOffsets, PanicsExactlyAtLimit

LEMMA TypeStep == TypeOK /\ [Next]_vars => TypeOK'
  <1> SUFFICES ASSUME TypeOK, [Next]_vars PROVE TypeOK'
    OBVIOUS
  <1> USE DEF TypeOK, Phases
  <1>1. CASE PushNull
    BY <1>1 DEF PushNull, Row
  <1>2. CASE PushCount
    <2>1. counts[Row] \in Nat /\ Row \in 1..Len(counts)
      BY <1>2 DEF PushCount, Row, Count
    <2>2. counts[Row] \in Int /\ total \in Int
      BY <2>1, HalfAssumption DEF I32
    <2>3. total' \in I32
      <3>1. Wrap(counts[Row]) \in Int
        BY <2>2, WrapInI32
      <3>2. total + Wrap(counts[Row]) \in Int
        BY <2>2, <3>1
      <3> QED  BY <1>2, <3>2, WrapInI32 DEF PushCount
    <2>4. exact' \in Nat
      BY <1>2, <2>1, HalfAssumption DEF PushCount
    <2> QED  BY <1>2, <2>1, <2>3, <2>4 DEF PushCount, Row
  <1>3. CASE OverflowPanic
    <2>1. counts[Row] \in Nat
      BY <1>3, HalfAssumption DEF OverflowPanic, Row, Count
    <2> QED  BY <1>3, <2>1 DEF OverflowPanic
  <1>4. CASE RowsDone
    BY <1>4 DEF RowsDone
  <1>5. CASE CheckOffsets
    BY <1>5 DEF CheckOffsets
  <1>6. CASE AppendRow
    <2>1. n + 1 \in 1..Len(counts)
      BY <1>6 DEF AppendRow
    <2>2. counts[n + 1] \in Count
      BY <2>1
    <2>3. Elements(n + 1) \in Seq(Nat \X Nat)
      <3>1. CASE counts[n + 1] = Null
        BY <3>1 DEF Elements
      <3>2. CASE counts[n + 1] # Null
        <4>1. counts[n + 1] \in Nat
          BY <2>2, <3>2, HalfAssumption DEF Count
        <4>2. \A e \in 1..counts[n + 1] : <<n + 1, e>> \in Nat \X Nat
          <5>1. n + 1 \in Nat /\ \A e \in 1..counts[n + 1] : e \in Nat
            BY <2>1, <4>1
          <5> HIDE DEF TypeOK
          <5> QED  BY <5>1, ZenonT(20)
        <4>3. [e \in 1..counts[n + 1] |-> <<n + 1, e>>] \in Seq(Nat \X Nat)
          <5> DEFINE c == counts[n + 1]
                     f == [e \in 1..c |-> <<n + 1, e>>]
          <5>1. c \in Nat /\ f \in [1..c -> Nat \X Nat]
            BY <4>1, <4>2
          <5> HIDE DEF c, f
          <5>2. f \in Seq(Nat \X Nat)
            BY <5>1
          <5> QED  BY <5>2 DEF c, f
        <4> QED  BY <3>2, <4>3 DEF Elements
      <3> QED  BY <3>1, <3>2
    <2> QED  BY <1>6, <2>1, <2>3 DEF AppendRow
  <1>7. CASE Finish
    BY <1>7 DEF Finish
  <1>8. CASE UNCHANGED vars
    BY <1>8 DEF vars
  <1> QED
    BY <1>1, <1>2, <1>3, <1>4, <1>5, <1>6, <1>7, <1>8 DEF Next

\* What a step of the offsets loop that pushes t does to the checks.
LEMMA PushKeepsShape ==
  ASSUME NEW o \in Seq(I32), Len(o) > 0, NEW t \in I32
  PROVE  /\ WellFormed(Append(o, t)) <=> WellFormed(o) /\ o[Len(o)] <= t
         /\ Len(Append(o, t)) = Len(o) + 1 /\ Append(o, t)[Len(o) + 1] = t
         /\ \A m \in 1..Len(o) : Append(o, t)[m] = o[m]
  <1>1. o \in Seq(Int) /\ t \in Int
    <2>1. I32 \subseteq Int
      BY HalfAssumption DEF I32
    <2>2. Len(o) \in Nat /\ o = [m \in 1..Len(o) |-> o[m]]
      OBVIOUS
    <2>3. \A m \in 1..Len(o) : o[m] \in Int
      BY <2>1, ElementOfSeq
    <2> QED  BY <2>1, <2>2, <2>3
  <1>2. WellFormed(Append(o, t)) <=> WellFormed(o) /\ o[Len(o)] <= t
    BY <1>1, WellFormedAppend
  <1> QED  BY <1>2

\* The offsets loop, one row: d is what the row adds, b its validity bit.
LEMMA PushStep ==
  ASSUME TypeOK, OffsetsExactOrRefused, phase = "offsets",
         Row <= Len(counts), NEW b \in BOOLEAN, b = (counts[Row] # Null),
         phase' = phase, counts' = counts,
         valid' = Append(valid, b), total' \in I32,
         offsets' = Append(offsets, total'), exact' = exact + Delta(Row),
         exact < Half /\ exact' < Half => total' = total + Delta(Row),
         exact < Half /\ exact' >= Half => total' < total
  PROVE  OffsetsExactOrRefused'
  <1> USE DEF TypeOK
  <1>0. Row \in 1..Len(counts) /\ Delta(Row) \in Nat /\ Row = Len(offsets)
    BY HalfAssumption DEF Row, Count, Delta
  <1>1. /\ WellFormed(offsets') <=> WellFormed(offsets) /\ total <= total'
        /\ Len(offsets') = Len(offsets) + 1 /\ offsets'[Len(offsets) + 1] = total'
        /\ \A m \in 1..Len(offsets) : offsets'[m] = offsets[m]
    <2>1. offsets \in Seq(I32) /\ Len(offsets) > 0
      OBVIOUS
    <2>2. total = offsets[Len(offsets)] /\ total' \in I32
      BY DEF OffsetsExactOrRefused
    <2> QED  BY <2>1, <2>2, PushKeepsShape
  <1>2. total \in Int /\ total' \in Int /\ exact \in Nat /\ exact' \in Nat
    <2>1. total \in I32 /\ total' \in I32 /\ exact \in Nat
      OBVIOUS
    <2>2. exact' = exact + Delta(Row) /\ Delta(Row) \in Nat
      BY <1>0
    <2>3. total \in Int /\ total' \in Int
      <3> HIDE DEF TypeOK
      <3> QED  BY <2>1, HalfAssumption DEF I32
    <2> HIDE DEF TypeOK
    <2> QED  BY <2>1, <2>2, <2>3
  <1>3. WellFormed(offsets') <=> exact' < Half
    <2>1. /\ WellFormed(offsets) <=> exact < Half
          /\ exact < Half => total = exact
      BY DEF OffsetsExactOrRefused
    <2>2. WellFormed(offsets') <=> WellFormed(offsets) /\ total <= total'
      BY <1>1
    <2>3. exact' = exact + Delta(Row) /\ Delta(Row) \in Nat /\ Half \in Nat
      BY <1>0, HalfAssumption
    <2>4. /\ exact < Half /\ exact' < Half => total' = total + Delta(Row)
          /\ exact < Half /\ exact' >= Half => total' < total
      OBVIOUS
    <2> HIDE DEF TypeOK
    <2> QED  BY <1>2, <2>1, <2>2, <2>3, <2>4
  <1>4. WellFormed(offsets') => total' = exact'
    BY <1>0, <1>1, <1>2, <1>3, HalfAssumption DEF OffsetsExactOrRefused
  <1>5. WellFormed(offsets') =>
          \A row \in 1..Len(valid') : offsets'[row + 1] = offsets'[row] + Delta(row)
    <2> SUFFICES ASSUME WellFormed(offsets'), NEW row \in 1..Len(valid')
                 PROVE  offsets'[row + 1] = offsets'[row] + Delta(row)
      OBVIOUS
    <2>1. CASE row = Row
      <3>1. offsets'[row] = total /\ offsets'[row + 1] = total'
        BY <1>0, <1>1, <2>1 DEF OffsetsExactOrRefused
      <3> QED  BY <1>0, <1>1, <1>2, <1>3, <2>1, <3>1 DEF OffsetsExactOrRefused
    <2>2. CASE row # Row
      <3>1. row \in 1..Len(valid) /\ row \in 1..Len(offsets) /\ row + 1 \in 1..Len(offsets)
        BY <2>2 DEF Row
      <3>2. offsets'[row] = offsets[row] /\ offsets'[row + 1] = offsets[row + 1]
        BY <1>1, <3>1
      <3> QED  BY <1>1, <3>1, <3>2 DEF OffsetsExactOrRefused
    <2> QED  BY <2>1, <2>2
  <1>6. offsets'[1] = 0 /\ offsets'[Len(offsets')] = total'
    BY <1>0, <1>1 DEF OffsetsExactOrRefused
  <1>7. \A row \in 1..Len(valid') : valid'[row] = (counts[row] # Null)
    <2> SUFFICES ASSUME NEW row \in 1..Len(valid')
                 PROVE  valid'[row] = (counts[row] # Null)
      OBVIOUS
    <2>1. CASE row = Row
      BY <2>1 DEF Row
    <2>2. CASE row # Row
      <3>1. row \in 1..Len(valid) /\ valid'[row] = valid[row]
        BY <2>2 DEF Row
      <3> QED  BY <3>1 DEF OffsetsExactOrRefused
    <2> QED  BY <2>1, <2>2
  <1>8. \A row : Delta(row)' = Delta(row)
    BY DEF Delta
  <1> QED
    BY <1>3, <1>4, <1>5, <1>6, <1>7, <1>8 DEF OffsetsExactOrRefused, WellFormed

\* Which steps count a row, and which raise the exact total.
LEMMA WhoCounts ==
  ASSUME [Next]_vars
  PROVE  /\ counts' = counts /\ \A row : Delta(row)' = Delta(row)
         /\ valid' = valid \/ PushNull \/ PushCount
         /\ exact' = exact \/ PushCount \/ OverflowPanic
  <1>1. CASE PushNull \/ PushCount \/ OverflowPanic
    BY <1>1 DEF PushNull, PushCount, OverflowPanic, Delta
  <1>2. CASE RowsDone \/ CheckOffsets \/ AppendRow \/ Finish \/ UNCHANGED vars
    BY <1>2 DEF RowsDone, CheckOffsets, AppendRow, Finish, vars, Delta
  <1> QED  BY <1>1, <1>2 DEF Next

\* Rows are only ever added, so those counted before a step fit if those after it do,
\* and the row that is being added fits too.
LEMMA RowsFitBefore ==
  ASSUME TypeOK, [Next]_vars, RowsFit'
  PROVE  RowsFit /\ (PushCount => counts[Row] \in 0..(2 * Half - 1))
  <1>1. counts' = counts /\ \A row : Delta(row)' = Delta(row)
    BY WhoCounts
  <1>2. Len(valid') \in Nat /\ Len(valid) \in Nat /\ Len(valid) <= Len(valid')
    <2>1. CASE valid' = valid
      BY <2>1 DEF TypeOK
    <2>2. CASE PushNull \/ PushCount
      <3>1. PICK b \in BOOLEAN : valid' = Append(valid, b)
        BY <2>2 DEF PushNull, PushCount
      <3>2. valid \in Seq(BOOLEAN)
        BY DEF TypeOK
      <3> QED  BY <3>1, <3>2
    <2> QED  BY <2>1, <2>2, WhoCounts
  <1>3. \A row \in 1..Len(valid') : Delta(row) < 2 * Half
    BY <1>1 DEF RowsFit
  <1>4. ASSUME PushCount PROVE counts[Row] \in 0..(2 * Half - 1)
    <2>1. Row \in 1..Len(valid') /\ counts[Row] \in Nat
      BY <1>4 DEF PushCount, Row, TypeOK, Count
    <2>2. Delta(Row) = counts[Row]
      BY <1>4 DEF PushCount, Delta
    <2> QED  BY <1>3, <2>1, <2>2, HalfAssumption
  <1> QED  BY <1>2, <1>3, <1>4 DEF RowsFit

LEMMA OffsetsStep == IndInv /\ [Next]_vars /\ RowsFit' => OffsetsExactOrRefused'
  <1> SUFFICES ASSUME IndInv, [Next]_vars, RowsFit' PROVE OffsetsExactOrRefused'
    OBVIOUS
  <1>0. TypeOK /\ OffsetsExactOrRefused /\ PanicsExactlyAtLimit
    BY RowsFitBefore DEF IndInv
  <1>1. CASE PushNull
    <2>1. Delta(Row) = 0 /\ total \in Int /\ exact \in Nat
      BY <1>0, <1>1, HalfAssumption DEF PushNull, Delta, TypeOK, I32
    <2>2. total' = total /\ exact' = exact
      BY <1>1 DEF PushNull
    <2>3. total' \in I32
      BY <1>0, <2>2 DEF TypeOK
    <2>4. exact' = exact + Delta(Row) /\ total' = total + Delta(Row)
      BY <2>1, <2>2
    <2>5. valid' = Append(valid, FALSE) /\ offsets' = Append(offsets, total')
      BY <1>1, <2>2 DEF PushNull
    <2>6. FALSE = (counts[Row] # Null)
      BY <1>1 DEF PushNull
    <2>7. phase = "offsets" /\ Row <= Len(counts) /\ phase' = phase /\ counts' = counts
      BY <1>1 DEF PushNull
    <2>8. exact < Half /\ exact' >= Half => total' < total
      BY <2>1, <2>2, HalfAssumption
    <2> QED  BY <1>0, <2>3, <2>4, <2>5, <2>6, <2>7, <2>8, PushStep
  <1>2. CASE PushCount
    <2>1. /\ phase = "offsets" /\ Row <= Len(counts) /\ counts[Row] # Null
          /\ phase' = phase /\ counts' = counts
          /\ valid' = Append(valid, TRUE) /\ offsets' = Append(offsets, total')
          /\ total' = Wrap(total + Wrap(counts[Row])) /\ exact' = exact + counts[Row]
      BY <1>2 DEF PushCount
    <2>2. Row \in 1..Len(counts)
      BY <1>0, <2>1 DEF TypeOK, Row
    <2>3. counts[Row] \in 0..(2 * Half - 1) /\ Delta(Row) = counts[Row]
      BY <1>0, <1>2, <2>1, RowsFitBefore DEF Delta
    <2>4. total' \in I32
      BY <1>0, <1>2, TypeStep DEF TypeOK, Next
    <2>5. WellFormed(offsets) => total = exact
      BY <1>0, <2>1 DEF OffsetsExactOrRefused
    <2>6. exact < Half => total = exact /\ total \in 0..(Half - 1)
      BY <1>0, <2>1, <2>5, HalfAssumption DEF OffsetsExactOrRefused, TypeOK
    <2>7. /\ exact < Half /\ exact' < Half => total' = total + Delta(Row)
          /\ exact < Half /\ exact' >= Half => total' < total
      <3>1. CASE exact < Half
        <4>1. /\ total + counts[Row] < Half => Wrap(total + Wrap(counts[Row])) = total + counts[Row]
              /\ total + counts[Row] >= Half => Wrap(total + Wrap(counts[Row])) < total
          BY <2>3, <2>6, <3>1, AddExactOrSmaller
        <4> QED  BY <2>1, <2>3, <2>6, <3>1, <4>1
      <3> QED  BY <3>1
    <2> QED  BY <1>0, <2>1, <2>3, <2>4, <2>7, PushStep
  <1>3. CASE OverflowPanic
    BY <1>0, <1>3 DEF OverflowPanic, OffsetsExactOrRefused, WellFormed, Delta
  <1>4. CASE RowsDone
    BY <1>0, <1>4 DEF RowsDone, OffsetsExactOrRefused, WellFormed, Delta
  <1>5. CASE CheckOffsets
    BY <1>0, <1>5 DEF CheckOffsets, OffsetsExactOrRefused, WellFormed, Delta
  <1>6. CASE AppendRow
    BY <1>0, <1>6 DEF AppendRow, OffsetsExactOrRefused, WellFormed, Delta
  <1>7. CASE Finish
    BY <1>0, <1>7 DEF Finish, OffsetsExactOrRefused, WellFormed, Delta
  <1>8. CASE UNCHANGED vars
    BY <1>0, <1>8 DEF vars, OffsetsExactOrRefused, WellFormed, Delta
  <1> QED
    BY <1>1, <1>2, <1>3, <1>4, <1>5, <1>6, <1>7, <1>8 DEF Next

-------------------------------------------------------------------------------
(* The builder loop *)

\* Appending a row's elements leaves the earlier ones and puts e at place e.
LEMMA AppendElements ==
  ASSUME TypeOK, NEW row \in 1..Len(counts)
  PROVE  /\ Elements(row) \in Seq(Nat \X Nat) /\ Len(Elements(row)) = Delta(row)
         /\ \A e \in 1..Delta(row) : Elements(row)[e] = <<row, e>>
  <1>1. CASE counts[row] = Null
    BY <1>1 DEF Elements, Delta
  <1>2. CASE counts[row] # Null
    <2> DEFINE c == counts[row]
               f == [e \in 1..c |-> <<row, e>>]
    <2>1. c \in Nat /\ Delta(row) = c /\ Elements(row) = f
      BY <1>2, HalfAssumption DEF TypeOK, Count, Elements, Delta
    <2>2. \A e \in 1..c : <<row, e>> \in Nat \X Nat
      BY <2>1
    <2> HIDE DEF c
    <2>3. f \in Seq(Nat \X Nat) /\ Len(f) = c /\ \A e \in 1..c : f[e] = <<row, e>>
      BY <2>1, <2>2
    <2> QED  BY <2>1, <2>3
  <1> QED  BY <1>1, <1>2

LEMMA OffsetsAreInt == TypeOK => \A m \in 1..Len(offsets) : offsets[m] \in Int
  <1> SUFFICES ASSUME TypeOK, NEW m \in 1..Len(offsets) PROVE offsets[m] \in Int
    OBVIOUS
  <1>1. offsets[m] \in I32
    BY ElementOfSeq DEF TypeOK
  <1> QED  BY <1>1, HalfAssumption DEF I32

LEMMA ChildrenStep == IndInv /\ [Next]_vars /\ RowsFit' => ChildrenFollowOffsets'
  <1> SUFFICES ASSUME IndInv, [Next]_vars, RowsFit' PROVE ChildrenFollowOffsets'
    OBVIOUS
  <1>0. TypeOK /\ ChildrenFollowOffsets /\ OffsetsExactOrRefused
    BY RowsFitBefore DEF IndInv
  <1> USE DEF ChildrenFollowOffsets
  <1>1. CASE PushNull
    BY <1>0, <1>1 DEF PushNull
  <1>2. CASE PushCount
    BY <1>0, <1>2 DEF PushCount
  <1>3. CASE OverflowPanic
    BY <1>0, <1>3 DEF OverflowPanic
  <1>4. CASE RowsDone
    BY <1>0, <1>4 DEF RowsDone, TypeOK, Row
  <1>5. CASE CheckOffsets
    <2>1. CASE WellFormed(offsets)
      <3>1. n = 0 /\ children = <<>> /\ offsets[1] = 0
        BY <1>0, <1>5 DEF CheckOffsets, OffsetsExactOrRefused
      <3> QED  BY <1>0, <1>5, <2>1, <3>1 DEF CheckOffsets, WellFormed
    <2>2. CASE ~WellFormed(offsets)
      BY <1>0, <1>5, <2>2 DEF CheckOffsets
    <2> QED  BY <2>1, <2>2
  <1>6. CASE AppendRow
    <2>1. /\ phase = "children" /\ phase' = phase /\ n \in Nat /\ n < Len(counts)
          /\ n' = n + 1 /\ counts' = counts /\ offsets' = offsets /\ valid' = valid
          /\ children' = children \o Elements(n + 1)
      BY <1>0, <1>6 DEF AppendRow, TypeOK
    <2>2. /\ WellFormed(offsets) /\ Len(valid) = Len(counts)
          /\ Len(children) = offsets[n + 1] /\ n + 1 \in 1..Len(counts)
      BY <1>0, <2>1 DEF TypeOK
    <2>3. offsets[n + 2] = offsets[n + 1] + Delta(n + 1)
      BY <1>0, <2>1, <2>2 DEF OffsetsExactOrRefused
    <2>4. /\ Elements(n + 1) \in Seq(Nat \X Nat) /\ Len(Elements(n + 1)) = Delta(n + 1)
          /\ \A e \in 1..Delta(n + 1) : Elements(n + 1)[e] = <<n + 1, e>>
      BY <1>0, <2>2, AppendElements
    <2>5. Delta(n + 1) \in Nat /\ children \in Seq(Nat \X Nat)
      BY <1>0, <2>2, HalfAssumption DEF TypeOK, Delta, Count
    <2>6. /\ Len(children') = Len(children) + Delta(n + 1)
          /\ \A m \in 1..Len(children) : children'[m] = children[m]
          /\ \A e \in 1..Delta(n + 1) : children'[Len(children) + e] = <<n + 1, e>>
      <3>1. /\ Len(children') = Len(children) + Delta(n + 1)
            /\ \A m \in 1..(Len(children) + Delta(n + 1)) :
                 children'[m] = IF m <= Len(children) THEN children[m]
                                ELSE Elements(n + 1)[m - Len(children)]
        <4> DEFINE d == Elements(n + 1)
        <4>1. children' = children \o d
          BY <2>1
        <4>2. children \in Seq(Nat \X Nat) /\ d \in Seq(Nat \X Nat) /\ Len(d) = Delta(n + 1)
          BY <2>4, <2>5
        <4> HIDE DEF d
        <4>3. /\ Len(children \o d) = Len(children) + Len(d)
              /\ \A m \in 1..(Len(children) + Len(d)) :
                   (children \o d)[m] = IF m <= Len(children) THEN children[m]
                                        ELSE d[m - Len(children)]
          BY <4>2, ConcatProperties
        <4> QED  BY <4>1, <4>2, <4>3 DEF d
      <3>2. ASSUME NEW e \in 1..Delta(n + 1)
            PROVE  children'[Len(children) + e] = Elements(n + 1)[e]
        <4>1. Len(children) \in Nat
          BY <2>5
        <4>2. /\ Len(children) + e \in 1..(Len(children) + Delta(n + 1))
              /\ ~(Len(children) + e <= Len(children)) /\ (Len(children) + e) - Len(children) = e
          BY <2>5, <4>1
        <4> QED  BY <3>1, <4>2
      <3>3. ASSUME NEW m \in 1..Len(children) PROVE children'[m] = children[m]
        <4>1. m \in 1..(Len(children) + Delta(n + 1)) /\ m <= Len(children)
          BY <2>5, LenProperties
        <4> QED  BY <3>1, <4>1
      <3> QED  BY <2>4, <3>1, <3>2, <3>3
    <2>7. ASSUME NEW row \in 1..n'
          PROVE  /\ offsets[row] >= 0 /\ offsets[row + 1] <= Len(children')
                 /\ \A e \in 1..Delta(row) : children'[offsets[row] + e] = <<row, e>>
      <3>1. CASE row = n + 1
        <4>1. row + 1 = n + 2 /\ offsets[row] = Len(children) /\ Len(children) \in Nat
          BY <2>1, <2>2, <2>5, <3>1, LenProperties
        <4>2. offsets[row + 1] = Len(children) + Delta(row)
          BY <2>2, <2>3, <3>1, <4>1
        <4>3. \A e \in 1..Delta(row) : children'[offsets[row] + e] = <<row, e>>
          BY <2>6, <3>1, <4>1
        <4> QED  BY <2>6, <3>1, <4>1, <4>2, <4>3
      <3>2. CASE row # n + 1
        <4>1. row \in 1..n
          BY <2>1, <3>2
        <4>2. /\ offsets[row] >= 0 /\ offsets[row + 1] <= Len(children)
              /\ \A e \in 1..Delta(row) : children[offsets[row] + e] = <<row, e>>
          BY <1>0, <2>1, <4>1
        <4>3. row \in 1..Len(valid) /\ row \in 1..Len(offsets)
          BY <1>0, <2>1, <2>2, <4>1 DEF TypeOK
        <4>4. /\ offsets[row + 1] = offsets[row] + Delta(row) /\ offsets[row] \in Int
              /\ Delta(row) \in Nat
          <5>1. Delta(row) \in Nat
            BY <1>0, <2>2, <4>3, HalfAssumption DEF TypeOK, Delta, Count
          <5> QED  BY <1>0, <2>2, <4>3, <5>1, OffsetsAreInt DEF OffsetsExactOrRefused
        <4>5. ASSUME NEW e \in 1..Delta(row) PROVE offsets[row] + e \in 1..Len(children)
          <5> DEFINE a == offsets[row]
                     d == Delta(row)
                     l == Len(children)
          <5>1. a \in Int /\ a >= 0 /\ d \in Nat /\ l \in Nat /\ a + d <= l
            BY <2>5, <4>2, <4>4, LenProperties
          <5> HIDE DEF a, l
          <5>2. a + e \in 1..l
            BY <5>1
          <5> QED  BY <5>2 DEF a, l
        <4>6. /\ offsets[row + 1] <= Len(children')
          <5>1. Len(children) \in Nat
            BY <2>5, LenProperties
          <5>2. offsets[row + 1] \in Int
            BY <4>4
          <5> QED  BY <2>5, <2>6, <4>2, <5>1, <5>2
        <4>7. \A e \in 1..Delta(row) : children'[offsets[row] + e] = <<row, e>>
          BY <2>6, <4>2, <4>5
        <4> QED  BY <4>2, <4>6, <4>7
      <3> QED  BY <3>1, <3>2
    <2>8. \A row : Delta(row)' = Delta(row)
      BY <2>1 DEF Delta
    <2>9. WellFormed(offsets) => WellFormed(offsets')
      BY <2>1
    <2>10. Len(children') = offsets'[n' + 1]
      BY <2>1, <2>2, <2>3, <2>6
    <2> QED  BY <2>1, <2>2, <2>7, <2>8, <2>9, <2>10
  <1>7. CASE Finish
    BY <1>0, <1>7 DEF Finish, WellFormed, Delta
  <1>8. CASE UNCHANGED vars
    BY <1>0, <1>8 DEF vars, WellFormed, Delta
  <1> QED
    BY <1>1, <1>2, <1>3, <1>4, <1>5, <1>6, <1>7, <1>8 DEF Next

\* The exact total is at least what any one row adds.
LEMMA ExactGrows ==
  ASSUME IndInv, [Next]_vars, NEW row \in 1..Len(valid')
  PROVE  exact' >= Delta(row)'
  <1>0. /\ Len(valid) \in Nat /\ Len(counts) \in Nat /\ exact \in Nat
        /\ valid \in Seq(BOOLEAN)
        /\ \A r \in 1..Len(counts) : counts[r] # Null => counts[r] \in Nat
        /\ 1..Len(valid) \subseteq 1..Len(counts)
    BY DEF IndInv, TypeOK, Count
  <1>1. Delta(row)' = Delta(row)
    BY WhoCounts
  <1>2. CASE row \in 1..Len(valid)
    <2>1. exact >= Delta(row) /\ Delta(row) \in Nat
      BY <1>0, <1>2 DEF IndInv, Delta
    <2>2. exact' >= exact /\ exact' \in Nat
      <3>1. CASE PushCount \/ OverflowPanic
        <4>1. Row <= Len(counts) /\ counts[Row] # Null /\ exact' = exact + counts[Row]
          BY <3>1 DEF PushCount, OverflowPanic
        <4>2. Row \in 1..Len(counts)
          BY <1>0, <4>1 DEF Row
        <4>3. counts[Row] \in Nat
          BY <1>0, <4>1, <4>2
        <4> QED  BY <1>0, <4>1, <4>3
      <3>2. CASE exact' = exact
        BY <1>0, <3>2
      <3> QED  BY <3>1, <3>2, WhoCounts
    <2> QED  BY <1>0, <1>1, <2>1, <2>2
  <1>3. CASE row \notin 1..Len(valid)
    <2>1. PushNull \/ PushCount
      BY <1>3, WhoCounts
    <2>5. Row <= Len(counts) /\ \E b \in BOOLEAN : valid' = Append(valid, b)
      BY <2>1 DEF PushNull, PushCount
    <2>2. row = Row /\ Row \in 1..Len(counts)
      <3>1. Len(valid') = Len(valid) + 1
        BY <1>0, <2>5
      <3> QED  BY <1>0, <1>3, <2>5, <3>1 DEF Row
    <2>3. CASE PushNull
      BY <1>0, <1>1, <2>2, <2>3 DEF PushNull, Delta
    <2>4. CASE PushCount
      <3>1. counts[Row] # Null /\ exact' = exact + counts[Row]
        BY <2>4 DEF PushCount
      <3>2. Delta(row) = counts[Row] /\ counts[Row] \in Nat
        BY <1>0, <2>2, <3>1 DEF Delta
      <3> QED  BY <1>0, <1>1, <3>1, <3>2
    <2> QED  BY <2>1, <2>3, <2>4
  <1> QED  BY <1>2, <1>3

LEMMA LimitStep == IndInv /\ [Next]_vars => PanicsExactlyAtLimit'
  <1> SUFFICES ASSUME IndInv, [Next]_vars PROVE PanicsExactlyAtLimit'
    OBVIOUS
  <1>0. TypeOK /\ PanicsExactlyAtLimit
    BY DEF IndInv
  <1>5. RowsFit => ChildrenFollowOffsets /\ OffsetsExactOrRefused
    BY DEF IndInv
  <1>6. ~RowsFit => exact >= Half
    <2> SUFFICES ASSUME NEW row \in 1..Len(valid), ~(Delta(row) < 2 * Half)
                 PROVE  exact >= Half
      BY DEF RowsFit
    <2>1. exact >= Delta(row) /\ exact \in Nat /\ Delta(row) \in Nat
      BY <1>0 DEF IndInv, TypeOK, Delta, Count
    <2> QED  BY <2>1, HalfAssumption
  <1>7. RowsFit' => RowsFit
    BY <1>0, RowsFitBefore
  <1> USE DEF PanicsExactlyAtLimit
  <1>1. CASE PushNull \/ PushCount \/ RowsDone \/ AppendRow \/ UNCHANGED vars
    BY <1>0, <1>1, <1>7 DEF PushNull, PushCount, RowsDone, AppendRow, vars
  <1>2. CASE OverflowPanic
    <2>1. Row \in 1..Len(counts) /\ phase = "offsets" /\ counts[Row] # Null
      BY <1>0, <1>2 DEF OverflowPanic, TypeOK, Row
    <2>2. counts[Row] \in Nat /\ exact \in Nat /\ total \in Int
      BY <1>0, <2>1, HalfAssumption DEF TypeOK, Count, I32
    <2>3. total + Wrap(counts[Row]) \notin I32 /\ exact' = exact + counts[Row]
      BY <1>2 DEF OverflowPanic
    <2>6. CASE counts[Row] >= 2 * Half
      BY <1>2, <2>2, <2>3, <2>6, HalfAssumption DEF OverflowPanic
    <2>4. CASE exact < Half /\ counts[Row] < 2 * Half
      <3>1. total = exact /\ total \in 0..(Half - 1)
        BY <1>0, <1>5, <1>6, <2>1, <2>2, <2>4, HalfAssumption DEF OffsetsExactOrRefused
      <3>2. total + counts[Row] < Half => total + Wrap(counts[Row]) \in I32
        <4>1. counts[Row] \in 0..(2 * Half - 1)
          BY <2>2, <2>4, HalfAssumption
        <4> QED  BY <3>1, <4>1, AddExactOrSmaller
      <3> QED  BY <1>2, <2>2, <2>3, <3>1, <3>2, HalfAssumption DEF OverflowPanic
    <2>5. CASE exact >= Half
      BY <1>2, <2>2, <2>3, <2>5, HalfAssumption DEF OverflowPanic
    <2> QED  BY <2>2, <2>4, <2>5, <2>6, HalfAssumption
  <1>3. CASE CheckOffsets
    <2>1. RowsFit => (WellFormed(offsets) <=> exact < Half)
      BY <1>3, <1>5 DEF CheckOffsets, OffsetsExactOrRefused
    <2>2. exact' = exact /\ exact \in Nat
      BY <1>0, <1>3 DEF CheckOffsets, TypeOK
    <2> QED
      BY <1>3, <1>6, <1>7, <2>1, <2>2, HalfAssumption DEF CheckOffsets
  <1>4. CASE Finish
    <2>0. exact' = exact /\ phase = "children"
      BY <1>4 DEF Finish
    <2>3. CASE ~RowsFit
      BY <1>4, <1>6, <1>7, <2>0, <2>3 DEF Finish
    <2> SUFFICES ASSUME RowsFit PROVE PanicsExactlyAtLimit'
      BY <2>3
    <2>1. /\ Len(children) = offsets[n + 1] /\ n = Len(counts) /\ phase = "children"
          /\ Len(valid) = Len(counts) /\ Len(offsets) = Len(valid) + 1
      BY <1>0, <1>4, <1>5 DEF Finish, ChildrenFollowOffsets, TypeOK
    <2>2. offsets[Len(offsets)] <= Len(children)
      BY <1>0, <2>1 DEF TypeOK
    <2> QED  BY <1>0, <1>4, <2>1, <2>2 DEF Finish
  <1> QED  BY <1>1, <1>2, <1>3, <1>4 DEF Next

\* At every row of a column, whatever was counted: offsets stay in i32, and while no
\* row has 2^32 elements they are exact or refused by Arrow, and the child array ends
\* where they say (arrow_build.rs:123-136).
THEOREM ColumnInvariant == Spec => []IndInv
  <1>1. IndInv /\ [Next]_vars => IndInv'
    BY TypeStep, OffsetsStep, ChildrenStep, ExactGrows, LimitStep DEF IndInv
  <1> QED  BY InitIndInv, <1>1, PTL DEF Spec

-------------------------------------------------------------------------------
(* The theorems *)

\* Whatever the counts, a batch is lost to a panic only when a nested column of it has
\* more elements than an i32 can count, and always then when no single row has 2^32
\* of them, in debug and in release builds (arrow_build.rs:131).
THEOREM PanicsOnlyAtLimit == Spec => []PanicsExactlyAtLimit
  BY ColumnInvariant, PTL DEF IndInv

\* A nested column that is built of any number of rows, each of fewer than 2^32
\* elements, reads back as those rows: wrapping never shifts a value into another
\* row, and a NULL list stays apart from an empty one (arrow_build.rs:124-160).
THEOREM ColumnsReadBack == Spec => []NeverSilentlyWrong
  <1>1. IndInv => NeverSilentlyWrong
    <2> SUFFICES ASSUME IndInv, phase = "done", RowsFit, NEW row \in 1..Len(counts)
                 PROVE  ReadBack(row) = IF counts[row] = Null THEN Null ELSE Elements(row)
      BY DEF NeverSilentlyWrong, ReadsBack
    <2>0. TypeOK /\ ChildrenFollowOffsets /\ OffsetsExactOrRefused
      BY DEF IndInv
    <2>1. row \in 1..n /\ row \in 1..Len(valid) /\ WellFormed(offsets)
      BY <2>0 DEF ChildrenFollowOffsets
    <2>2. valid[row] = (counts[row] # Null)
      BY <2>0, <2>1 DEF OffsetsExactOrRefused
    <2>3. CASE counts[row] = Null
      BY <2>2, <2>3 DEF ReadBack
    <2>4. CASE counts[row] # Null
      <3> DEFINE lo == offsets[row]
                 hi == offsets[row + 1]
      <3>1. /\ hi = lo + Delta(row) /\ lo >= 0 /\ hi <= Len(children)
            /\ \A e \in 1..Delta(row) : children[lo + e] = <<row, e>>
        BY <2>0, <2>1 DEF OffsetsExactOrRefused, ChildrenFollowOffsets
      <3>2. lo \in Nat /\ hi \in Nat /\ Delta(row) \in Nat /\ Delta(row) = counts[row]
        <4>1. Delta(row) \in Nat /\ Delta(row) = counts[row]
          BY <2>0, <2>4, HalfAssumption DEF TypeOK, Delta, Count
        <4>2. row \in 1..Len(offsets)
          BY <2>0, <2>1 DEF TypeOK
        <4> QED  BY <2>0, <3>1, <4>1, <4>2, OffsetsAreInt
      <3> HIDE DEF lo, hi
      <3>3. SubSeq(children, lo + 1, hi)
              = [e \in 1..Delta(row) |-> children[lo + e]]
        <4> DEFINE w == SubSeq(children, lo + 1, hi)
                   d == Delta(row)
        <4>1. \A i \in (lo + 1)..hi : children[i] \in Nat \X Nat
          BY <2>0, <3>1, <3>2, ElementOfSeq DEF TypeOK
        <4>2. /\ w \in Seq(Nat \X Nat)
              /\ Len(w) = IF lo + 1 <= hi THEN hi - (lo + 1) + 1 ELSE 0
              /\ \A i \in 1..(hi - (lo + 1) + 1) : w[i] = children[(lo + 1) + i - 1]
          BY <3>2, <4>1, SubSeqProperties
        <4> HIDE DEF w
        <4>3. Len(w) = d /\ \A e \in 1..d : w[e] = children[lo + e]
          <5>1. lo \in Nat /\ d \in Nat /\ hi = lo + d
            BY <3>1, <3>2
          <5> HIDE DEF d
          <5>2. hi - (lo + 1) + 1 = d /\ \A e \in 1..d : (lo + 1) + e - 1 = lo + e
            BY <5>1
          <5>3. Len(w) = d
            BY <4>2, <5>1
          <5>4. \A e \in 1..d : w[e] = children[lo + e]
            BY <4>2, <5>2
          <5> QED  BY <5>3, <5>4
        <4>4. w = [e \in 1..Len(w) |-> w[e]]
          BY <4>2
        <4> QED  BY <4>3, <4>4 DEF w
      <3>4. [e \in 1..Delta(row) |-> children[lo + e]] = Elements(row)
        BY <2>4, <3>1, <3>2 DEF Elements
      <3> QED  BY <2>2, <2>4, <3>3, <3>4 DEF ReadBack, lo, hi
    <2> QED  BY <2>3, <2>4
  <1> QED  BY ColumnInvariant, <1>1, PTL
=============================================================================
