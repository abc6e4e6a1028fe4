----------------------------- MODULE CoreProof -----------------------------
(***************************************************************************)
(* What the proofs about the pprof-core operators rest on: numbers and     *)
(* recursive functions first, induction being stated with a set instead of *)
(* a predicate, then the types of what the resolvers of PprofCore return.  *)
(***************************************************************************)
EXTENDS PprofCore, SequencesExt, SequenceTheorems, WellFoundedInduction, TLAPS

LEMMA LessOnNat == OpToRel(<, Nat) = {ss \in Nat \X Nat : ss[1] < ss[2]}
BY Zenon DEF OpToRel

LEMMA LeastElement ==
  ASSUME NEW T \in SUBSET Nat, T # {}
  PROVE  \E x \in T : \A y \in T : x <= y
<1> DEFINE R == {ss \in Nat \X Nat : ss[1] < ss[2]}
<1>1. IsWellFoundedOn(R, Nat)
      BY NatLessThanWellFounded, LessOnNat
<1>. HIDE DEF R
<1>2. PICK x \in T : \A y \in T : ~(<<y, x>> \in R)
      BY <1>1, WFMin
<1>3. ASSUME NEW y \in T PROVE x <= y
  <2>1. ~(y < x)
    <3>1. <<y, x>> \in Nat \X Nat /\ <<y, x>>[1] = y /\ <<y, x>>[2] = x
          OBVIOUS
    <3>. QED BY <1>2, <3>1, Zenon DEF R
  <2>. QED BY <2>1
<1>. QED BY <1>3

LEMMA GreatestElement ==
  ASSUME NEW N \in Nat, NEW T \in SUBSET (0..N), T # {}
  PROVE  \E x \in T : \A y \in T : y <= x
<1> DEFINE D == {N - y : y \in T}
<1>1. D \in SUBSET Nat /\ D # {}
  <2>1. \A y \in T : N - y \in Nat
        OBVIOUS
  <2>. QED BY <2>1
<1>2. PICK d \in D : \A e \in D : d <= e
      BY <1>1, LeastElement
<1>3. PICK x \in T : d = N - x
      OBVIOUS
<1>4. \A y \in T : N - x <= N - y
      BY <1>2, <1>3
<1>. QED BY <1>4

LEMMA SetInduction ==
  ASSUME NEW S, 0 \in S, \A n \in Nat : n \in S => n + 1 \in S
  PROVE  Nat \subseteq S
<1> DEFINE T == Nat \ S
<1>1. SUFFICES ASSUME T # {} PROVE FALSE
      OBVIOUS
<1>2. PICK x \in T : \A y \in T : x <= y
      BY <1>1, LeastElement
<1>3. x # 0 /\ x - 1 \in Nat
      OBVIOUS
<1>4. x - 1 \in S
      BY <1>2, <1>3
<1>. QED BY <1>3, <1>4

\* A function on 0..N is given by its value at 0 and a step.
Unfolds(g, N, b, step) == g[0] = b /\ \A n \in 1..N : g[n] = step[n][g[n - 1]]

LEMMA RecursiveFunction ==
  ASSUME NEW V, NEW b \in V, NEW N \in Nat, NEW step \in [1..N -> [V -> V]]
  PROVE  \E g \in [0..N -> V] : Unfolds(g, N, b, step)
<1> DEFINE Good(g, m) == g[0] = b /\ \A n \in 1..m : g[n] = step[n][g[n - 1]]
           S == {m \in Nat : m <= N => \E g \in [0..m -> V] : Good(g, m)}
<1>1. 0 \in S
  <2>1. PICK g \in [0..0 -> V] : g[0] = b
    <3>1. [x \in 0..0 |-> b] \in [0..0 -> V] /\ [x \in 0..0 |-> b][0] = b
          OBVIOUS
    <3>. QED BY <3>1
  <2>2. Good(g, 0)
        BY <2>1
  <2>. QED BY <2>2
<1>2. ASSUME NEW m \in Nat, m \in S PROVE m + 1 \in S
  <2>1. CASE ~(m + 1 <= N)
        BY <2>1
  <2>2. CASE m + 1 <= N
    <3>1. PICK g \in [0..m -> V] : Good(g, m)
          BY <1>2, <2>2
    <3>2. /\ m + 1 \in 1..N /\ g[m] \in V /\ step[m + 1] \in [V -> V]
          /\ step[m + 1][g[m]] \in V
          BY <2>2
    <3>3. PICK h : h = [x \in 0..(m + 1) |-> IF x \in 0..m THEN g[x] ELSE step[m + 1][g[m]]]
          OBVIOUS
    <3>4. /\ h \in [0..(m + 1) -> V]
          /\ \A x \in 0..m : h[x] = g[x]
          /\ h[m + 1] = step[m + 1][g[m]]
          BY <3>2, <3>3
    <3>5. ASSUME NEW n \in 1..(m + 1) PROVE h[n] = step[n][h[n - 1]]
      <4>1. CASE n = m + 1
            BY <3>4, <4>1
      <4>2. CASE n # m + 1
        <5>1. n \in 1..m /\ n \in 0..m /\ n - 1 \in 0..m
              BY <4>2
        <5>2. h[n] = g[n] /\ h[n - 1] = g[n - 1] /\ g[n] = step[n][g[n - 1]]
              BY <3>1, <3>4, <5>1
        <5>. QED BY <5>2
      <4>. QED BY <4>1, <4>2
    <3>6. Good(h, m + 1)
          BY <3>1, <3>4, <3>5
    <3>. QED BY <3>4, <3>6
  <2>. QED BY <2>1, <2>2
<1>. HIDE DEF S
<1>3. N \in S
      BY <1>1, <1>2, SetInduction
<1>. QED BY <1>3 DEF S, Unfolds

\* The function FlattenSeq chooses.
IsFlat(f, parts) ==
  f = [n \in 1..Len(parts) |-> IF n = 1 THEN parts[n] ELSE f[n-1] \o parts[n]]

Flat(parts) == CHOOSE f : IsFlat(f, parts)

\* out[n] is the first n parts, one after another.
Flattens(out, parts) ==
  /\ out[0] = <<>>
  /\ \A n \in 1..Len(parts) : out[n] = out[n-1] \o parts[n]

\* FlattenSeq appends the parts one after another.
LEMMA FlattenUnfolds ==
  ASSUME NEW S, NEW parts \in Seq(Seq(S)), NEW out, Flattens(out, parts)
  PROVE  FlattenSeq(parts) = out[Len(parts)]
<1>1. PICK N \in Nat : N = Len(parts)
      OBVIOUS
<1>2. \A n \in 1..N : parts[n] \in Seq(S)
      BY <1>1
<1>3. /\ out[0] = <<>>
      /\ \A n \in 1..N : out[n] = out[n-1] \o parts[n]
      BY <1>1 DEF Flattens
<1>6. CASE N = 0
  <2>1. Len(parts) = 0
        BY <1>1, <1>6
  <2>2. parts = <<>>
        BY <2>1, EmptySeq
  <2>3. FlattenSeq(parts) = parts
        BY <2>1, Zenon DEF FlattenSeq
  <2>. QED BY <1>3, <1>6, <1>1, <2>2, <2>3
<1>7. CASE N # 0
  <2>1. 1 \in 1..N /\ N \in 1..N
        BY <1>1, <1>7
  <2>2. out[1] = parts[1]
    <3>1. out[1] = <<>> \o parts[1]
      <4>1. out[1] = out[1-1] \o parts[1]
            BY <1>3, <2>1
      <4>2. 1 - 1 = 0
            OBVIOUS
      <4>. QED BY <1>3, <4>1, <4>2
    <3>2. parts[1] \in Seq(S)
          BY <1>2, <2>1
    <3>3. <<>> \o parts[1] = parts[1]
          BY <3>2, ConcatEmptySeq
    <3>. QED BY <3>1, <3>3
  <2>3. PICK h : h = [n \in 1..N |-> out[n]]
        OBVIOUS
  <2>4. IsFlat(h, parts)
    <3>1. ASSUME NEW n \in 1..N
          PROVE  out[n] = IF n = 1 THEN parts[n] ELSE h[n-1] \o parts[n]
      <4>1. CASE n = 1
            BY <2>2, <4>1
      <4>2. CASE n # 1
        <5>1. n - 1 \in 1..N
              BY <1>1, <4>2
        <5>2. h[n-1] = out[n-1]
              BY <2>3, <5>1
        <5>. QED BY <1>3, <4>2, <5>2
      <4>. QED BY <4>1, <4>2
    <3>2. h = [n \in 1..N |-> IF n = 1 THEN parts[n] ELSE h[n-1] \o parts[n]]
          BY <2>3, <3>1, Zenon
    <3>. QED BY <1>1, <3>2 DEF IsFlat
  <2>5. \E f : IsFlat(f, parts)
        BY <2>4
  <2>6. PICK f : f = Flat(parts)
        OBVIOUS
  <2>7. IsFlat(f, parts)
        BY <2>5, <2>6, Zenon DEF Flat
  <2>8. \A n \in 1..N : f[n] = IF n = 1 THEN parts[n] ELSE f[n-1] \o parts[n]
        BY <1>1, <2>7 DEF IsFlat
  <2>9. f[1] = out[1]
        BY <2>1, <2>2, <2>8
  <2> DEFINE T == {n \in Nat : n + 1 \in 1..N => f[n + 1] = out[n + 1]}
  <2>10. 0 \in T
    <3>1. f[1] = out[1] /\ 0 + 1 = 1
          BY <2>9
    <3>. QED BY <3>1
  <2>11. ASSUME NEW n \in Nat, n \in T PROVE n + 1 \in T
    <3>. SUFFICES ASSUME n + 1 + 1 \in 1..N PROVE f[n + 1 + 1] = out[n + 1 + 1]
         OBVIOUS
    <3>1. n + 1 \in 1..N /\ n + 1 + 1 # 1 /\ (n + 1 + 1) - 1 = n + 1
          BY <1>1
    <3>2. f[n + 1] = out[n + 1]
          BY <2>11, <3>1
    <3>3. PICK x \in 1..N : x = n + 1 + 1 /\ x # 1 /\ x - 1 = n + 1
          BY <3>1
    <3>4. f[x] = f[x-1] \o parts[x] /\ out[x] = out[x-1] \o parts[x]
          BY <1>3, <2>8, <3>3
    <3>. QED BY <3>2, <3>3, <3>4
  <2>. HIDE DEF T
  <2>12. N - 1 \in T
    <3>1. N - 1 \in Nat
          BY <1>1, <1>7
    <3>. QED BY <2>10, <2>11, <3>1, SetInduction
  <2>13. f[N] = out[N]
    <3>1. (N - 1) + 1 = N
          BY <1>1
    <3>. QED BY <2>1, <2>12, <3>1 DEF T
  <2>14. FlattenSeq(parts) = Flat(parts)[Len(parts)]
    <3>1. Len(parts) # 0
          BY <1>1, <1>7
    <3>. QED BY <3>1, Zenon DEF FlattenSeq, Flat, IsFlat
  <2>. QED BY <1>1, <2>6, <2>13, <2>14
<1>. QED BY <1>6, <1>7

LEMMA FlattensExists ==
  ASSUME NEW S, NEW parts \in Seq(Seq(S))
  PROVE  \E out \in [0..Len(parts) -> Seq(S)] : Flattens(out, parts)
<1>0. PICK N \in Nat : N = Len(parts)
      OBVIOUS
<1>1. \A n \in 1..N : parts[n] \in Seq(S)
      BY <1>0
<1>2. PICK step : step = [n \in 1..N |-> [x \in Seq(S) |-> x \o parts[n]]]
      OBVIOUS
<1>3. step \in [1..N -> [Seq(S) -> Seq(S)]]
  <2>1. \A n \in 1..N, x \in Seq(S) : x \o parts[n] \in Seq(S)
        BY <1>1
  <2>. QED BY <1>2, <2>1
<1>4. <<>> \in Seq(S)
      OBVIOUS
<1>5. PICK g \in [0..N -> Seq(S)] : Unfolds(g, N, <<>>, step)
      BY <1>3, <1>4, RecursiveFunction
<1>6. ASSUME NEW n \in 1..N PROVE g[n] = g[n-1] \o parts[n]
  <2>1. n - 1 \in 0..N
        OBVIOUS
  <2>2. g[n-1] \in Seq(S)
        BY <2>1
  <2>3. g[n] = step[n][g[n-1]]
        BY <1>5 DEF Unfolds
  <2>. QED BY <1>2, <2>2, <2>3
<1>7. g[0] = <<>>
      BY <1>5 DEF Unfolds
<1>. QED BY <1>0, <1>6, <1>7 DEF Flattens

-------------------------------------------------------------------------------
(* The resolvers *)

LEMMA StrType ==
  ASSUME NEW p \in ProfileType, NEW idx \in Int
  PROVE  Str(p, idx) \in OptString
<1>1. CASE idx > 0
  <2>1. AsUsize(idx) \in Nat
        BY <1>1, UsizeAssumption DEF AsUsize
  <2>2. p.strings \in Seq(Text)
        BY DEF ProfileType
  <2>3. AsUsize(idx) + 1 <= Len(p.strings) => p.strings[AsUsize(idx) + 1] \in Text
        BY <2>1, <2>2
  <2>. QED BY <2>3 DEF Str, OptString
<1>2. CASE ~(idx > 0)
      BY <1>2 DEF Str, OptString
<1>. QED BY <1>1, <1>2

\* The last of the entries with an id exists, so that the index it is collected
\* into maps every id to an entry that has it.
LEMMA IndexByIdHits ==
  ASSUME NEW S, NEW entries \in Seq(S), NEW id \in DOMAIN IndexById(entries)
  PROVE  /\ IndexById(entries)[id] \in DOMAIN entries
         /\ entries[IndexById(entries)[id]].id = id
<1> DEFINE T == {n \in DOMAIN entries : entries[n].id = id}
<1>1. DOMAIN entries = 1..Len(entries) /\ Len(entries) \in Nat
      OBVIOUS
<1>2. T \in SUBSET (0..Len(entries)) /\ T # {}
      BY <1>1 DEF IndexById
<1>3. PICK n \in T : \A m \in T : m <= n
      BY <1>1, <1>2, GreatestElement
<1>4. \E x \in DOMAIN entries :
        /\ entries[x].id = id
        /\ \A m \in DOMAIN entries : entries[m].id = id => m <= x
      BY <1>3
<1>. QED BY <1>4 DEF IndexById

LEMMA LineFrameType ==
  ASSUME NEW p \in ProfileType, NEW loc \in LocationType, NEW ln \in LineType
  PROVE  LineFrame(p, loc, ln) \in FrameType
<1>1. ln.line \in Int /\ loc.address \in Nat
      BY DEF LineType, LocationType
<1>2. CASE ln.function_id \in DOMAIN FnById(p)
  <2> DEFINE f == p.function[FnById(p)[ln.function_id]]
  <2>1. p.function \in Seq(FunctionType)
        BY DEF ProfileType
  <2>2. FnById(p)[ln.function_id] \in DOMAIN p.function
        BY <1>2, <2>1, IndexByIdHits DEF FnById
  <2>3. f \in FunctionType
        BY <2>1, <2>2
  <2>4. Str(p, f.name) \in OptString /\ Str(p, f.filename) \in OptString
        BY <2>3, StrType DEF FunctionType
  <2>. QED BY <1>1, <1>2, <2>4 DEF LineFrame, Frame, FrameType
<1>3. CASE ln.function_id \notin DOMAIN FnById(p)
      BY <1>1, <1>3 DEF LineFrame, Frame, FrameType, OptString
<1>. QED BY <1>2, <1>3

\* frames_for never appends nothing.
LEMMA FramesForGrows ==
  ASSUME NEW p \in ProfileType, NEW id \in Nat
  PROVE  FramesFor(p, id) \in Seq(FrameType) /\ Len(FramesFor(p, id)) >= 1
<1>1. \A a \in Nat : Frame(None, None, None, a) \in FrameType
      BY DEF Frame, FrameType, OptString
<1>2. CASE id \notin DOMAIN LocById(p)
      BY <1>1, <1>2 DEF FramesFor
<1>3. CASE id \in DOMAIN LocById(p)
  <2> DEFINE loc == p.location[LocById(p)[id]]
  <2>1. p.location \in Seq(LocationType)
        BY DEF ProfileType
  <2>2. LocById(p)[id] \in DOMAIN p.location
        BY <1>3, <2>1, IndexByIdHits DEF LocById
  <2>3. loc \in LocationType
        BY <2>1, <2>2
  <2>4. loc.line \in Seq(LineType) /\ loc.address \in Nat
        BY <2>3 DEF LocationType
  <2>5. CASE loc.line = <<>>
        BY <1>1, <1>3, <2>4, <2>5 DEF FramesFor
  <2>6. CASE loc.line # <<>>
    <3>1. Len(loc.line) \in Nat /\ Len(loc.line) >= 1
          BY <2>4, <2>6
    <3>2. \A n \in 1..Len(loc.line) : LineFrame(p, loc, loc.line[n]) \in FrameType
          BY <2>3, <2>4, LineFrameType
    <3>3. FramesFor(p, id) = [n \in 1..Len(loc.line) |-> LineFrame(p, loc, loc.line[n])]
          BY <1>3, <2>6 DEF FramesFor
    <3>. HIDE DEF loc
    <3>. QED BY <3>1, <3>2, <3>3
  <2>. QED BY <2>5, <2>6
<1>. QED BY <1>2, <1>3

LEMMA OrEmptyType == \A s \in OptString : OrEmpty(s) \in Text
BY DEF OrEmpty, OptString, Text

LEMMA PairTyped ==
  ASSUME NEW p \in ProfileType, NEW lbl \in LabelType
  PROVE  [key |-> LabelKey(p, lbl), value |-> LabelValue(p, lbl)] \in PairType
<1>1. /\ Str(p, lbl.key) \in OptString /\ Str(p, lbl.str) \in OptString
      /\ Str(p, lbl.num_unit) \in OptString /\ lbl.num \in Int
      BY StrType DEF LabelType
<1>2. LabelKey(p, lbl) \in Text
      BY <1>1, OrEmptyType DEF LabelKey
<1>3. LabelValue(p, lbl) \in [text : Text, num : Int \cup {None}, unit : OptString]
  <2>1. CASE lbl.str # 0
    <3>1. OrEmpty(Str(p, lbl.str)) \in Text
          BY <1>1, OrEmptyType
    <3>. QED BY <2>1, <3>1 DEF LabelValue, OptString
  <2>2. CASE lbl.str = 0
    <3>1. "" \in Text
          BY DEF Text
    <3>. QED BY <1>1, <2>2, <3>1 DEF LabelValue
  <2>. QED BY <2>1, <2>2
<1>. QED BY <1>2, <1>3 DEF PairType

LEMMA AddLabelTyped ==
  ASSUME NEW p \in ProfileType, NEW out \in Seq(PairType), NEW lbl \in LabelType
  PROVE  AddLabel(p, out, lbl) \in Seq(PairType)
<1> DEFINE new == [key |-> LabelKey(p, lbl), value |-> LabelValue(p, lbl)]
<1>1. new \in PairType
      BY PairTyped
<1>2. AddLabel(p, out, lbl) \in {out, Append(out, new)}
      BY DEF AddLabel
<1>. HIDE DEF new
<1>. QED BY <1>1, <1>2

\* What StackOf and Labels have collected after n location ids and n labels.
FramesUpTo(p, ids) ==
  CHOOSE out : out = [n \in 0..Len(ids) |->
                        IF n = 0 THEN <<>> ELSE out[n-1] \o FramesFor(p, ids[n])]

LabelsUpTo(p, sample) ==
  CHOOSE out : out = [n \in 0..Len(sample.label) |->
                        IF n = 0 THEN <<>> ELSE AddLabel(p, out[n-1], sample.label[n])]

LEMMA FramesUpToStep ==
  ASSUME NEW p \in ProfileType, NEW ids \in Seq(Nat)
  PROVE  /\ FramesUpTo(p, ids)[0] = <<>>
         /\ \A n \in 1..Len(ids) :
              FramesUpTo(p, ids)[n] = FramesUpTo(p, ids)[n-1] \o FramesFor(p, ids[n])
         /\ StackOf(p, ids) = FramesUpTo(p, ids)[Len(ids)]
<1>1. PICK N \in Nat : N = Len(ids)
      OBVIOUS
<1> DEFINE V == Seq(FrameType)
           step == [n \in 1..N |-> [out \in V |-> out \o FramesFor(p, ids[n])]]
<1>2. ASSUME NEW out \in V, NEW n \in 1..N
      PROVE  step[n][out] = out \o FramesFor(p, ids[n]) /\ step[n][out] \in V
  <2>1. FramesFor(p, ids[n]) \in V
        BY <1>1, FramesForGrows
  <2>2. step[n][out] = out \o FramesFor(p, ids[n])
        OBVIOUS
  <2>. HIDE DEF step
  <2>. QED BY <2>1, <2>2
<1>3. step \in [1..N -> [V -> V]]
  <2>1. ASSUME NEW n \in 1..N PROVE [out \in V |-> out \o FramesFor(p, ids[n])] \in [V -> V]
    <3>1. FramesFor(p, ids[n]) \in V
          BY <1>1, FramesForGrows
    <3>2. \A out \in V : out \o FramesFor(p, ids[n]) \in V
          BY <3>1
    <3>. HIDE DEF V
    <3>. QED BY <3>2
  <2>. HIDE DEF V
  <2>. QED BY <2>1
<1>4. <<>> \in V
      OBVIOUS
<1>. HIDE DEF V, step
<1>5. PICK g \in [0..N -> V] : g[0] = <<>> /\ \A n \in 1..N : g[n] = step[n][g[n-1]]
  <2>1. PICK b \in V : b = <<>>
        BY <1>4
  <2>2. PICK stp \in [1..N -> [V -> V]] : stp = step
        BY <1>1, <1>3
  <2>3. \E g \in [0..N -> V] : Unfolds(g, N, b, stp)
        BY <1>1, <2>1, <2>2, RecursiveFunction
  <2>. QED BY <2>1, <2>2, <2>3 DEF Unfolds
<1>6. ASSUME NEW n \in 1..N PROVE g[n-1] \in V /\ g[n] = g[n-1] \o FramesFor(p, ids[n])
  <2>1. n - 1 \in 0..N
        BY <1>1
  <2>2. g[n-1] \in V
        BY <1>5, <2>1
  <2>. QED BY <1>2, <1>5, <2>2
<1>7. g = [n \in 0..Len(ids) |-> IF n = 0 THEN <<>> ELSE g[n-1] \o FramesFor(p, ids[n])]
  <2>1. \A n \in 0..N : n = 0 \/ n \in 1..N
        BY <1>1
  <2>2. g = [n \in 0..N |-> g[n]]
        OBVIOUS
  <2>3. \A n \in 0..N : g[n] = IF n = 0 THEN <<>> ELSE g[n-1] \o FramesFor(p, ids[n])
        BY <1>5, <1>6, <2>1
  <2>. QED BY <1>1, <2>2, <2>3, Zenon
<1>8. \E out : out = [n \in 0..Len(ids) |->
                       IF n = 0 THEN <<>> ELSE out[n-1] \o FramesFor(p, ids[n])]
      BY <1>7
<1>9. FramesUpTo(p, ids) = [n \in 0..Len(ids) |->
        IF n = 0 THEN <<>> ELSE FramesUpTo(p, ids)[n-1] \o FramesFor(p, ids[n])]
      BY <1>8, Zenon DEF FramesUpTo
<1>10. StackOf(p, ids) = FramesUpTo(p, ids)[Len(ids)]
       BY Zenon DEF StackOf, FramesUpTo
<1>11. /\ FramesUpTo(p, ids)[0] = <<>>
       /\ \A n \in 1..Len(ids) :
            FramesUpTo(p, ids)[n] = FramesUpTo(p, ids)[n-1] \o FramesFor(p, ids[n])
       BY <1>1, <1>9
<1>. QED BY <1>10, <1>11

LEMMA LabelsUpToStep ==
  ASSUME NEW p \in ProfileType, NEW sample \in SampleType
  PROVE  /\ LabelsUpTo(p, sample)[0] = <<>>
         /\ \A n \in 1..Len(sample.label) :
              LabelsUpTo(p, sample)[n] = AddLabel(p, LabelsUpTo(p, sample)[n-1], sample.label[n])
         /\ Labels(p, sample) = LabelsUpTo(p, sample)[Len(sample.label)]
<1>1. PICK lbl \in Seq(LabelType) : lbl = sample.label
      BY DEF SampleType
<1>2. PICK N \in Nat : N = Len(lbl)
      OBVIOUS
<1> DEFINE V == Seq(PairType)
           step == [n \in 1..N |-> [out \in V |-> AddLabel(p, out, lbl[n])]]
<1>3. ASSUME NEW out \in V, NEW n \in 1..N PROVE AddLabel(p, out, lbl[n]) \in V
  <2>1. lbl[n] \in LabelType /\ out \in Seq(PairType)
        BY <1>2
  <2>. QED BY <2>1, AddLabelTyped
<1>4. <<>> \in V
      OBVIOUS
<1>. HIDE DEF V
<1>5. step \in [1..N -> [V -> V]]
      BY <1>3
<1>6. ASSUME NEW out \in V, NEW n \in 1..N PROVE step[n][out] = AddLabel(p, out, lbl[n])
      OBVIOUS
<1>. HIDE DEF step
<1>7. PICK g \in [0..N -> V] : g[0] = <<>> /\ \A n \in 1..N : g[n] = step[n][g[n-1]]
  <2>1. PICK b \in V : b = <<>>
        BY <1>4
  <2>2. PICK stp \in [1..N -> [V -> V]] : stp = step
        BY <1>2, <1>5
  <2>3. \E g \in [0..N -> V] : Unfolds(g, N, b, stp)
        BY <1>2, <2>1, <2>2, RecursiveFunction
  <2>. QED BY <2>1, <2>2, <2>3 DEF Unfolds
<1>8. ASSUME NEW n \in 1..N PROVE g[n-1] \in V /\ g[n] = AddLabel(p, g[n-1], lbl[n])
  <2>1. n - 1 \in 0..N
        BY <1>2
  <2>2. g[n-1] \in V
        BY <1>7, <2>1
  <2>. QED BY <1>6, <1>7, <2>2
<1>9. g = [n \in 0..Len(sample.label) |->
             IF n = 0 THEN <<>> ELSE AddLabel(p, g[n-1], sample.label[n])]
      BY <1>1, <1>2, <1>7, <1>8
<1>10. \E out : out = [n \in 0..Len(sample.label) |->
                         IF n = 0 THEN <<>> ELSE AddLabel(p, out[n-1], sample.label[n])]
       BY <1>9
<1>11. LabelsUpTo(p, sample) = [n \in 0..Len(sample.label) |->
         IF n = 0 THEN <<>> ELSE AddLabel(p, LabelsUpTo(p, sample)[n-1], sample.label[n])]
       BY <1>10, Zenon DEF LabelsUpTo
<1>12. Labels(p, sample) = LabelsUpTo(p, sample)[Len(sample.label)]
       BY Zenon DEF Labels, LabelsUpTo
<1>13. /\ LabelsUpTo(p, sample)[0] = <<>>
       /\ \A n \in 1..Len(sample.label) :
            LabelsUpTo(p, sample)[n] = AddLabel(p, LabelsUpTo(p, sample)[n-1], sample.label[n])
  <2>1. Len(sample.label) = N
        BY <1>1, <1>2
  <2>2. PICK out : out = LabelsUpTo(p, sample)
        OBVIOUS
  <2>3. out = [n \in 0..N |-> IF n = 0 THEN <<>> ELSE AddLabel(p, out[n-1], sample.label[n])]
        BY <1>11, <2>1, <2>2
  <2>4. out[0] = <<>> /\ \A n \in 1..N : out[n] = AddLabel(p, out[n-1], sample.label[n])
        BY <1>2, <2>3
  <2>. QED BY <2>1, <2>2, <2>4
<1>. QED BY <1>12, <1>13
=============================================================================
