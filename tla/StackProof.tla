----------------------------- MODULE StackProof -----------------------------
(***************************************************************************)
(* Theorems about StackFlatten and the join of StackRef, for every set of  *)
(* profiles and every width of usize.                                      *)
(***************************************************************************)
EXTENDS StackRef, CoreProof, SequenceTheorems

\* One iteration of the label loop keeps the keys distinct.
LEMMA AddLabelKeepsDistinct ==
  ASSUME NEW p \in ProfileType, NEW out \in Seq(PairType), NEW lbl \in LabelType,
         Distinct(out)
  PROVE  /\ AddLabel(p, out, lbl) \in Seq(PairType)
         /\ Distinct(AddLabel(p, out, lbl))
<1> DEFINE new == [key |-> LabelKey(p, lbl), value |-> LabelValue(p, lbl)]
<1>1. CASE \E n \in DOMAIN out : out[n].key = LabelKey(p, lbl)
      BY <1>1 DEF AddLabel
<1>2. CASE ~\E n \in DOMAIN out : out[n].key = LabelKey(p, lbl)
  <2>1. AddLabel(p, out, lbl) = Append(out, new)
        BY <1>2 DEF AddLabel
  <2>2. new \in PairType /\ new.key = LabelKey(p, lbl)
        BY PairTyped
  <2>. HIDE DEF new
  <2>3. /\ Append(out, new) \in Seq(PairType)
        /\ DOMAIN Append(out, new) = DOMAIN out \cup {Len(out) + 1}
        /\ \A n \in DOMAIN out : Append(out, new)[n] = out[n]
        /\ Append(out, new)[Len(out) + 1] = new
        BY <2>2
  <2>4. Distinct(Append(out, new))
        BY <1>2, <2>2, <2>3 DEF Distinct
  <2>. QED BY <2>1, <2>3, <2>4
<1>. QED BY <1>1, <1>2

-------------------------------------------------------------------------------
LEMMA TypeInit == Init => TypeOK
BY ProfilesAssumption DEF Init, TypeOK

LEMMA SampleTyped ==
  ASSUME TypeOK, i <= Len(profile.sample)
  PROVE  Sample \in SampleType
BY DEF TypeOK, Sample, ProfileType

LEMMA LocationIdTyped ==
  ASSUME TypeOK, PushFrames
  PROVE  Sample.location_id[j] \in Nat
<1>1. i <= Len(profile.sample) /\ j \in Nat \ {0} /\ j <= Len(Sample.location_id)
      BY DEF TypeOK, PushFrames
<1>2. Sample \in SampleType
      BY <1>1, SampleTyped
<1>3. Sample.location_id \in Seq(Nat)
      BY <1>2 DEF SampleType
<1>. QED BY <1>1, <1>3

LEMMA LabelTyped ==
  ASSUME TypeOK, PushLabel
  PROVE  Sample.label[k] \in LabelType
<1>1. i <= Len(profile.sample) /\ k \in Nat \ {0} /\ k <= Len(Sample.label)
      BY DEF TypeOK, PushLabel
<1>2. Sample \in SampleType
      BY <1>1, SampleTyped
<1>3. Sample.label \in Seq(LabelType)
      BY <1>2 DEF SampleType
<1>. QED BY <1>1, <1>3

LEMMA TypeStep == TypeOK /\ LabelKeysAreUnique /\ [Next]_vars => TypeOK'
<1>. SUFFICES ASSUME TypeOK, LabelKeysAreUnique, [Next]_vars PROVE TypeOK'
     OBVIOUS
<1>1. CASE BeginSample
      BY <1>1 DEF TypeOK, BeginSample
<1>2. CASE PushFrames
  <2>1. Sample.location_id[j] \in Nat
        BY <1>2, LocationIdTyped
  <2>2. FramesFor(profile, Sample.location_id[j]) \in Seq(FrameType)
        BY <2>1, FramesForGrows DEF TypeOK
  <2>. QED BY <1>2, <2>2 DEF TypeOK, PushFrames
<1>3. CASE FramesDone
      BY <1>3 DEF TypeOK, FramesDone
<1>4. CASE PushLabel
  <2>1. Sample.label[k] \in LabelType
        BY <1>4, LabelTyped
  <2>2. AddLabel(profile, labels, Sample.label[k]) \in Seq(PairType)
        BY <2>1, AddLabelKeepsDistinct DEF TypeOK, LabelKeysAreUnique
  <2>. QED BY <1>4, <2>2 DEF TypeOK, PushLabel
<1>5. CASE EmitRow
  <2> DEFINE row == [sample_id |-> i, value |-> Sample.value, labels |-> labels,
                     frames |-> frames]
  <2>1. row \in RowType
        BY <1>5, SampleTyped DEF TypeOK, EmitRow, SampleType, RowType
  <2>2. Append(rows, row) \in Seq(RowType) /\ Len(Append(rows, row)) = Len(rows) + 1
        BY <2>1 DEF TypeOK
  <2>3. rows' = Append(rows, row) /\ i' = i + 1 /\ phase' = "sample"
        BY <1>5 DEF EmitRow
  <2>. HIDE DEF row
  <2>. QED BY <1>5, <2>2, <2>3 DEF TypeOK, EmitRow
<1>6. CASE Finish
      BY <1>6 DEF TypeOK, Finish
<1>7. CASE UNCHANGED vars
      BY <1>7 DEF TypeOK, vars
<1>. QED BY <1>1, <1>2, <1>3, <1>4, <1>5, <1>6, <1>7 DEF Next

LEMMA UniqueStep == TypeOK /\ LabelKeysAreUnique /\ [Next]_vars => LabelKeysAreUnique'
<1>. SUFFICES ASSUME TypeOK, LabelKeysAreUnique, [Next]_vars PROVE LabelKeysAreUnique'
     OBVIOUS
<1>1. CASE PushLabel
  <2>1. Sample.label[k] \in LabelType
        BY <1>1, LabelTyped
  <2>2. Distinct(AddLabel(profile, labels, Sample.label[k]))
        BY <2>1, AddLabelKeepsDistinct DEF TypeOK, LabelKeysAreUnique
  <2>3. labels' = AddLabel(profile, labels, Sample.label[k]) /\ rows' = rows
        BY <1>1 DEF PushLabel
  <2>. QED BY <2>2, <2>3 DEF LabelKeysAreUnique
<1>2. CASE FramesDone
      BY <1>2 DEF FramesDone, LabelKeysAreUnique, Distinct
<1>3. CASE EmitRow
  <2> DEFINE row == [sample_id |-> i, value |-> Sample.value, labels |-> labels,
                     frames |-> frames]
  <2>1. rows' = Append(rows, row) /\ labels' = labels /\ row.labels = labels
        BY <1>3 DEF EmitRow
  <2>. HIDE DEF row
  <2>2. /\ DOMAIN Append(rows, row) = DOMAIN rows \cup {Len(rows) + 1}
        /\ \A r \in DOMAIN rows : Append(rows, row)[r] = rows[r]
        /\ Append(rows, row)[Len(rows) + 1] = row
        BY DEF TypeOK
  <2>. QED BY <2>1, <2>2 DEF LabelKeysAreUnique
<1>4. CASE UNCHANGED <<labels, rows>>
      BY <1>4 DEF LabelKeysAreUnique
<1>. QED BY <1>1, <1>2, <1>3, <1>4 DEF Next, BeginSample, PushFrames, Finish, vars

\* Type correctness of the flattening and of every row it returns.
THEOREM StackTypes == Spec => []TypeOK
<1>1. Init => TypeOK /\ LabelKeysAreUnique
      BY TypeInit DEF Init, LabelKeysAreUnique, Distinct
<1>2. TypeOK /\ LabelKeysAreUnique /\ [Next]_vars => (TypeOK /\ LabelKeysAreUnique)'
      BY TypeStep, UniqueStep
<1>. QED BY <1>1, <1>2, PTL DEF Spec

\* The labels of every sample are a map: what the MAP column builder assumes of
\* its input holds of whatever profile is decoded.
THEOREM LabelsFormAMap == Spec => []LabelKeysAreUnique
<1>1. Init => TypeOK /\ LabelKeysAreUnique
      BY TypeInit DEF Init, LabelKeysAreUnique, Distinct
<1>2. TypeOK /\ LabelKeysAreUnique /\ [Next]_vars => (TypeOK /\ LabelKeysAreUnique)'
      BY TypeStep, UniqueStep
<1>. QED BY <1>1, <1>2, PTL DEF Spec

-------------------------------------------------------------------------------
LEMMA SlotsStep == TypeOK /\ LocationsKeepTheirSlots /\ [Next]_vars => LocationsKeepTheirSlots'
<1>. SUFFICES ASSUME TypeOK, LocationsKeepTheirSlots, [Next]_vars
              PROVE  LocationsKeepTheirSlots'
     OBVIOUS
<1>. USE DEF LocationsKeepTheirSlots
<1>1. CASE BeginSample
      BY <1>1 DEF BeginSample, TypeOK
<1>2. CASE PushFrames
  <2> DEFINE new == FramesFor(profile, Sample.location_id[j])
  <2>1. Sample.location_id[j] \in Nat
        BY <1>2, LocationIdTyped
  <2>2. new \in Seq(FrameType) /\ Len(new) >= 1
        BY <2>1, FramesForGrows DEF TypeOK
  <2>3. frames' = frames \o new /\ j' = j + 1 /\ UNCHANGED <<phase, profile, rows, i>>
        BY <1>2 DEF PushFrames
  <2>. HIDE DEF new
  <2>4. Len(frames \o new) = Len(frames) + Len(new) /\ Len(frames) \in Nat
        BY <2>2 DEF TypeOK
  <2>. QED BY <1>2, <2>2, <2>3, <2>4 DEF TypeOK, PushFrames
<1>3. CASE FramesDone
  <2>1. Len(Sample.location_id) \in Nat
        BY <1>3, SampleTyped DEF FramesDone, TypeOK, SampleType
  <2>. QED BY <1>3, <2>1 DEF FramesDone, TypeOK, Sample
<1>4. CASE PushLabel
      BY <1>4 DEF PushLabel, Sample
<1>5. CASE EmitRow
  <2> DEFINE row == [sample_id |-> i, value |-> Sample.value, labels |-> labels,
                     frames |-> frames]
  <2>1. rows' = Append(rows, row) /\ phase' = "sample" /\ profile' = profile
        BY <1>5 DEF EmitRow
  <2>2. row.frames = frames /\ Len(frames) >= Len(profile.sample[i].location_id)
        BY <1>5 DEF EmitRow, Sample
  <2>. HIDE DEF row
  <2>3. /\ DOMAIN Append(rows, row) = DOMAIN rows \cup {i}
        /\ \A r \in DOMAIN rows : Append(rows, row)[r] = rows[r]
        /\ Append(rows, row)[i] = row
        BY DEF TypeOK
  <2>. QED BY <2>1, <2>2, <2>3
<1>6. CASE Finish
      BY <1>6 DEF Finish
<1>7. CASE UNCHANGED vars
      BY <1>7 DEF vars, Sample
<1>. QED BY <1>1, <1>2, <1>3, <1>4, <1>5, <1>6, <1>7 DEF Next

\* No stack is ever shallower than its raw sample: a dangling or unsymbolized
\* location keeps a frame for its address.
THEOREM StacksKeepEveryLocation == Spec => []LocationsKeepTheirSlots
<1>1. Init => LocationsKeepTheirSlots
      BY DEF Init, LocationsKeepTheirSlots
<1>. QED BY <1>1, SlotsStep, StackTypes, PTL DEF Spec

-------------------------------------------------------------------------------
(* Indexes that fit a usize *)

\* str answers with the entry of its index, or not at all.
LEMMA StrInTable ==
  ASSUME NEW p \in ProfileType, NEW idx \in Int, idx < UsizeRange,
         Str(p, idx) # None
  PROVE  InTable(p, idx) /\ p.strings[idx + 1] = Str(p, idx)
<1>1. idx > 0
      BY DEF Str
<1>2. AsUsize(idx) = idx
      BY <1>1, UsizeAssumption DEF AsUsize
<1>3. idx + 1 <= Len(p.strings) /\ Str(p, idx) = p.strings[idx + 1]
      BY <1>1, <1>2 DEF Str
<1>4. Len(p.strings) \in Nat
      BY DEF ProfileType
<1>. QED BY <1>1, <1>3, <1>4 DEF InTable

LEMMA FunctionTyped ==
  ASSUME NEW p \in ProfileType, NEW n \in DOMAIN p.function
  PROVE  p.function[n].name \in Int
<1>1. p.function \in Seq(FunctionType)
      BY DEF ProfileType
<1>2. p.function[n] \in FunctionType
      BY <1>1
<1>. QED BY <1>2 DEF FunctionType

LEMMA LineFrameResolves ==
  ASSUME NEW p \in Profiles, IndexesFit, NEW loc, NEW ln,
         LineFrame(p, loc, ln).function # None
  PROVE  NameOfFunction(p, LineFrame(p, loc, ln).function)
<1>0. p \in ProfileType
      BY ProfilesAssumption
<1>1. ln.function_id \in DOMAIN FnById(p)
      BY DEF LineFrame, Frame
<1> DEFINE n == FnById(p)[ln.function_id]
<1>2. n \in DOMAIN p.function
  <2>1. p.function \in Seq(FunctionType)
        BY <1>0 DEF ProfileType
  <2>. QED BY <1>1, <2>1, IndexByIdHits DEF FnById
<1>3. LineFrame(p, loc, ln).function = Str(p, p.function[n].name)
      BY <1>1 DEF LineFrame, Frame
<1>. HIDE DEF n
<1>4. p.function[n].name \in Int /\ p.function[n].name < UsizeRange
      BY <1>0, <1>2, FunctionTyped DEF IndexesFit
<1>5. /\ InTable(p, p.function[n].name)
      /\ p.strings[p.function[n].name + 1] = LineFrame(p, loc, ln).function
      BY <1>0, <1>3, <1>4, StrInTable
<1>. QED BY <1>2, <1>5 DEF NameOfFunction

LEMMA FramesForResolves ==
  ASSUME NEW p \in Profiles, IndexesFit, NEW id
  PROVE  FramesResolve(p, FramesFor(p, id))
<1>1. \A a : FramesResolve(p, <<Frame(None, None, None, a)>>)
      BY DEF FramesResolve, Frame
<1>2. CASE id \notin DOMAIN LocById(p)
      BY <1>1, <1>2 DEF FramesFor
<1>3. CASE id \in DOMAIN LocById(p)
  <2> DEFINE loc == p.location[LocById(p)[id]]
  <2>1. CASE loc.line = <<>>
        BY <1>1, <1>3, <2>1 DEF FramesFor
  <2>2. CASE loc.line # <<>>
    <3>1. FramesFor(p, id) = [n \in 1..Len(loc.line) |-> LineFrame(p, loc, loc.line[n])]
          BY <1>3, <2>2 DEF FramesFor
    <3>. HIDE DEF loc
    <3>. QED BY <3>1, LineFrameResolves DEF FramesResolve
  <2>. QED BY <2>1, <2>2
<1>. QED BY <1>2, <1>3

\* The frames of the sample at hand and those of every row name functions whose
\* indexes lie in the table.
Resolved == /\ profile \in Profiles /\ FramesResolve(profile, frames)
            /\ \A r \in DOMAIN rows : FramesResolve(profile, rows[r].frames)

LEMMA ResolvedStep ==
  ASSUME IndexesFit, TypeOK, Resolved, [Next]_vars
  PROVE  Resolved'
<1>1. CASE BeginSample
      BY <1>1 DEF BeginSample, Resolved, FramesResolve
<1>2. CASE PushFrames
  <2> DEFINE new == FramesFor(profile, Sample.location_id[j])
  <2>1. Sample.location_id[j] \in Nat
        BY <1>2, LocationIdTyped
  <2>2. new \in Seq(FrameType) /\ FramesResolve(profile, new)
        BY <2>1, FramesForGrows, FramesForResolves DEF TypeOK, Resolved
  <2>3. frames' = frames \o new /\ UNCHANGED <<profile, rows>>
        BY <1>2 DEF PushFrames
  <2>. HIDE DEF new
  <2>4. \A m \in DOMAIN (frames \o new) :
          \/ m \in DOMAIN frames /\ (frames \o new)[m] = frames[m]
          \/ \E o \in DOMAIN new : (frames \o new)[m] = new[o]
    <3>. SUFFICES ASSUME NEW m \in DOMAIN (frames \o new), m \notin DOMAIN frames
                  PROVE  \E o \in DOMAIN new : (frames \o new)[m] = new[o]
         BY <2>2 DEF TypeOK
    <3>1. /\ Len(frames) \in Nat /\ Len(new) \in Nat
          /\ m \in (Len(frames) + 1)..(Len(frames) + Len(new))
          BY <2>2 DEF TypeOK
    <3>2. m - Len(frames) \in DOMAIN new /\ (frames \o new)[m] = new[m - Len(frames)]
          BY <2>2, <3>1 DEF TypeOK
    <3>. QED BY <3>2
  <2>5. FramesResolve(profile, frames \o new)
        BY <2>2, <2>4 DEF Resolved, FramesResolve
  <2>. QED BY <2>3, <2>5 DEF Resolved
<1>3. CASE EmitRow
  <2> DEFINE row == [sample_id |-> i, value |-> Sample.value, labels |-> labels,
                     frames |-> frames]
  <2>1. rows' = Append(rows, row) /\ row.frames = frames /\ UNCHANGED <<profile, frames>>
        BY <1>3 DEF EmitRow
  <2>. HIDE DEF row
  <2>2. /\ DOMAIN Append(rows, row) = DOMAIN rows \cup {Len(rows) + 1}
        /\ \A r \in DOMAIN rows : Append(rows, row)[r] = rows[r]
        /\ Append(rows, row)[Len(rows) + 1] = row
        BY DEF TypeOK
  <2>. QED BY <2>1, <2>2 DEF Resolved
<1>4. CASE UNCHANGED <<profile, frames, rows>>
      BY <1>4 DEF Resolved
<1>. QED BY <1>1, <1>2, <1>3, <1>4 DEF Next, FramesDone, PushLabel, Finish, vars

LEMMA ResolvedMeansUnresolvedOutside ==
  ASSUME IndexesFit, TypeOK, Resolved
  PROVE  OutOfRangeIsUnresolved
<1>1. ASSUME NEW n \in DOMAIN profile.function,
             ~InTable(profile, profile.function[n].name)
      PROVE  Functions(profile)[n].name = None
  <2>1. /\ profile.function[n].name \in Int
        /\ profile.function[n].name < UsizeRange
        BY FunctionTyped DEF TypeOK, Resolved, IndexesFit
  <2>2. Str(profile, profile.function[n].name) = None
        BY <1>1, <2>1, StrInTable DEF TypeOK
  <2>. QED BY <2>2 DEF Functions
<1>. QED BY <1>1 DEF Resolved, OutOfRangeIsUnresolved

\* Where a usize holds every string index, as on a 64-bit build, an index outside the
\* table never turns into another string: a frame is nameless, or has the name of
\* a function of the profile (lib.rs:212-220).
THEOREM OutsideStaysUnresolved ==
  ASSUME IndexesFit
  PROVE  Spec => []OutOfRangeIsUnresolved
<1>1. Init => Resolved
      BY DEF Init, Resolved, FramesResolve
<1>2. TypeOK /\ Resolved /\ [Next]_vars => Resolved'
      BY ResolvedStep
<1>3. TypeOK /\ Resolved => OutOfRangeIsUnresolved
      BY ResolvedMeansUnresolvedOutside
<1>. QED BY <1>1, <1>2, <1>3, StackTypes, PTL DEF Spec

-------------------------------------------------------------------------------
(* The label loop *)

\* A label whose key no pair has yet is the first of its key.
LEMMA NewKeyIsFirst ==
  ASSUME NEW p, NEW lbl, NEW n \in Nat \ {0}, NEW ls, FirstLabels(p, lbl, n - 1, ls),
         \A x \in DOMAIN ls : ls[x].key # LabelKey(p, lbl[n])
  PROVE  IsFirst(p, lbl, n)
<1> DEFINE T == {o \in 1..(n - 1) : LabelKey(p, lbl[o]) = LabelKey(p, lbl[n])}
<1>1. SUFFICES ASSUME T # {} PROVE FALSE
      BY DEF IsFirst
<1>2. PICK o \in T : \A y \in T : o <= y
  <2>1. T \in SUBSET Nat
        OBVIOUS
  <2>. QED BY <1>1, <2>1, LeastElement
<1>3. IsFirst(p, lbl, o)
  <2>. SUFFICES ASSUME NEW y \in 1..(o - 1), LabelKey(p, lbl[y]) = LabelKey(p, lbl[o])
                PROVE  FALSE
       BY DEF IsFirst
  <2>1. y \in T /\ y < o
        OBVIOUS
  <2>. QED BY <1>2, <2>1
<1>4. \E x \in DOMAIN ls : ls[x].key = LabelKey(p, lbl[o])
      BY <1>3 DEF FirstLabels
<1>. QED BY <1>4

\* One iteration of the loop extends the prefix of labels its output stands for.
LEMMA AddLabelFirst ==
  ASSUME NEW p \in ProfileType, NEW lbl, NEW n \in Nat \ {0}, lbl[n] \in LabelType,
         NEW ls \in Seq(PairType), FirstLabels(p, lbl, n - 1, ls)
  PROVE  FirstLabels(p, lbl, n, AddLabel(p, ls, lbl[n]))
<1> DEFINE Fits(place, m, out) ==
      /\ \A x, y \in DOMAIN out : x < y => place[x] < place[y]
      /\ \A o \in 1..m : IsFirst(p, lbl, o) => \E x \in DOMAIN out : place[x] = o
      /\ \A x \in DOMAIN out :
           /\ IsFirst(p, lbl, place[x])
           /\ out[x] = [key |-> LabelKey(p, lbl[place[x]]),
                        value |-> LabelValue(p, lbl[place[x]])]
<1>1. PICK place \in [DOMAIN ls -> 1..(n - 1)] : Fits(place, n - 1, ls)
      BY DEF FirstLabels
<1>2. CASE \E x \in DOMAIN ls : ls[x].key = LabelKey(p, lbl[n])
  <2>1. PICK x \in DOMAIN ls : ls[x].key = LabelKey(p, lbl[n])
        BY <1>2
  <2>2. place[x] \in 1..(n - 1) /\ LabelKey(p, lbl[place[x]]) = LabelKey(p, lbl[n])
        BY <1>1, <2>1
  <2>3. ~IsFirst(p, lbl, n)
        BY <2>2 DEF IsFirst
  <2>4. place \in [DOMAIN ls -> 1..n] /\ Fits(place, n, ls)
    <3>1. \A o \in 1..n : o \in 1..(n - 1) \/ o = n
          OBVIOUS
    <3>. QED BY <1>1, <2>3, <3>1
  <2>5. AddLabel(p, ls, lbl[n]) = ls
        BY <1>2 DEF AddLabel
  <2>6. FirstLabels(p, lbl, n, ls)
        BY <2>4 DEF FirstLabels
  <2>. QED BY <2>5, <2>6
<1>3. CASE ~\E x \in DOMAIN ls : ls[x].key = LabelKey(p, lbl[n])
  <2> DEFINE new == [key |-> LabelKey(p, lbl[n]), value |-> LabelValue(p, lbl[n])]
             out == Append(ls, new)
             at == [x \in DOMAIN out |-> IF x \in DOMAIN ls THEN place[x] ELSE n]
  <2>1. IsFirst(p, lbl, n)
        BY <1>3, NewKeyIsFirst
  <2>2. AddLabel(p, ls, lbl[n]) = out
        BY <1>3 DEF AddLabel
  <2>3. new \in PairType
        BY PairTyped
  <2>4. /\ DOMAIN ls = 1..Len(ls) /\ Len(ls) \in Nat
        /\ DOMAIN out = DOMAIN ls \cup {Len(ls) + 1}
        /\ \A x \in DOMAIN ls : out[x] = ls[x]
        /\ out[Len(ls) + 1] = new
    <3>. HIDE DEF new
    <3>. QED BY <2>3
  <2>5. /\ \A x \in DOMAIN ls : at[x] = place[x] /\ at[x] \in 1..(n - 1)
        /\ at[Len(ls) + 1] = n
    <3>. HIDE DEF out
    <3>. QED BY <1>1, <2>4
  <2>6. at \in [DOMAIN out -> 1..n]
    <3>. HIDE DEF out
    <3>. QED BY <1>1, <2>4
  <2>7. \A x \in DOMAIN out : out[x] = [key |-> LabelKey(p, lbl[at[x]]),
                                        value |-> LabelValue(p, lbl[at[x]])]
    <3>. HIDE DEF out, at
    <3>. QED BY <1>1, <2>4, <2>5
  <2>. HIDE DEF new, out, at
  <2>8. \A x, y \in DOMAIN out : x < y => at[x] < at[y]
        BY <1>1, <2>4, <2>5
  <2>9. \A o \in 1..n : IsFirst(p, lbl, o) => \E x \in DOMAIN out : at[x] = o
    <3>1. \A o \in 1..n : o \in 1..(n - 1) \/ o = n
          OBVIOUS
    <3>. QED BY <1>1, <2>4, <2>5, <3>1
  <2>10. \A x \in DOMAIN out : IsFirst(p, lbl, at[x])
         BY <1>1, <2>1, <2>4, <2>5
  <2>. QED BY <2>2, <2>6, <2>7, <2>8, <2>9, <2>10 DEF FirstLabels
<1>. QED BY <1>2, <1>3

\* The loop never passes the end of a sample's labels.
LabelsInv == /\ FirstLabelWins
             /\ phase = "labels" => k <= Len(Sample.label) + 1

LEMMA LabelsStep == ASSUME TypeOK, LabelsInv, [Next]_vars PROVE LabelsInv'
<1>0. i <= Len(profile.sample) => Len(Sample.label) \in Nat
      BY SampleTyped DEF SampleType
<1>1. CASE FramesDone
  <2>1. /\ phase' = "labels" /\ k' = 1 /\ labels' = <<>> /\ Sample' = Sample
        /\ UNCHANGED <<profile, rows>>
        BY <1>1 DEF FramesDone, Sample
  <2>2. FirstLabels(profile, Sample.label, 0, <<>>)
    <3>1. DOMAIN <<>> = {} /\ 1..0 = {}
          OBVIOUS
    <3>2. PICK place \in [{} -> {}] : TRUE
      <4>1. [x \in {} |-> x] \in [{} -> {}]
            OBVIOUS
      <4>. QED BY <4>1
    <3>. QED BY <3>1, <3>2, Zenon DEF FirstLabels
  <2>3. k' <= Len(Sample'.label) + 1
        BY <1>0, <1>1, <2>1 DEF FramesDone, TypeOK
  <2>. QED BY <2>1, <2>2, <2>3 DEF LabelsInv, FirstLabelWins
<1>2. CASE PushLabel
  <2>1. /\ labels' = AddLabel(profile, labels, Sample.label[k]) /\ k' = k + 1
        /\ Sample' = Sample /\ UNCHANGED <<profile, phase, rows>>
        /\ phase = "labels" /\ k <= Len(Sample.label)
        BY <1>2 DEF PushLabel, Sample
  <2>2. Sample.label[k] \in LabelType
        BY <1>2, LabelTyped
  <2>3. FirstLabels(profile, Sample.label, k, AddLabel(profile, labels, Sample.label[k]))
        BY <2>1, <2>2, AddLabelFirst DEF TypeOK, LabelsInv, FirstLabelWins
  <2>4. k' - 1 = k /\ k' <= Len(Sample'.label) + 1
        BY <1>0, <2>1 DEF TypeOK
  <2>. QED BY <2>1, <2>3, <2>4 DEF LabelsInv, FirstLabelWins
<1>3. CASE EmitRow
  <2> DEFINE row == [sample_id |-> i, value |-> Sample.value, labels |-> labels,
                     frames |-> frames]
  <2>1. /\ rows' = Append(rows, row) /\ row.labels = labels /\ profile' = profile
        /\ phase = "labels" /\ phase' = "sample" /\ k > Len(Sample.label)
        BY <1>3 DEF EmitRow
  <2>. HIDE DEF row
  <2>2. k - 1 = Len(Sample.label)
    <3>1. Len(Sample.label) \in Nat /\ k \in Nat
          BY <1>0, <2>1 DEF TypeOK
    <3>2. k <= Len(Sample.label) + 1 /\ k > Len(Sample.label)
          BY <2>1 DEF LabelsInv
    <3>. QED BY <3>1, <3>2
  <2>3. FirstLabels(profile, profile.sample[i].label, Len(profile.sample[i].label), labels)
        BY <2>1, <2>2 DEF LabelsInv, FirstLabelWins, Sample
  <2>4. /\ DOMAIN Append(rows, row) = DOMAIN rows \cup {i}
        /\ \A r \in DOMAIN rows : Append(rows, row)[r] = rows[r]
        /\ Append(rows, row)[i] = row
        BY DEF TypeOK
  <2>. QED BY <2>1, <2>3, <2>4 DEF LabelsInv, FirstLabelWins
<1>4. CASE phase' # "labels" /\ UNCHANGED <<profile, rows>>
      BY <1>4 DEF LabelsInv, FirstLabelWins
<1>5. CASE UNCHANGED vars
      BY <1>5 DEF LabelsInv, FirstLabelWins, Sample, vars
<1>6. CASE PushFrames
      BY <1>4, <1>6 DEF PushFrames
<1>. QED BY <1>1, <1>2, <1>3, <1>4, <1>5, <1>6 DEF Next, BeginSample, Finish

\* The labels of every row are the first label of each key of its sample, in order,
\* whatever the profile: a repeated key is dropped and never replaces (lib.rs:232-236).
THEOREM FirstLabelsWin == Spec => []FirstLabelWins
<1>1. Init => LabelsInv
      BY DEF Init, LabelsInv, FirstLabelWins
<1>2. TypeOK /\ LabelsInv /\ [Next]_vars => LabelsInv'
      BY LabelsStep
<1>3. LabelsInv => FirstLabelWins
      BY DEF LabelsInv
<1>. QED BY <1>1, <1>2, <1>3, StackTypes, PTL DEF Spec

-------------------------------------------------------------------------------
(* The stacks view *)

\* Of the entries with an id, the index and the join both take the last.
Places(entries, id) == {n \in DOMAIN entries : entries[n].id = id}

LEMMA LastIsIndexed ==
  ASSUME NEW S, NEW entries \in Seq(S), NEW id
  PROVE  /\ id \in DOMAIN IndexById(entries) <=> Places(entries, id) # {}
         /\ Places(entries, id) # {} =>
              /\ Max(Places(entries, id)) = IndexById(entries)[id]
              /\ Max(Places(entries, id)) \in DOMAIN entries
<1>0. PICK ns : ns = {n \in DOMAIN entries : entries[n].id = id} /\ ns = Places(entries, id)
      BY DEF Places
<1>1. id \in DOMAIN IndexById(entries) <=> ns # {}
      BY <1>0 DEF IndexById
<1>2. CASE ns # {}
  <2>1. ns \in SUBSET (0..Len(entries)) /\ Len(entries) \in Nat /\ ns \in SUBSET Nat
    <3>1. DOMAIN entries = 1..Len(entries) /\ Len(entries) \in Nat
          OBVIOUS
    <3>. QED BY <1>0, <3>1
  <2>2. PICK a \in ns : \A m \in ns : m <= a
        BY <1>2, <2>1, GreatestElement
  <2>3. Max(ns) \in ns /\ \A y \in ns : Max(ns) >= y
    <3>1. \E x \in ns : \A y \in ns : x >= y
          BY <2>1, <2>2
    <3>. QED BY <3>1, Zenon DEF Max
  <2>4. PICK n : n = IndexById(entries)[id]
        OBVIOUS
  <2>5. n \in ns /\ \A m \in ns : m <= n
    <3>1. \E x \in DOMAIN entries :
            /\ entries[x].id = id
            /\ \A m \in DOMAIN entries : entries[m].id = id => m <= x
          BY <1>0, <2>2
    <3>2. id \in DOMAIN IndexById(entries)
          BY <1>1, <1>2
    <3>3. IndexById(entries)[id] =
            CHOOSE x \in DOMAIN entries :
              /\ entries[x].id = id
              /\ \A m \in DOMAIN entries : entries[m].id = id => m <= x
          BY <3>2 DEF IndexById
    <3>. QED BY <1>0, <2>4, <3>1, <3>3
  <2>6. Max(ns) = n
    <3>1. PICK x : x = Max(ns)
          OBVIOUS
    <3>2. x \in Nat /\ n \in Nat /\ x >= n /\ x <= n
          BY <2>1, <2>3, <2>5, <3>1
    <3>. QED BY <3>1, <3>2
  <2>. QED BY <1>0, <1>1, <1>2, <2>3, <2>4, <2>6
<1>. QED BY <1>0, <1>1, <1>2

LEMMA FunctionJoined ==
  ASSUME profile \in ProfileType, NEW id
  PROVE  /\ id \in DOMAIN FnById(profile) =>
              /\ FnById(profile)[id] \in DOMAIN profile.function
              /\ FunctionOf(id) = {Functions(profile)[FnById(profile)[id]]}
         /\ id \notin DOMAIN FnById(profile) => FunctionOf(id) = {}
<1>1. PICK fs \in Seq(FunctionType) : fs = profile.function
      BY DEF ProfileType
<1>2. PICK ns : ns = {n \in DOMAIN fs : fs[n].id = id} /\ ns = Places(fs, id)
      BY DEF Places
<1>3. ns = {n \in DOMAIN Functions(profile) : Functions(profile)[n].function_id = id}
      BY <1>1, <1>2 DEF Functions
<1>4. FunctionOf(id) = IF ns = {} THEN {} ELSE {Functions(profile)[Max(ns)]}
      BY <1>3, Zenon DEF FunctionOf, LastWith
<1>5. /\ id \in DOMAIN FnById(profile) <=> ns # {}
      /\ ns # {} => Max(ns) = FnById(profile)[id] /\ Max(ns) \in DOMAIN fs
  <2>1. fs \in Seq(FunctionType)
        BY <1>1
  <2>2. /\ id \in DOMAIN IndexById(fs) <=> ns # {}
        /\ ns # {} => Max(ns) = IndexById(fs)[id] /\ Max(ns) \in DOMAIN fs
        BY <1>2, <2>1, LastIsIndexed
  <2>3. FnById(profile) = IndexById(fs)
        BY <1>1 DEF FnById
  <2>. QED BY <2>2, <2>3
<1>. QED BY <1>1, <1>4, <1>5

LEMMA LocationJoined ==
  ASSUME profile \in ProfileType, NEW id
  PROVE  /\ id \in DOMAIN LocById(profile) =>
              /\ LocById(profile)[id] \in DOMAIN profile.location
              /\ LocationOf(id) = {Locations(profile)[LocById(profile)[id]]}
         /\ id \notin DOMAIN LocById(profile) => LocationOf(id) = {}
<1>1. PICK ls \in Seq(LocationType) : ls = profile.location
      BY DEF ProfileType
<1>2. PICK ns : ns = {n \in DOMAIN ls : ls[n].id = id} /\ ns = Places(ls, id)
      BY DEF Places
<1>3. ns = {n \in DOMAIN Locations(profile) : Locations(profile)[n].location_id = id}
      BY <1>1, <1>2 DEF Locations
<1>4. LocationOf(id) = IF ns = {} THEN {} ELSE {Locations(profile)[Max(ns)]}
      BY <1>3, Zenon DEF LocationOf, LastWith
<1>5. /\ id \in DOMAIN LocById(profile) <=> ns # {}
      /\ ns # {} => Max(ns) = LocById(profile)[id] /\ Max(ns) \in DOMAIN ls
  <2>1. ls \in Seq(LocationType)
        BY <1>1
  <2>2. /\ id \in DOMAIN IndexById(ls) <=> ns # {}
        /\ ns # {} => Max(ns) = IndexById(ls)[id] /\ Max(ns) \in DOMAIN ls
        BY <1>2, <2>1, LastIsIndexed
  <2>3. LocById(profile) = IndexById(ls)
        BY <1>1 DEF LocById
  <2>. QED BY <2>2, <2>3
<1>. QED BY <1>1, <1>4, <1>5

\* The frame of a line is the line joined with its function.
LEMMA LineJoined ==
  ASSUME profile \in ProfileType, NEW l, NEW loc, NEW ln, l.address = loc.address
  PROVE  JoinLine(l, ln) = LineFrame(profile, loc, ln)
<1>1. CASE ln.function_id \in DOMAIN FnById(profile)
  <2>1. PICK n \in DOMAIN profile.function : n = FnById(profile)[ln.function_id]
        BY <1>1, FunctionJoined
  <2>2. FunctionOf(ln.function_id) = {Functions(profile)[n]}
        BY <1>1, <2>1, FunctionJoined
  <2>3. PICK f : f = CHOOSE x \in FunctionOf(ln.function_id) : TRUE
        OBVIOUS
  <2>4. f = Functions(profile)[n]
        BY <2>2, <2>3
  <2>5. /\ f.name = Str(profile, profile.function[n].name)
        /\ f.filename = Str(profile, profile.function[n].filename)
        BY <2>4 DEF Functions
  <2>6. FunctionOf(ln.function_id) # {}
        BY <2>2
  <2>7. JoinLine(l, ln) = Frame(f.name, f.filename, ln.line, l.address)
        BY <2>3, <2>6 DEF JoinLine, Frame
  <2>8. LineFrame(profile, loc, ln)
          = Frame(Str(profile, profile.function[n].name),
                  Str(profile, profile.function[n].filename), ln.line, loc.address)
        BY <1>1, <2>1 DEF LineFrame
  <2>. QED BY <2>5, <2>7, <2>8
<1>2. CASE ln.function_id \notin DOMAIN FnById(profile)
  <2>1. FunctionOf(ln.function_id) = {}
        BY <1>2, FunctionJoined
  <2>. QED BY <1>2, <2>1 DEF JoinLine, LineFrame, Frame
<1>. QED BY <1>1, <1>2

LEMMA LocationIsJoin ==
  ASSUME profile \in ProfileType, NEW id
  PROVE  FramesFor(profile, id) = JoinLocation(id)
<1>0. \A a : Frame(None, None, None, a) = AddressOnly(a)
      BY DEF Frame, AddressOnly
<1>1. CASE id \in DOMAIN LocById(profile)
  <2>1. PICK n \in DOMAIN profile.location : n = LocById(profile)[id]
        BY <1>1, LocationJoined
  <2>2. PICK loc \in LocationType : loc = profile.location[n]
    <3>1. profile.location \in Seq(LocationType)
          BY DEF ProfileType
    <3>. QED BY <3>1
  <2>3. LocationOf(id) = {Locations(profile)[n]}
        BY <1>1, <2>1, LocationJoined
  <2>4. PICK l : l = CHOOSE x \in LocationOf(id) : TRUE
        OBVIOUS
  <2>5. l = Locations(profile)[n]
        BY <2>3, <2>4
  <2>6. l.address = loc.address /\ l.lines = loc.line
        BY <2>2, <2>5 DEF Locations
  <2>7. LocationOf(id) # {}
        BY <2>3
  <2>8. JoinLocation(id) = IF loc.line = <<>> THEN <<AddressOnly(loc.address)>>
                           ELSE [x \in DOMAIN loc.line |-> JoinLine(l, loc.line[x])]
        BY <2>4, <2>6, <2>7, Zenon DEF JoinLocation
  <2>9. FramesFor(profile, id) =
          IF loc.line = <<>> THEN <<Frame(None, None, None, loc.address)>>
          ELSE [x \in 1..Len(loc.line) |-> LineFrame(profile, loc, loc.line[x])]
        BY <1>1, <2>1, <2>2, Zenon DEF FramesFor
  <2>10. DOMAIN loc.line = 1..Len(loc.line)
         BY DEF LocationType
  <2>11. \A x : JoinLine(l, loc.line[x]) = LineFrame(profile, loc, loc.line[x])
         BY <2>6, LineJoined
  <2>12. [x \in DOMAIN loc.line |-> JoinLine(l, loc.line[x])]
           = [x \in 1..Len(loc.line) |-> LineFrame(profile, loc, loc.line[x])]
         BY <2>10, <2>11, Zenon
  <2>. QED BY <1>0, <2>8, <2>9, <2>12, Zenon
<1>2. CASE id \notin DOMAIN LocById(profile)
  <2>1. LocationOf(id) = {}
        BY <1>2, LocationJoined
  <2>. QED BY <1>0, <1>2, <2>1 DEF FramesFor, JoinLocation
<1>. QED BY <1>1, <1>2

\* Flattening the frames of the location ids is appending them one after another.
LEMMA FlattenIsStack ==
  ASSUME NEW p \in ProfileType, NEW ids \in Seq(Nat), NEW parts,
         parts = [m \in DOMAIN ids |-> FramesFor(p, ids[m])]
  PROVE  FlattenSeq(parts) = StackOf(p, ids)
<1>1. PICK N \in Nat : N = Len(ids) /\ DOMAIN ids = 1..N
      OBVIOUS
<1>2. \A n \in 1..N : parts[n] = FramesFor(p, ids[n]) /\ parts[n] \in Seq(FrameType)
      BY <1>1, FramesForGrows
<1>3. parts \in Seq(Seq(FrameType)) /\ Len(parts) = N
  <2>1. parts = [n \in 1..N |-> parts[n]]
        BY <1>1
  <2>. QED BY <1>1, <1>2, <2>1
<1>4. PICK out : out = FramesUpTo(p, ids)
      OBVIOUS
<1>5. /\ out[0] = <<>> /\ StackOf(p, ids) = out[N]
      /\ \A n \in 1..N : out[n] = out[n-1] \o parts[n]
      BY <1>1, <1>2, <1>4, FramesUpToStep
<1>6. Flattens(out, parts)
      BY <1>3, <1>5 DEF Flattens
<1>. QED BY <1>3, <1>5, <1>6, FlattenUnfolds

\* The loops are at a prefix of what the view's operators collect.
Flattened ==
  /\ phase = "frames" =>
       /\ j <= Len(Sample.location_id) + 1
       /\ frames = FramesUpTo(profile, Sample.location_id)[j-1]
  /\ phase = "labels" =>
       /\ k <= Len(Sample.label) + 1
       /\ frames = StackOf(profile, Sample.location_id)
       /\ labels = LabelsUpTo(profile, Sample)[k-1]
  /\ \A n \in DOMAIN rows :
       /\ n \in DOMAIN profile.sample
       /\ rows[n] = [sample_id |-> n, value |-> profile.sample[n].value,
                     labels    |-> Labels(profile, profile.sample[n]),
                     frames    |-> StackOf(profile, profile.sample[n].location_id)]
  /\ phase = "done" => i > Len(profile.sample)

LEMMA FlattenedInit == Init => Flattened
BY DEF Init, Flattened

\* What is known of the sample a loop is in.
LEMMA SampleFacts ==
  ASSUME TypeOK, i <= Len(profile.sample)
  PROVE  /\ Sample \in SampleType /\ i \in DOMAIN profile.sample
         /\ Sample.location_id \in Seq(Nat) /\ Len(Sample.location_id) \in Nat
         /\ Len(Sample.label) \in Nat
<1>1. Sample \in SampleType
      BY SampleTyped
<1>2. i \in DOMAIN profile.sample
      BY DEF TypeOK, ProfileType
<1>. QED BY <1>1, <1>2 DEF SampleType

LEMMA FlattenedStep == ASSUME TypeOK, Flattened, [Next]_vars PROVE Flattened'
<1>1. CASE BeginSample
  <2>1. /\ phase' = "frames" /\ j' = 1 /\ frames' = <<>> /\ Sample' = Sample
        /\ i <= Len(profile.sample) /\ UNCHANGED <<profile, i, rows>>
        BY <1>1 DEF BeginSample, Sample
  <2>2. /\ FramesUpTo(profile, Sample.location_id)[0] = <<>>
        /\ Len(Sample.location_id) \in Nat
        BY <2>1, SampleFacts, FramesUpToStep DEF TypeOK
  <2>3. j' - 1 = 0 /\ j' <= Len(Sample.location_id) + 1
        BY <2>1, <2>2
  <2>. QED BY <2>1, <2>2, <2>3 DEF Flattened
<1>2. CASE PushFrames
  <2>1. /\ frames' = frames \o FramesFor(profile, Sample.location_id[j])
        /\ j' = j + 1 /\ Sample' = Sample /\ phase = "frames"
        /\ j <= Len(Sample.location_id) /\ i <= Len(profile.sample)
        /\ UNCHANGED <<profile, phase, i, k, labels, rows>>
        BY <1>2 DEF PushFrames, TypeOK, Sample
  <2>2. PICK ids \in Seq(Nat) : ids = Sample.location_id /\ Len(ids) \in Nat
        BY <2>1, SampleFacts
  <2>3. j \in 1..Len(ids) /\ j' - 1 = j /\ j' <= Len(ids) + 1
        BY <2>1, <2>2 DEF TypeOK
  <2>4. FramesUpTo(profile, ids)[j] = FramesUpTo(profile, ids)[j-1] \o FramesFor(profile, ids[j])
        BY <2>2, <2>3, FramesUpToStep DEF TypeOK
  <2>5. frames = FramesUpTo(profile, ids)[j-1]
        BY <2>1, <2>2 DEF Flattened
  <2>. QED BY <2>1, <2>2, <2>3, <2>4, <2>5 DEF Flattened
<1>3. CASE FramesDone
  <2>1. /\ phase = "frames" /\ phase' = "labels" /\ k' = 1 /\ labels' = <<>>
        /\ j > Len(Sample.location_id) /\ Sample' = Sample /\ i <= Len(profile.sample)
        /\ UNCHANGED <<profile, i, j, frames, rows>>
        BY <1>3 DEF FramesDone, TypeOK, Sample
  <2>2. PICK ids \in Seq(Nat) : ids = Sample.location_id /\ Len(ids) \in Nat
        BY <2>1, SampleFacts
  <2>3. j <= Len(ids) + 1 /\ frames = FramesUpTo(profile, ids)[j-1]
        BY <2>1, <2>2 DEF Flattened
  <2>4. j - 1 = Len(ids)
        BY <2>1, <2>2, <2>3 DEF TypeOK
  <2>5. frames = StackOf(profile, ids)
        BY <2>2, <2>3, <2>4, FramesUpToStep DEF TypeOK
  <2>6. LabelsUpTo(profile, Sample)[0] = <<>> /\ Len(Sample.label) \in Nat
        BY <2>1, SampleFacts, LabelsUpToStep DEF TypeOK
  <2>7. k' - 1 = 0 /\ k' <= Len(Sample.label) + 1
        BY <2>1, <2>6
  <2>. QED BY <2>1, <2>2, <2>5, <2>6, <2>7 DEF Flattened
<1>4. CASE PushLabel
  <2>1. /\ labels' = AddLabel(profile, labels, Sample.label[k]) /\ k' = k + 1
        /\ Sample' = Sample /\ phase = "labels" /\ k <= Len(Sample.label)
        /\ i <= Len(profile.sample) /\ UNCHANGED <<profile, phase, i, j, frames, rows>>
        BY <1>4 DEF PushLabel, TypeOK, Sample
  <2>2. PICK s \in SampleType : s = Sample /\ Len(s.label) \in Nat
        BY <2>1, SampleFacts
  <2>3. k \in 1..Len(s.label) /\ k' - 1 = k /\ k' <= Len(s.label) + 1
        BY <2>1, <2>2 DEF TypeOK
  <2>4. LabelsUpTo(profile, s)[k] = AddLabel(profile, LabelsUpTo(profile, s)[k-1], s.label[k])
        BY <2>2, <2>3, LabelsUpToStep DEF TypeOK
  <2>5. labels = LabelsUpTo(profile, s)[k-1] /\ frames = StackOf(profile, s.location_id)
        BY <2>1, <2>2 DEF Flattened
  <2>. QED BY <2>1, <2>2, <2>3, <2>4, <2>5 DEF Flattened
<1>5. CASE EmitRow
  <2>1. /\ rows' = Append(rows, [sample_id |-> i, value |-> Sample.value,
                                 labels |-> labels, frames |-> frames])
        /\ phase = "labels" /\ phase' = "sample" /\ k > Len(Sample.label)
        /\ i <= Len(profile.sample) /\ profile' = profile
        BY <1>5 DEF EmitRow, TypeOK
  <2>2. PICK s \in SampleType : s = Sample /\ Len(s.label) \in Nat
        BY <2>1, SampleFacts
  <2>3. /\ k <= Len(s.label) + 1 /\ labels = LabelsUpTo(profile, s)[k-1]
        /\ frames = StackOf(profile, s.location_id)
        BY <2>1, <2>2 DEF Flattened
  <2>4. k - 1 = Len(s.label)
    <3>1. Len(s.label) \in Nat /\ k \in Nat /\ k <= Len(s.label) + 1 /\ k > Len(s.label)
          BY <2>1, <2>2, <2>3 DEF TypeOK
    <3>. QED BY <3>1
  <2>5. labels = Labels(profile, s)
        BY <2>2, <2>3, <2>4, LabelsUpToStep DEF TypeOK
  <2>6. PICK row : row = [sample_id |-> i, value |-> s.value, labels |-> Labels(profile, s),
                          frames |-> StackOf(profile, s.location_id)]
        OBVIOUS
  <2>7. rows' = Append(rows, row)
        BY <2>1, <2>2, <2>3, <2>5, <2>6
  <2>8. /\ DOMAIN Append(rows, row) = DOMAIN rows \cup {i}
        /\ \A n \in DOMAIN rows : Append(rows, row)[n] = rows[n]
        /\ Append(rows, row)[i] = row
        BY DEF TypeOK
  <2>9. i \in DOMAIN profile.sample /\ s = profile.sample[i]
        BY <2>1, <2>2, SampleFacts DEF Sample
  <2>. QED BY <2>1, <2>6, <2>7, <2>8, <2>9 DEF Flattened
<1>6. CASE Finish
      BY <1>6 DEF Finish, Flattened
<1>7. CASE UNCHANGED vars
      BY <1>7 DEF vars, Flattened, Sample
<1>. QED BY <1>1, <1>2, <1>3, <1>4, <1>5, <1>6, <1>7 DEF Next

LEMMA FlattenedMeansJoin == ASSUME TypeOK, Flattened PROVE StacksAgreeWithJoin
<1>. SUFFICES ASSUME phase = "done"
              PROVE  /\ rows = Stacks(profile)
                     /\ rows = [n \in DOMAIN Samples(profile) |->
                          LET s == Samples(profile)[n]
                          IN  [sample_id |-> s.sample_id, value |-> s.value, labels |-> s.labels,
                               frames |-> FlattenSeq([m \in DOMAIN s.location_ids |->
                                                        JoinLocation(s.location_ids[m])])]]
     BY Zenon DEF StacksAgreeWithJoin
<1>1. /\ profile \in ProfileType /\ profile.sample \in Seq(SampleType)
      /\ rows \in Seq(RowType) /\ Len(rows) = i - 1 /\ i \in Nat \ {0}
      /\ i > Len(profile.sample)
      BY DEF TypeOK, ProfileType, Flattened
<1>2. PICK N \in Nat : N = Len(profile.sample) /\ DOMAIN profile.sample = 1..N
      BY <1>1
<1>3. Len(rows) = N
  <2>1. i - 1 <= N
    <3>1. CASE i = 1
          BY <1>2, <3>1
    <3>2. CASE i # 1
      <4>1. i - 1 \in DOMAIN rows
            BY <1>1, <3>2
      <4>2. i - 1 \in 1..N
            BY <1>2, <4>1 DEF Flattened
      <4>. QED BY <4>2
    <3>. QED BY <3>1, <3>2
  <2>. QED BY <1>1, <1>2, <2>1
<1> DEFINE View(n) == [sample_id |-> n, value |-> profile.sample[n].value,
                       labels    |-> Labels(profile, profile.sample[n]),
                       frames    |-> StackOf(profile, profile.sample[n].location_id)]
<1>4. rows = [n \in 1..N |-> View(n)]
  <2>1. rows = [n \in 1..N |-> rows[n]]
        BY <1>1, <1>3
  <2>2. \A n \in 1..N : n \in DOMAIN rows
        BY <1>1, <1>3
  <2>3. \A n \in 1..N : rows[n] = View(n)
        BY <2>2 DEF Flattened
  <2>. HIDE DEF View
  <2>. QED BY <2>1, <2>3, Zenon
<1>5. rows = Stacks(profile)
      BY <1>2, <1>4 DEF Stacks
<1>6. ASSUME NEW n \in 1..N
      PROVE  LET s == Samples(profile)[n]
             IN  View(n) = [sample_id |-> s.sample_id, value |-> s.value, labels |-> s.labels,
                            frames |-> FlattenSeq([m \in DOMAIN s.location_ids |->
                                                     JoinLocation(s.location_ids[m])])]
  <2>1. PICK s : s = Samples(profile)[n]
        OBVIOUS
  <2>2. s = [sample_id |-> n, location_ids |-> profile.sample[n].location_id,
             value |-> profile.sample[n].value, labels |-> Labels(profile, profile.sample[n])]
        BY <1>2, <2>1 DEF Samples
  <2>3. PICK ids \in Seq(Nat) : ids = profile.sample[n].location_id
    <3>1. profile.sample[n] \in SampleType
          BY <1>1, <1>2
    <3>. QED BY <3>1 DEF SampleType
  <2>4. PICK parts : parts = [m \in DOMAIN ids |-> FramesFor(profile, ids[m])]
        OBVIOUS
  <2>5. FlattenSeq(parts) = StackOf(profile, ids)
        BY <1>1, <2>3, <2>4, FlattenIsStack
  <2>6. parts = [m \in DOMAIN ids |-> JoinLocation(ids[m])]
    <3>1. \A m \in DOMAIN ids : FramesFor(profile, ids[m]) = JoinLocation(ids[m])
          BY <1>1, LocationIsJoin
    <3>. QED BY <2>4, <3>1, Zenon
  <2>7. s.location_ids = ids /\ s.sample_id = n /\ s.value = profile.sample[n].value
        /\ s.labels = Labels(profile, profile.sample[n])
        BY <2>2, <2>3
  <2>8. FlattenSeq([m \in DOMAIN s.location_ids |-> JoinLocation(s.location_ids[m])])
          = StackOf(profile, profile.sample[n].location_id)
        BY <2>3, <2>5, <2>6, <2>7, Zenon
  <2>. QED BY <2>1, <2>7, <2>8, Zenon
<1>7. DOMAIN Samples(profile) = 1..N
      BY <1>2 DEF Samples
<1>. HIDE DEF View
<1>. QED BY <1>4, <1>5, <1>6, <1>7, Zenon

\* The loops of stacks() compute the join of the raw views: the frames of every sample
\* are those its location ids name through locations and functions, in order, whatever
\* ids dangle or repeat (lib.rs:28-32, 97-109, 240-279).
THEOREM StacksAreTheJoin == Spec => []StacksAgreeWithJoin
<1>1. TypeOK /\ Flattened /\ [Next]_vars => Flattened'
      BY FlattenedStep
<1>2. TypeOK /\ Flattened => StacksAgreeWithJoin
      BY FlattenedMeansJoin
<1>. QED BY <1>1, <1>2, FlattenedInit, StackTypes, PTL DEF Spec
=============================================================================
