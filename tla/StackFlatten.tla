---------------------------- MODULE StackFlatten ----------------------------
(***************************************************************************)
(* Decoded::stacks and the loops it runs, one iteration a step: the outer  *)
(* loop over samples, frames_for over a sample's location ids, and the     *)
(* de-duplicating loop of labels.                                          *)
(***************************************************************************)
EXTENDS PprofCore

CONSTANT Profiles   \* the profiles from_bytes may have decoded

ASSUME ProfilesAssumption == Profiles \subseteq ProfileType

VARIABLES
  profile,  \* self.profile
  phase,    \* "sample" (top of the outer loop), "frames", "labels", "done"
  i, j, k,  \* next sample, location id and label, counted from 1
  frames,   \* the frames of sample i so far
  labels,   \* its labels so far
  rows      \* the rows collected so far

vars == <<profile, phase, i, j, k, frames, labels, rows>>

RowType == [sample_id : Nat, value : Seq(Int), labels : Seq(PairType),
            frames : Seq(FrameType)]

TypeOK ==
  /\ profile \in ProfileType
  /\ phase \in {"sample", "frames", "labels", "done"}
  /\ i \in Nat \ {0} /\ j \in Nat \ {0} /\ k \in Nat \ {0}
  /\ phase \in {"frames", "labels"} => i <= Len(profile.sample)
  /\ frames \in Seq(FrameType) /\ labels \in Seq(PairType)
  /\ rows \in Seq(RowType) /\ Len(rows) = i - 1

Init ==
  /\ profile \in Profiles
  /\ phase = "sample" /\ i = 1 /\ j = 1 /\ k = 1
  /\ frames = <<>> /\ labels = <<>> /\ rows = <<>>

Sample == profile.sample[i]

BeginSample ==
  /\ phase = "sample" /\ i <= Len(profile.sample)
  /\ phase' = "frames" /\ j' = 1 /\ frames' = <<>>
  /\ UNCHANGED <<profile, i, k, labels, rows>>

PushFrames ==
  /\ phase = "frames" /\ j <= Len(Sample.location_id)
  /\ frames' = frames \o FramesFor(profile, Sample.location_id[j])
  /\ j' = j + 1
  /\ UNCHANGED <<profile, phase, i, k, labels, rows>>

FramesDone ==
  /\ phase = "frames" /\ j > Len(Sample.location_id)
  /\ phase' = "labels" /\ k' = 1 /\ labels' = <<>>
  /\ UNCHANGED <<profile, i, j, frames, rows>>

PushLabel ==
  /\ phase = "labels" /\ k <= Len(Sample.label)
  /\ labels' = AddLabel(profile, labels, Sample.label[k])
  /\ k' = k + 1
  /\ UNCHANGED <<profile, phase, i, j, frames, rows>>

\* Faulty variant: a sample without frames has no row.
EmitRowUnlessEmpty ==
  /\ phase = "labels" /\ k > Len(Sample.label)
  /\ rows' = IF frames = <<>> THEN rows
             ELSE Append(rows, [sample_id |-> i, value |-> Sample.value,
                                labels |-> labels, frames |-> frames])
  /\ i' = i + 1 /\ phase' = "sample"
  /\ UNCHANGED <<profile, j, k, frames, labels>>

\* The row of sample i is collected; an empty stack is an empty list.
EmitRow ==
  /\ phase = "labels" /\ k > Len(Sample.label)
  /\ rows' = Append(rows, [sample_id |-> i, value |-> Sample.value,
                           labels |-> labels, frames |-> frames])
  /\ i' = i + 1 /\ phase' = "sample"
  /\ UNCHANGED <<profile, j, k, frames, labels>>

Finish ==
  /\ phase = "sample" /\ i > Len(profile.sample)
  /\ phase' = "done"
  /\ UNCHANGED <<profile, i, j, k, frames, labels, rows>>

Next == BeginSample \/ PushFrames \/ FramesDone \/ PushLabel \/ EmitRow \/ Finish

Spec == Init /\ [][Next]_vars /\ WF_vars(Next)

-------------------------------------------------------------------------------
Distinct(ls) == \A m, n \in DOMAIN ls : ls[m].key = ls[n].key => m = n

\* No MAP ever holds a key twice: map_col relies on it (arrow_build.rs:181).
LabelKeysAreUnique ==
  Distinct(labels) /\ \A r \in DOMAIN rows : Distinct(rows[r].labels)

\* ls is what the first m labels of a sample come to: the first label of every key,
\* in their order.
IsFirst(p, lbl, n) == \A o \in 1..(n - 1) : LabelKey(p, lbl[o]) # LabelKey(p, lbl[n])

FirstLabels(p, lbl, m, ls) ==
  \E place \in [DOMAIN ls -> 1..m] :
    /\ \A x, y \in DOMAIN ls : x < y => place[x] < place[y]
    /\ \A n \in 1..m : IsFirst(p, lbl, n) => \E x \in DOMAIN ls : place[x] = n
    /\ \A x \in DOMAIN ls :
         /\ IsFirst(p, lbl, place[x])
         /\ ls[x] = [key |-> LabelKey(p, lbl[place[x]]), value |-> LabelValue(p, lbl[place[x]])]

\* The labels of a row are, for every key its sample uses, the value of the first
\* label with that key, in the order the keys first appear (lib.rs:232-236).
FirstLabelWins ==
  /\ phase = "labels" => FirstLabels(profile, Sample.label, k - 1, labels)
  /\ \A r \in DOMAIN rows :
       LET lbl == profile.sample[r].label
       IN  FirstLabels(profile, lbl, Len(lbl), rows[r].labels)

\* Every location id of a sample leaves at least one frame in its stack, even one
\* that dangles or has no line table (lib.rs:255-267), so that the depth of a
\* stack never shrinks below its raw sample's.
LocationsKeepTheirSlots ==
  /\ phase = "frames" => Len(frames) >= j - 1
  /\ phase = "labels" => Len(frames) >= Len(Sample.location_id)
  /\ \A r \in DOMAIN rows :
       Len(rows[r].frames) >= Len(profile.sample[r].location_id)

\* The index of a function's name outside the table, below or past it and whatever its
\* size, resolves to nothing: the functions view has no name for it, and the function of
\* a frame is the name of one whose index lies in the table (lib.rs:212-213).
InTable(p, idx) == idx \in 1..(Len(p.strings) - 1)

NameOfFunction(p, name) ==
  \E n \in DOMAIN p.function :
    LET idx == p.function[n].name IN InTable(p, idx) /\ p.strings[idx + 1] = name

FramesResolve(p, fs) ==
  \A m \in DOMAIN fs : fs[m].function # None => NameOfFunction(p, fs[m].function)

OutOfRangeIsUnresolved ==
  /\ \A n \in DOMAIN profile.function :
       ~InTable(profile, profile.function[n].name) => Functions(profile)[n].name = None
  /\ \A r \in DOMAIN rows : FramesResolve(profile, rows[r].frames)

\* A usize holds every index there is, as 64 bits hold an i64.
IndexesFit ==
  \A p \in Profiles : \A n \in DOMAIN p.function : p.function[n].name < UsizeRange
=============================================================================
