------------------------------ MODULE PprofCore ------------------------------
(***************************************************************************)
(* A decoded profile and the resolvers pprof-core flattens it with.        *)
(*                                                                         *)
(* A profile is the protobuf message as a record of sequences; strings are *)
(* only ever named by their index in its string table.  The six views are  *)
(* the operators Stacks (and StackFlatten, loop by loop), Samples,         *)
(* Functions, Locations, Mappings and Meta.                                *)
(***************************************************************************)
EXTENDS Integers, Sequences

CONSTANTS None,        \* Option::None
          UsizeRange   \* 2^w for the w-bit usize of the build (wasm32, 64-bit)

ASSUME UsizeAssumption == UsizeRange \in Nat \ {0}

\* The messages of profile.proto; ids and addresses are u64, everything else i64.
Text          == STRING \cup {""}
LineType      == [function_id : Nat, line : Int]
LocationType  == [id : Nat, address : Nat, mapping_id : Nat, line : Seq(LineType)]
FunctionType  == [id : Nat, name : Int, system_name : Int, filename : Int,
                  start_line : Int]
MappingType   == [id : Nat, memory_start : Nat, memory_limit : Nat, file_offset : Nat,
                  filename : Int, build_id : Int]
LabelType     == [key : Int, str : Int, num : Int, num_unit : Int]
SampleType    == [location_id : Seq(Nat), value : Seq(Int), label : Seq(LabelType)]
ValueTypeType == [type : Int, unit : Int]
ProfileType   ==
  [strings : Seq(Text), sample : Seq(SampleType), location : Seq(LocationType),
   function : Seq(FunctionType), mapping : Seq(MappingType),
   sample_type : Seq(ValueTypeType), period_type : ValueTypeType \cup {None},
   default_sample_type : Int, period : Int, duration_nanos : Int, time_nanos : Int]

\* What the views hold.
OptString == Text \cup {None}
FrameType == [function : OptString, filename : OptString, line : Int \cup {None},
              address : Nat]
PairType  == [key : Text,
              value : [text : Text, num : Int \cup {None}, unit : OptString]]

\* `idx as usize` of a non-negative i64 keeps its low bits.
AsUsize(idx) == idx % UsizeRange

\* Faulty variant: an index past the table is the last entry.
StrClamped(p, idx) ==
  IF idx > 0 /\ p.strings # <<>>
  THEN LET n == IF AsUsize(idx) < Len(p.strings) THEN AsUsize(idx) + 1 ELSE Len(p.strings)
       IN  IF p.strings[n] = "" THEN None ELSE p.strings[n]
  ELSE None

\* Decoded::str: index 0, an index past the table and an empty entry are None.
\* The table is counted from 0 in the code, from 1 here.
Str(p, idx) ==
  LET n == AsUsize(idx) + 1
  IN  IF idx > 0 /\ n <= Len(p.strings) THEN IF p.strings[n] = "" THEN None
                                             ELSE p.strings[n]
      ELSE None

OrEmpty(s) == IF s = None THEN "" ELSE s

\* Faulty variant: entry().or_insert, so that the first entry counts.
IndexByIdFirst(entries) ==
  [id \in {entries[n].id : n \in DOMAIN entries} |->
     CHOOSE n \in DOMAIN entries :
       /\ entries[n].id = id
       /\ \A m \in DOMAIN entries : entries[m].id = id => m >= n]

\* HashMap collect over (id, position): a later entry replaces an earlier one.
IndexById(entries) ==
  [id \in {entries[n].id : n \in DOMAIN entries} |->
     CHOOSE n \in DOMAIN entries :
       /\ entries[n].id = id
       /\ \A m \in DOMAIN entries : entries[m].id = id => m <= n]

LocById(p) == IndexById(p.location)
FnById(p)  == IndexById(p.function)

Frame(function, filename, line, address) ==
  [function |-> function, filename |-> filename, line |-> line, address |-> address]

\* The frame of one line of a location's line table: a dangling function id
\* leaves the names None and keeps the line and the address.
LineFrame(p, loc, ln) ==
  IF ln.function_id \in DOMAIN FnById(p)
  THEN LET f == p.function[FnById(p)[ln.function_id]]
       IN  Frame(Str(p, f.name), Str(p, f.filename), ln.line, loc.address)
  ELSE Frame(None, None, ln.line, loc.address)

\* Faulty variant: a location with no line table gives no frame.
FramesForLinesOnly(p, id) ==
  IF id \notin DOMAIN LocById(p) THEN <<Frame(None, None, None, 0)>>
  ELSE LET loc == p.location[LocById(p)[id]]
       IN  [n \in 1..Len(loc.line) |-> LineFrame(p, loc, loc.line[n])]

\* frames_for: what one location id appends to the stack.
FramesFor(p, id) ==
  IF id \notin DOMAIN LocById(p) THEN <<Frame(None, None, None, 0)>>
  ELSE LET loc == p.location[LocById(p)[id]]
       IN  IF loc.line = <<>> THEN <<Frame(None, None, None, loc.address)>>
           ELSE [n \in 1..Len(loc.line) |-> LineFrame(p, loc, loc.line[n])]

\* labels: the pair one label stands for.  A number is rendered with its unit,
\* if it resolves; str # 0 makes it a string label even when str is dangling.
LabelKey(p, lbl) == OrEmpty(Str(p, lbl.key))
LabelValue(p, lbl) ==
  IF lbl.str # 0 THEN [text |-> OrEmpty(Str(p, lbl.str)), num |-> None, unit |-> None]
  ELSE [text |-> "", num |-> lbl.num, unit |-> Str(p, lbl.num_unit)]

\* Faulty variants: no check for a taken key; the later value replaces the first.
AddLabelUnchecked(p, out, lbl) ==
  Append(out, [key |-> LabelKey(p, lbl), value |-> LabelValue(p, lbl)])

AddLabelReplaces(p, out, lbl) ==
  LET pair == [key |-> LabelKey(p, lbl), value |-> LabelValue(p, lbl)]
  IN  IF \E n \in DOMAIN out : out[n].key = pair.key
      THEN [n \in DOMAIN out |-> IF out[n].key = pair.key THEN pair ELSE out[n]]
      ELSE Append(out, pair)

\* The loop body of labels: the pair is pushed unless its key is taken.
AddLabel(p, out, lbl) ==
  IF \E n \in DOMAIN out : out[n].key = LabelKey(p, lbl) THEN out
  ELSE Append(out, [key |-> LabelKey(p, lbl), value |-> LabelValue(p, lbl)])

\* The whole loop, over the first n labels of a sample.
Labels(p, sample) ==
  LET out[n \in 0..Len(sample.label)] ==
        IF n = 0 THEN <<>> ELSE AddLabel(p, out[n-1], sample.label[n])
  IN  out[Len(sample.label)]

ValueType(p, vt) == [type |-> OrEmpty(Str(p, vt.type)), unit |-> OrEmpty(Str(p, vt.unit))]

-------------------------------------------------------------------------------
\* The flattened view, as StackFlatten computes it step by step.
StackOf(p, ids) ==
  LET out[n \in 0..Len(ids)] == IF n = 0 THEN <<>> ELSE out[n-1] \o FramesFor(p, ids[n])
  IN  out[Len(ids)]

Stacks(p) ==
  [i \in DOMAIN p.sample |->
     [sample_id |-> i, value |-> p.sample[i].value,
      labels    |-> Labels(p, p.sample[i]), frames |-> StackOf(p, p.sample[i].location_id)]]

\* The raw views: one row per element, in order, ids and numbers passed through.
Samples(p) ==
  [i \in DOMAIN p.sample |->
     [sample_id    |-> i,
      location_ids |-> p.sample[i].location_id,
      value        |-> p.sample[i].value,
      labels       |-> Labels(p, p.sample[i])]]

Functions(p) ==
  [i \in DOMAIN p.function |->
     LET f == p.function[i]
     IN  [function_id |-> f.id, name |-> Str(p, f.name),
          system_name |-> Str(p, f.system_name), filename |-> Str(p, f.filename),
          start_line  |-> f.start_line]]

Locations(p) ==
  [i \in DOMAIN p.location |->
     LET l == p.location[i]
     IN  [location_id |-> l.id, address |-> l.address, mapping_id |-> l.mapping_id,
          lines |-> l.line]]

Mappings(p) ==
  [i \in DOMAIN p.mapping |->
     LET m == p.mapping[i]
     IN  [mapping_id |-> m.id, memory_start |-> m.memory_start,
          memory_limit |-> m.memory_limit, file_offset |-> m.file_offset,
          filename |-> Str(p, m.filename), build_id |-> Str(p, m.build_id)]]

Meta(p) ==
  [sample_types |-> [i \in DOMAIN p.sample_type |-> ValueType(p, p.sample_type[i])],
   period_type  |-> IF p.period_type = None THEN None ELSE ValueType(p, p.period_type),
   default_sample_type |-> Str(p, p.default_sample_type),
   period |-> p.period, duration_nanos |-> p.duration_nanos, time_nanos |-> p.time_nanos]
==============================================================================
