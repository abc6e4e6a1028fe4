------------------------------ MODULE MCTables ------------------------------
(***************************************************************************)
(* Batches of up to three files: a profile with something in every table,  *)
(* an empty one, and the failures.  Three full profiles reach the limit    *)
(* exactly in the nested columns or the texts of some tables, in others    *)
(* their file names pass it, and three messages reach it; two files never  *)
(* overflow anything.                                                      *)
(***************************************************************************)
EXTENDS Tables

CONSTANTS full, empty

FullProfile ==
  [strings  |-> <<"", "f", "go.bin", "cpu">>,
   sample   |-> <<[location_id |-> <<1, 2>>, value |-> <<1, 10>>,
                   label |-> <<[key |-> 3, str |-> 1, num |-> 0, num_unit |-> 0]>>],
                  [location_id |-> <<3>>, value |-> <<2>>, label |-> <<>>]>>,
   location |-> <<[id |-> 1, address |-> 16, mapping_id |-> 1,
                   line |-> <<[function_id |-> 1, line |-> 7]>>],
                  [id |-> 2, address |-> 32, mapping_id |-> 1, line |-> <<>>]>>,
   function |-> <<[id |-> 1, name |-> 1, system_name |-> 0, filename |-> 2,
                   start_line |-> 5]>>,
   mapping  |-> <<[id |-> 1, memory_start |-> 0, memory_limit |-> 64, file_offset |-> 8,
                   filename |-> 2, build_id |-> 0]>>,
   sample_type |-> <<[type |-> 3, unit |-> 0], [type |-> 1, unit |-> 3]>>,
   period_type |-> [type |-> 3, unit |-> 9], default_sample_type |-> 3,
   period |-> 100, duration_nanos |-> 9, time_nanos |-> 0]

EmptyProfile ==
  [strings |-> <<>>, sample |-> <<>>, location |-> <<>>, function |-> <<>>,
   mapping |-> <<>>, sample_type |-> <<>>, period_type |-> None,
   default_sample_type |-> 0, period |-> 0, duration_nanos |-> 0, time_nanos |-> 0]

MCProfiles == {full, empty}
MCMessage  == [p \in MCProfiles |-> IF p = full THEN FullProfile ELSE EmptyProfile]

\* Most texts are short next to the limit.
MCSize(text) == CASE text = "" -> 0
                  [] text \in {"go.bin", "decode"} -> 3
                  [] text \in {"b", "cpu"} -> 2
                  [] OTHER -> 1

\* What resolve returns: one inline unit, or a unit per path.
Ok(p)  == [ok |-> TRUE, value |-> p]
Err(m) == [ok |-> FALSE, value |-> m]
Inline == {[file |-> NoFile, result |-> x] :
             x \in {Ok(p) : p \in MCProfiles} \cup {Err("gunzip")}}
OfPath == {[file |-> f, result |-> x] : f \in {"a", "b"},
             x \in {Ok(p) : p \in MCProfiles} \cup {Err("read"), Err("decode")}}
MCUnitLists == {<<x>> : x \in Inline} \cup UNION {[1..m -> OfPath] : m \in 0..3}
=============================================================================
