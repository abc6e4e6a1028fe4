------------------------------ MODULE MCStacks ------------------------------
(***************************************************************************)
(* Small profiles for StackFlatten.  String indexes -3 and 9 are outside   *)
(* every table; id 3 is defined by no location, id 2 possibly by no        *)
(* function; ids may repeat.                                               *)
(***************************************************************************)
EXTENDS StackRef

Upto(S, n) == UNION {[1..m -> S] : m \in 0..n}

Prof(strings, sample, location, function) ==
  [strings |-> strings, sample |-> sample, location |-> location,
   function |-> function, mapping |-> <<>>, sample_type |-> <<>>,
   period_type |-> None, default_sample_type |-> 0,
   period |-> 0, duration_nanos |-> 0, time_nanos |-> 0]

SampleOf(ids, value, label) == [location_id |-> ids, value |-> value, label |-> label]

\* Stacks: every location and function table of at most two entries.
LineTables == {<<>>, <<[function_id |-> 1, line |-> 7]>>,
               <<[function_id |-> 2, line |-> 8], [function_id |-> 1, line |-> 0]>>}
LocationTables ==
  {[n \in DOMAIN t |-> [id |-> t[n][1], address |-> 10 * n, mapping_id |-> 1,
                        line |-> t[n][2]]] :
     t \in Upto({1, 2} \X LineTables, 2)}
FunctionTables ==
  {[n \in DOMAIN t |-> [id |-> t[n][1], name |-> t[n][2], system_name |-> t[n][2],
                        filename |-> 1, start_line |-> n]] :
     t \in Upto({1, 2} \X {0, 2, 9}, 2) \cup Upto({1, 2} \X {-3}, 1)}
MCStackProfiles ==
  {Prof(<<"", "f", "g">>, <<SampleOf(ids, <<1>>, <<>>), SampleOf(<<1>>, <<2>>, <<>>)>>, ls, fs) :
     ids \in Upto(1..3, 2), ls \in LocationTables, fs \in FunctionTables}

\* Labels: up to three of them; "k" is interned twice, "" stands for no key.
AnyLabel == {[key |-> key, str |-> v[1], num |-> 5, num_unit |-> v[2]] :
               key \in {0, 1, 3, 9}, v \in {<<0, 0>>, <<0, 2>>, <<1, 0>>, <<9, 2>>}}
MCLabelProfiles ==
  {Prof(<<"", "k", "u", "k">>, <<SampleOf(<<>>, <<1>>, ls)>>, <<>>, <<>>) :
     ls \in Upto(AnyLabel, 3)}
    \cup
  {Prof(<<"", "k", "u", "k">>, <<SampleOf(<<>>, <<1>>, <<l>>), SampleOf(<<>>, <<2>>, <<m>>)>>,
        <<>>, <<>>) : l \in AnyLabel, m \in AnyLabel}

MCProfiles == MCStackProfiles \cup MCLabelProfiles
=============================================================================
