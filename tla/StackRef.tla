------------------------------ MODULE StackRef ------------------------------
(***************************************************************************)
(* The stacks view said relationally: the join of the samples, locations   *)
(* and functions views that the headline view saves its users.             *)
(***************************************************************************)
EXTENDS StackFlatten, SequencesExt

\* The rows of a view with that id; ids are meant to be unique, and of rows that
\* share one the last counts.
LastWith(view, Key(_), id) ==
  LET ns == {n \in DOMAIN view : Key(view[n]) = id}
  IN  IF ns = {} THEN {} ELSE {view[Max(ns)]}

FunctionOf(id) == LastWith(Functions(profile), LAMBDA f : f.function_id, id)
LocationOf(id) == LastWith(Locations(profile), LAMBDA l : l.location_id, id)

\* The join of one line reference, and of one location id.
JoinLine(l, ln) ==
  [function |-> IF FunctionOf(ln.function_id) = {} THEN None
                ELSE (CHOOSE f \in FunctionOf(ln.function_id) : TRUE).name,
   filename |-> IF FunctionOf(ln.function_id) = {} THEN None
                ELSE (CHOOSE f \in FunctionOf(ln.function_id) : TRUE).filename,
   line     |-> ln.line,
   address  |-> l.address]

AddressOnly(a) == [function |-> None, filename |-> None, line |-> None, address |-> a]

JoinLocation(id) ==
  IF LocationOf(id) = {} THEN <<AddressOnly(0)>>
  ELSE LET l == CHOOSE x \in LocationOf(id) : TRUE
       IN  IF l.lines = <<>> THEN <<AddressOnly(l.address)>>
           ELSE [n \in DOMAIN l.lines |-> JoinLine(l, l.lines[n])]

\* The loops compute the Stacks view, and each of its rows is the sample of the
\* same number in the samples view with the frames a join through locations and
\* functions gives: the views join back together (lib.rs:28-32, 97-109).
StacksAgreeWithJoin ==
  phase = "done" =>
    /\ rows = Stacks(profile)
    /\ rows = [n \in DOMAIN Samples(profile) |->
                 LET s == Samples(profile)[n]
                 IN  [sample_id |-> s.sample_id, value |-> s.value, labels |-> s.labels,
                      frames |-> FlattenSeq([m \in DOMAIN s.location_ids |->
                                               JoinLocation(s.location_ids[m])])]]
=============================================================================
