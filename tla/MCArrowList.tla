----------------------------- MODULE MCArrowList -----------------------------
(***************************************************************************)
(* A 3-bit i32: -4 .. 3.  Counts run over the whole unsigned range and past  *)
(* its end, so that totals reach the limit, wrap, and wrap back above zero, *)
(* and `n as i32` makes a count of 8 or 9 look like 0 or 1.                 *)
(***************************************************************************)
EXTENDS ArrowList

MCCount   == 0..(2 * Half + 1) \cup {Null}
MCColumns == UNION {[1..m -> MCCount] : m \in 0..4}
==============================================================================
