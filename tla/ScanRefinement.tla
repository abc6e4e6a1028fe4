--------------------------- MODULE ScanRefinement ---------------------------
(***************************************************************************)
(* Scan implements ScanAbs: the units resolve has so far are what the call *)
(* has observed, and everything between two reads is a stutter.            *)
(***************************************************************************)
EXTENDS Scan

Stage(s) == CASE s = "idle"                -> "idle"
              [] s = "failed"              -> "refused"
              [] s = "ready"               -> "resolved"
              [] s = "unbuilt"             -> "failed"
              [] s \in {"drained", "done"} -> "delivered"
              [] OTHER                     -> "scanning"

Abs == INSTANCE ScanAbs WITH stage <- [c \in Calls |-> Stage(pc[c])],
                             observed <- units

\* Every call of the worker is a call of ScanAbs: it is refused, or observes whole
\* files one at a time until it has them all, and whoever pulls gets all of them
\* exactly once, or an error and nothing when the batch cannot be built; a call that
\* is dropped or made again leaves nothing behind (source.rs resolve, table/mod.rs
\* OneShot).
ImplementsScanAbs == Abs!Spec
=============================================================================
