------------------------------ MODULE MCHarness ------------------------------
(***************************************************************************)
(* Three tests, one of each spelling of the load, run in pairs or not at   *)
(* all, one of which needs the fixtures; a log directory that is there,    *)
(* and any.                                                                *)
(***************************************************************************)
EXTENDS Harness

CONSTANTS t1, t2, t3

MCTests      == {t1, t2, t3}
MCForm       == [t \in MCTests |-> CASE t = t1 -> "require" [] t = t2 -> "load"
                                     [] OTHER -> "other"]
MCNeedsData  == {t2}
MCPatterns   == {{}, {t1, t2}, {t2, t3}}
MCUsableLogs == {"absent", "old"}
MCLogs       == {"nodir", "absent", "old"}
==============================================================================
