------------------------------- MODULE MCScan -------------------------------
(***************************************************************************)
(* Small instances of Scan.  Path 2 lies in another directory than 1 and 3, *)
(* so that the sorted order is not the order of listing; star matches     *)
(* everything, one only path 2, and open is a malformed pattern whose   *)
(* own text is the name of path 3.                                          *)
(***************************************************************************)
EXTENDS ScanRef, ScanRefinement

CONSTANTS p1, p2, star, one, open

MCPaths     == 1..3
MCName      == <<1, 2, 3>>
MCDirs      == {"d1", "d2"}
MCDirOf     == <<"d1", "d2", "d1">>
MCGlobs     == {star, one, open}
MCMalformed == {open}
MCMatches   == [g \in MCGlobs |-> CASE g = star -> 1..3
                                    [] g = one  -> {2}
                                    [] OTHER      -> {}]
MCText      == [g \in MCMalformed |-> 3]
MCRowCount  == [p \in Profiles |-> IF p = p1 THEN 2 ELSE 1]

Src(k, es, b) == [kind |-> k, elems |-> es, blob |-> b]
PathsArg(es)  == Src("list", es, NullBlob)

\* One file, one glob, a malformed glob; lists that name a file twice, hold a
\* NULL, are empty, or put a glob before a path that sorts first.
MCPathArgs ==
  {Src("varchar", <<1>>, NullBlob), Src("varchar", <<star>>, NullBlob),
   Src("varchar", <<open>>, NullBlob), PathsArg(<<>>),
   PathsArg(<<NullElem, 3>>), PathsArg(<<star, 1>>), PathsArg(<<one, star>>)}

MCOtherArgs ==
  {Src("binary", <<>>, b) : b \in Bytes \cup {NullBlob}}
    \cup {Src(k, <<>>, NullBlob) : k \in {"missing", "othertype", "otherlist"}}

MCContents == {p1, Absent, BadProto}

\* At most three decoded profiles fit into a batch.
Decoded(us) == Cardinality({i \in DOMAIN us : us[i].result.ok})
MCFits(us)  == Decoded(us) <= 3

\* Two calls over two files; the three units a call may have do not fit.
MCTwoPaths   == 1..2
MCTwoName    == <<1, 2>>
MCTwoDirOf   == <<"d1", "d1">>
MCTwoDirs    == {"d1"}
MCTwoMatches == [g \in MCGlobs |-> IF g = star THEN 1..2 ELSE {}]
MCTwoText    == [g \in MCMalformed |-> 2]
MCTwoFits(us) == Decoded(us) <= 2
MCTwoArgs    == {PathsArg(<<star, 1>>), PathsArg(<<2, 1>>)}
MCTwoContents == {p1, Absent}

\* Path 3 lies below a directory whose name is not UTF-8: ** finds it, and its
\* lossy name is path 1.  Files also become unreadable, and are
\* rewritten in place; an argument is inline bytes of every class, or refused.
MCLossyName    == <<1, 2, 1>>
MCLossyDirOf   == <<"d1", "d1", "d2">>
MCLossyMatches == [g \in MCGlobs |-> IF g = star THEN 1..3 ELSE {}]
MCEveryArg     == MCOtherArgs \cup {Src("varchar", <<star>>, NullBlob),
                                    Src("varchar", <<open>>, NullBlob),
                                    PathsArg(<<2, 1>>), PathsArg(<<star, 1>>)}
MCWide         == {p1, Absent, InFlux, Unreadable}
=============================================================================
