------------------------------ MODULE MCStartup ------------------------------
(***************************************************************************)
(* Three serve threads: two may be between their test and their set while  *)
(* the third already serves.                                               *)
(***************************************************************************)
EXTENDS Startup, TLC

CONSTANTS t1, t2, t3, other

MCThreads == {t1, t2, t3}
MCNames   == {Pprof, Memory, other}

MCWords == {"", "http", "tcp", "stdio", "--verbose", "sh", "-c"}
MCArguments == {<<>>, <<"">>, <<"http">>, <<"tcp", "--verbose">>, <<"sh", "-c">>}

\* Threads are interchangeable.
Symmetry == Permutations(MCThreads)
=============================================================================
