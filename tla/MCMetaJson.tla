------------------------------ MODULE MCMetaJson ------------------------------
(***************************************************************************)
(* Every text of a few symbols out of those a helper is meant for: any of  *)
(* them in keywords, control characters in examples, line ends in tasks.   *)
(***************************************************************************)
EXTENDS MetaJson

Texts(symbols, n) == UNION {[1..m -> symbols] : m \in 0..n}

MCKeywords == Texts({Quote, Backslash, Blank, Comma, "x"}, 5)

ExampleText == Symbols \ {Comma}
MCExamples ==
  {<<>>} \cup {<< <<d, s>> >> : d \in Texts(ExampleText, 1), s \in Texts(ExampleText, 3)}
         \cup {<< <<d, s>>, <<s, d>> >> : d, s \in Texts(ExampleText, 1)}

TaskText == {Quote, Backslash, Newline, Comma, "n", "x"}
MCTasks  == {<< <<d, s>> >> : d \in Texts(TaskText, 1), s \in Texts(TaskText, 3)}

DocText == {Quote, Backslash, Blank, Comma, "n"}
MCColumnDocs ==
  {<< <<<<"x">>, t, d>>, <<d, <<"x">>, t>> >> : t \in Texts(DocText, 1), d \in Texts(DocText, 2)}
=============================================================================
