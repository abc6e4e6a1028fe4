------------------------------- MODULE MetaJson -------------------------------
(***************************************************************************)
(* The four helpers of meta.rs that write JSON by hand, and a reader that  *)
(* takes what they wrote one symbol at a time, as any JSON parser would.   *)
(*                                                                         *)
(* A text is a sequence of symbols: the quote, the backslash, the control  *)
(* characters, the blank and the comma are themselves, "n" is the letter   *)
(* that may follow a backslash, and every other character is "x".  What    *)
(* the helpers write around texts has symbols of its own.                  *)
(***************************************************************************)
EXTENDS Naturals, FiniteSetsExt, SequencesExt

CONSTANTS Keywords,  \* texts handed to keywords_json
          Examples,  \* sequences of <<description, sql>> for example_queries_json
          Tasks,     \* sequences of <<name, prompt>> for agent_test_tasks_json
          ColumnDocs \* sequences of <<name, type, description>> for result_columns_schema

Quote     == "quote"
Backslash == "backslash"
Newline   == "newline"
Return    == "return"
Tab       == "tab"
Blank     == "blank"
Comma     == "comma"
Symbols   == {Quote, Backslash, Newline, Return, Tab, Blank, Comma, "n", "x"}
Control   == {Newline, Return, Tab}
Spaces    == Control \cup {Blank}

OpenArray   == "open_array"
CloseArray  == "close_array"
OpenObject  == "open_object"
CloseObject == "close_object"
Colon       == "colon"

\* The texts each helper is called with (literals of lib.rs and of the tables): control
\* characters in examples only, but for the line ends of tasks.
Printable == Seq(Symbols \ Control)
ASSUME TextsAssumption ==
  /\ Keywords   \subseteq Printable
  /\ Examples   \subseteq Seq(Seq(Symbols) \X Seq(Symbols))
  /\ Tasks      \subseteq LET Lines == Seq(Symbols \ {Return, Tab}) IN Seq(Lines \X Lines)
  /\ ColumnDocs \subseteq Seq(Printable \X Printable \X Printable)

\* str::replace with a one-character pattern.
Replace(text, symbol, by) ==
  FlattenSeq([i \in DOMAIN text |-> IF text[i] = symbol THEN by ELSE <<text[i]>>])

EscapeBackslash(text) == Replace(text, Backslash, <<Backslash, Backslash>>)
EscapeQuote(text)     == Replace(text, Quote, <<Backslash, Quote>>)
EscapeNewline(text)   == Replace(text, Newline, <<Backslash, "n">>)

\* Faulty variant: the backslash of a replacement is escaped again.
EscapeQuoteFirst(text) == EscapeBackslash(EscapeQuote(text))

\* esc of keywords_json and of result_columns_schema: no control character expected.
EscapeColumn(text)  == EscapeQuote(EscapeBackslash(text))
\* esc of agent_test_tasks_json.
EscapeTask(text)    == EscapeNewline(EscapeQuote(EscapeBackslash(text)))
\* esc of example_queries_json: carriage returns go, tabs become blanks.
EscapeExample(text) ==
  Replace(Replace(EscapeNewline(EscapeQuote(EscapeBackslash(text))), Return, <<>>),
          Tab, <<Blank>>)

\* str::split(','), str::trim and the filter of keywords_json.
Split(text) ==
  LET upto[n \in 0..Len(text)] ==
        IF n = 0 THEN <<<<>>>>
        ELSE IF text[n] = Comma THEN Append(upto[n-1], <<>>)
        ELSE [upto[n-1] EXCEPT ![Len(upto[n-1])] = Append(@, text[n])]
  IN  upto[Len(text)]
Trim(text) ==
  LET solid == {i \in DOMAIN text : text[i] \notin Spaces}
  IN  IF solid = {} THEN <<>> ELSE SubSeq(text, Min(solid), Max(solid))

NonEmpty(parts) ==
  FlattenSeq([k \in DOMAIN parts |-> IF parts[k] = <<>> THEN <<>> ELSE <<parts[k]>>])

\* Faulty variant: blanks within a term are dropped as well.
TermsSqueezed(text) == NonEmpty([k \in DOMAIN Split(text) |-> Replace(Split(text)[k], Blank, <<>>)])

Terms(text) == NonEmpty([k \in DOMAIN Split(text) |-> Trim(Split(text)[k])])

\* format! and join.
Quoted(escaped) == <<Quote>> \o escaped \o <<Quote>>
Member(key, escaped) == Quoted(<<key>>) \o <<Colon>> \o Quoted(escaped)
Join(parts) ==
  FlattenSeq([k \in DOMAIN parts |-> IF k = 1 THEN parts[k] ELSE <<Comma>> \o parts[k]])
Array(parts)    == <<OpenArray>> \o Join(parts) \o <<CloseArray>>
Object(members) == <<OpenObject>> \o Join(members) \o <<CloseObject>>

KeysOf == [examples |-> <<"description", "sql">>, tasks |-> <<"name", "prompt">>,
           columns |-> <<"name", "type", "description">>]

KeywordsJson(text) ==
  Array([k \in DOMAIN Terms(text) |-> Quoted(EscapeColumn(Terms(text)[k]))])
ExampleQueriesJson(rows) ==
  Array([k \in DOMAIN rows |-> Object([m \in 1..2 |->
           Member(KeysOf.examples[m], EscapeExample(rows[k][m]))])])
AgentTestTasksJson(rows) ==
  Array([k \in DOMAIN rows |-> Object([m \in 1..2 |->
           Member(KeysOf.tasks[m], EscapeTask(rows[k][m]))])])
ResultColumnsSchema(rows) ==
  Array([k \in DOMAIN rows |-> Object([m \in 1..3 |->
           Member(KeysOf.columns[m], EscapeColumn(rows[k][m]))])])

-------------------------------------------------------------------------------
VARIABLES
  helper, input, \* which helper was called, and with what
  out,           \* what it returned
  pos,           \* the next symbol of out the reader takes, counted from 1
  expect,        \* what the reader is in the middle of
  within,        \* the place of the string being read
  text, item, items \* that string, the strings of the item, the items so far

vars == <<helper, input, out, pos, expect, within, text, item, items>>

Init ==
  /\ \/ helper = "keywords" /\ input \in Keywords   /\ out = KeywordsJson(input)
     \/ helper = "examples" /\ input \in Examples   /\ out = ExampleQueriesJson(input)
     \/ helper = "tasks"    /\ input \in Tasks      /\ out = AgentTestTasksJson(input)
     \/ helper = "columns"  /\ input \in ColumnDocs /\ out = ResultColumnsSchema(input)
  /\ pos = 1 /\ expect = "start" /\ within = "none"
  /\ text = <<>> /\ item = <<>> /\ items = <<>>

\* The structure of an array of strings or of flat objects.
Moves == { <<"start", OpenArray, "first">>,    <<"first", CloseArray, "end">>,
           <<"first", OpenObject, "key">>,     <<"next", OpenObject, "key">>,
           <<"colon", Colon, "value">>,        <<"member", Comma, "key">>,
           <<"member", CloseObject, "after">>, <<"after", Comma, "next">>,
           <<"after", CloseArray, "end">> }
Opens  == {"first", "next", "key", "value"}
AfterString == [first |-> "after", next |-> "after", key |-> "colon", value |-> "member"]
Unescape == [quote |-> Quote, backslash |-> Backslash, n |-> Newline]

Symbol == out[pos]

Structure(move) ==
  /\ move[1] = expect /\ move[2] = Symbol /\ expect' = move[3]
  /\ items' = IF Symbol = CloseObject THEN Append(items, item) ELSE items
  /\ item'  = IF Symbol = CloseObject THEN <<>> ELSE item
  /\ UNCHANGED <<within, text>>

OpenString ==
  /\ expect \in Opens /\ Symbol = Quote
  /\ expect' = "string" /\ within' = expect /\ text' = <<>> /\ UNCHANGED <<item, items>>

Plain ==
  /\ expect = "string" /\ Symbol \notin Control \cup {Quote, Backslash}
  /\ text' = Append(text, Symbol) /\ UNCHANGED <<expect, within, item, items>>

StartEscape ==
  /\ expect = "string" /\ Symbol = Backslash
  /\ expect' = "escape" /\ UNCHANGED <<within, text, item, items>>

Escaped ==
  /\ expect = "escape" /\ Symbol \in DOMAIN Unescape
  /\ text' = Append(text, Unescape[Symbol]) /\ expect' = "string"
  /\ UNCHANGED <<within, item, items>>

CloseString ==
  /\ expect = "string" /\ Symbol = Quote
  /\ expect' = AfterString[within]
  /\ IF within \in {"first", "next"}
     THEN items' = Append(items, <<text>>) /\ UNCHANGED item
     ELSE item' = Append(item, text) /\ UNCHANGED items
  /\ UNCHANGED <<within, text>>

Accept == \/ \E move \in Moves : Structure(move)
          \/ OpenString \/ Plain \/ StartEscape \/ Escaped \/ CloseString

\* The reader takes one symbol; none of the rules fits when it is stuck before the end.
Next == /\ pos <= Len(out) /\ pos' = pos + 1 /\ Accept
        /\ UNCHANGED <<helper, input, out>>

Spec == Init /\ [][Next]_vars /\ WF_vars(Next)

-------------------------------------------------------------------------------
\* The terms of a keyword text, by where they start and end: no comma inside, nothing
\* but spaces between their ends and the next comma.
Solid(t, i)   == t[i] \notin Spaces \cup {Comma}
CommaIn(t, S) == \E c \in S : t[c] = Comma
TermEnds(t) ==
  { e \in (DOMAIN t) \X (DOMAIN t) :
      /\ e[1] <= e[2] /\ Solid(t, e[1]) /\ Solid(t, e[2]) /\ ~CommaIn(t, e[1]..e[2])
      /\ \A k \in DOMAIN t : Solid(t, k) =>
           /\ k < e[1] => CommaIn(t, k..e[1])
           /\ k > e[2] => CommaIn(t, e[2]..k) }

\* What was read are the texts of all terms, in their order.
TermsIn(t, read) ==
  \E ends \in [DOMAIN read -> TermEnds(t)] :
    /\ \A e \in TermEnds(t) : \E k \in DOMAIN read : ends[k] = e
    /\ \A j, k \in DOMAIN read : j < k => ends[j][1] < ends[k][1]
    /\ \A k \in DOMAIN read : read[k] = <<SubSeq(t, ends[k][1], ends[k][2])>>

\* Examples lose layout: carriage returns, and the width of tabs.
Unlaid(t) ==
  FlattenSeq([i \in DOMAIN t |-> IF t[i] = Return THEN <<>>
                                 ELSE <<IF t[i] = Tab THEN Blank ELSE t[i]>>])

\* The keys and the texts of a row, key first.
Row(h, values) ==
  FlattenSeq([m \in DOMAIN values |->
    << <<KeysOf[h][m]>>,
       IF h = "examples" THEN Unlaid(values[m]) ELSE values[m] >>])

\* What a helper's caller means to say.
Meant(read) ==
  IF helper = "keywords" THEN TermsIn(input, read)
  ELSE read = [k \in DOMAIN input |-> Row(helper, input[k])]

\* A JSON parser accepts what the helper wrote and reads back what was meant, whatever
\* quotes, backslashes, commas and line ends the texts hold (meta.rs:15-17, 51-52,
\* 77-81, 101-106).
ReadsBack == pos > Len(out) => expect = "end" /\ Meant(items)

\* The reader never gets stuck on what a helper wrote.
EverythingIsRead == <>(pos > Len(out))
=============================================================================
