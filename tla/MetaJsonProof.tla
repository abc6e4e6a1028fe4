---------------------------- MODULE MetaJsonProof ----------------------------
(***************************************************************************)
(* Theorems about MetaJson, for all the texts its helpers may be called    *)
(* with: what a helper writes is read to its end and means what was meant. *)
(* CoreProof is extended for its lemmas on recursive functions.            *)
(***************************************************************************)
EXTENDS MetaJson, CoreProof

\* Where a reader stands.
At(e, w, x, i, is) == [expect |-> e, within |-> w, text |-> x, item |-> i, items |-> is]

\* The rules of the reader, from one place to the next.
TakesMark(s, c, t) ==
  \E move \in Moves :
    /\ move[1] = s.expect /\ move[2] = c
    /\ t = At(move[3], s.within, s.text,
              IF c = CloseObject THEN <<>> ELSE s.item,
              IF c = CloseObject THEN Append(s.items, s.item) ELSE s.items)
TakesOpening(s, c, t) ==
  /\ s.expect \in Opens /\ c = Quote
  /\ t = At("string", s.expect, <<>>, s.item, s.items)
TakesPlain(s, c, t) ==
  /\ s.expect = "string" /\ c \notin Control \cup {Quote, Backslash}
  /\ t = At("string", s.within, Append(s.text, c), s.item, s.items)
TakesBackslash(s, c, t) ==
  /\ s.expect = "string" /\ c = Backslash
  /\ t = At("escape", s.within, s.text, s.item, s.items)
TakesEscaped(s, c, t) ==
  /\ s.expect = "escape" /\ c \in DOMAIN Unescape
  /\ t = At("string", s.within, Append(s.text, Unescape[c]), s.item, s.items)
TakesClosing(s, c, t) ==
  /\ s.expect = "string" /\ c = Quote
  /\ t = IF s.within \in {"first", "next"}
         THEN At(AfterString[s.within], s.within, s.text, s.item, Append(s.items, <<s.text>>))
         ELSE At(AfterString[s.within], s.within, s.text, Append(s.item, s.text), s.items)

Takes(s, c, t) ==
  \/ TakesMark(s, c, t)      \/ TakesOpening(s, c, t) \/ TakesPlain(s, c, t)
  \/ TakesBackslash(s, c, t) \/ TakesEscaped(s, c, t) \/ TakesClosing(s, c, t)

\* The reader's places at every symbol of u.
Trace(tr, u) == \A n \in 1..Len(u) : Takes(tr[n-1], u[n], tr[n])

\* From s, the reader takes all of u and stands at t.
Reads(u, s, t) == \E tr : tr[0] = s /\ tr[Len(u)] = t /\ Trace(tr, u)

LEMMA TakesOneWay ==
  ASSUME NEW s, NEW c, NEW t, NEW r, Takes(s, c, t), Takes(s, c, r)
  PROVE  t = r
<1>1. CASE TakesMark(s, c, t)
  <2>1. TakesMark(s, c, r)
        BY <1>1 DEF Takes, TakesMark, TakesOpening, TakesPlain, TakesBackslash, TakesEscaped,
             TakesClosing, Moves, Opens, Unescape, Control, Quote, Backslash, Newline, Return,
             Tab, Comma, OpenArray, CloseArray, OpenObject, CloseObject, Colon
  <2>2. PICK m \in Moves : /\ m[1] = s.expect /\ m[2] = c
             /\ t = At(m[3], s.within, s.text,
              IF c = CloseObject THEN <<>> ELSE s.item,
              IF c = CloseObject THEN Append(s.items, s.item) ELSE s.items)
        BY <1>1 DEF TakesMark
  <2>3. PICK k \in Moves : /\ k[1] = s.expect /\ k[2] = c
             /\ r = At(k[3], s.within, s.text,
              IF c = CloseObject THEN <<>> ELSE s.item,
              IF c = CloseObject THEN Append(s.items, s.item) ELSE s.items)
        BY <2>1 DEF TakesMark
  <2>4. m[3] = k[3]
        BY <2>2, <2>3 DEF Moves, Comma, OpenArray, CloseArray, OpenObject, CloseObject, Colon
  <2>. QED BY <2>2, <2>3, <2>4
<1>2. CASE ~TakesMark(s, c, t)
  <2>1. ~TakesMark(s, c, r)
        BY <1>2 DEF Takes, TakesMark, TakesOpening, TakesPlain, TakesBackslash, TakesEscaped,
             TakesClosing, Moves, Opens, Unescape, Control, Quote, Backslash, Newline, Return,
             Tab, Comma, OpenArray, CloseArray, OpenObject, CloseObject, Colon
  <2>. QED BY <1>2, <2>1 DEF Takes, TakesOpening, TakesPlain, TakesBackslash, TakesEscaped,
             TakesClosing, Opens, Control, Quote, Backslash
<1>. QED BY <1>1, <1>2

LEMMA ReadsNothing == ASSUME NEW s PROVE Reads(<<>>, s, s)
<1>1. PICK tr : tr = [n \in {0} |-> s]
      OBVIOUS
<1>2. tr[0] = s /\ Len(<<>>) = 0 /\ 1..0 = {}
      BY <1>1
<1>. QED BY <1>2 DEF Reads, Trace

LEMMA ReadsOne ==
  ASSUME NEW s, NEW c, NEW t, Takes(s, c, t)
  PROVE  Reads(<<c>>, s, t)
<1>1. PICK tr : tr = [n \in 0..1 |-> IF n = 0 THEN s ELSE t]
      OBVIOUS
<1>2. tr[0] = s /\ tr[1] = t /\ Len(<<c>>) = 1 /\ <<c>>[1] = c
      BY <1>1
<1>3. ASSUME NEW n \in 1..1 PROVE Takes(tr[n-1], <<c>>[n], tr[n])
  <2>1. n = 1 /\ n - 1 = 0
        OBVIOUS
  <2>. QED BY <1>2, <2>1
<1>. QED BY <1>2, <1>3 DEF Reads, Trace

LEMMA ReadsConcat ==
  ASSUME NEW C, NEW u \in Seq(C), NEW v \in Seq(C), NEW s, NEW t, NEW r,
         Reads(u, s, t), Reads(v, t, r)
  PROVE  Reads(u \o v, s, r)
<1>1. PICK a : a[0] = s /\ a[Len(u)] = t /\ Trace(a, u)
      BY DEF Reads
<1>2. PICK b : b[0] = t /\ b[Len(v)] = r /\ Trace(b, v)
      BY DEF Reads
<1>3. PICK m \in Nat, k \in Nat : m = Len(u) /\ k = Len(v)
      OBVIOUS
<1>4. PICK tr : tr = [n \in 0..(m + k) |-> IF n <= m THEN a[n] ELSE b[n - m]]
      OBVIOUS
<1>5. /\ Len(u \o v) = m + k
      /\ \A n \in 1..m : (u \o v)[n] = u[n]
      /\ \A n \in 1..(m + k) : n > m => (u \o v)[n] = v[n - m]
      BY <1>3
<1>6. tr[0] = s
      BY <1>1, <1>3, <1>4
<1>7. ASSUME NEW n \in m..(m + k) PROVE tr[n] = b[n - m]
  <2>1. CASE n = m
    <3>1. n - m = 0
          BY <2>1
    <3>. QED BY <1>1, <1>2, <1>3, <1>4, <2>1, <3>1
  <2>2. CASE n # m
        BY <1>4, <2>2
  <2>. QED BY <2>1, <2>2
<1>8. tr[m + k] = r
  <2>1. m + k \in m..(m + k) /\ (m + k) - m = k
        OBVIOUS
  <2>. QED BY <1>2, <1>3, <1>7, <2>1
<1>9. ASSUME NEW n \in 1..(m + k) PROVE Takes(tr[n-1], (u \o v)[n], tr[n])
  <2>1. CASE n <= m
    <3>1. n \in 1..m /\ tr[n-1] = a[n-1] /\ tr[n] = a[n]
          BY <1>4, <2>1
    <3>2. Takes(a[n-1], u[n], a[n])
          BY <1>1, <1>3, <3>1 DEF Trace
    <3>3. (u \o v)[n] = u[n]
          BY <1>5, <3>1
    <3>. QED BY <3>1, <3>2, <3>3
  <2>2. CASE n > m
    <3>1. n - 1 \in m..(m + k) /\ n \in m..(m + k) /\ n - m \in 1..k
          BY <2>2
    <3>2. (n - 1) - m = (n - m) - 1
          OBVIOUS
    <3>3. tr[n-1] = b[(n - m) - 1] /\ tr[n] = b[n - m]
          BY <1>7, <3>1, <3>2
    <3>4. Takes(b[(n - m) - 1], v[n - m], b[n - m])
          BY <1>2, <1>3, <3>1 DEF Trace
    <3>5. (u \o v)[n] = v[n - m]
          BY <1>5, <2>2
    <3>. QED BY <3>3, <3>4, <3>5
  <2>3. n <= m \/ n > m
        OBVIOUS
  <2>. QED BY <2>1, <2>2, <2>3, Zenon
<1>. QED BY <1>5, <1>6, <1>8, <1>9 DEF Reads, Trace

-------------------------------------------------------------------------------
(* Between strings it matters only what is expected and what was read. *)

Passes(u, p, q) ==
  \A w, x : \E v, y : Reads(u, At(p[1], w, x, p[2], p[3]), At(q[1], v, y, q[2], q[3]))

\* Within a string only its text grows.
Adds(u, x, y) ==
  \A w, i, is : Reads(u, At("string", w, x, i, is), At("string", w, y, i, is))

LEMMA PassesNothing == ASSUME NEW p PROVE Passes(<<>>, p, p)
BY ReadsNothing DEF Passes

LEMMA PassesConcat ==
  ASSUME NEW C, NEW u \in Seq(C), NEW v \in Seq(C), NEW p, NEW q, NEW r,
         Passes(u, p, q), Passes(v, q, r)
  PROVE  Passes(u \o v, p, r)
<1>1. ASSUME NEW w, NEW x
      PROVE  \E z, y : Reads(u \o v, At(p[1], w, x, p[2], p[3]), At(r[1], z, y, r[2], r[3]))
  <2>1. PICK w1, x1 : Reads(u, At(p[1], w, x, p[2], p[3]), At(q[1], w1, x1, q[2], q[3]))
        BY DEF Passes
  <2>2. PICK w2, x2 : Reads(v, At(q[1], w1, x1, q[2], q[3]), At(r[1], w2, x2, r[2], r[3]))
        BY DEF Passes
  <2>3. Reads(u \o v, At(p[1], w, x, p[2], p[3]), At(r[1], w2, x2, r[2], r[3]))
        BY <2>1, <2>2, ReadsConcat
  <2>. QED BY <2>3
<1>. QED BY <1>1 DEF Passes

\* Parts that are read one after the other are read as a whole.
LEMMA PassesFlatten ==
  ASSUME NEW C, NEW parts \in Seq(Seq(C)), NEW at,
         \A n \in 1..Len(parts) : Passes(parts[n], at[n-1], at[n])
  PROVE  Passes(FlattenSeq(parts), at[0], at[Len(parts)])
<1>1. PICK N \in Nat : N = Len(parts)
      OBVIOUS
<1>2. PICK run \in [0..N -> Seq(C)] : Flattens(run, parts)
      BY <1>1, FlattensExists
<1>3. run[0] = <<>> /\ \A n \in 1..N : run[n] = run[n-1] \o parts[n]
      BY <1>1, <1>2 DEF Flattens
<1> DEFINE T == {n \in Nat : n <= N => Passes(run[n], at[0], at[n])}
<1>4. 0 \in T
      BY <1>3, PassesNothing
<1>5. ASSUME NEW n \in Nat, n \in T PROVE n + 1 \in T
  <2>1. SUFFICES ASSUME n + 1 <= N PROVE Passes(run[n + 1], at[0], at[n + 1])
        OBVIOUS
  <2>2. n \in 0..N /\ n + 1 \in 1..N /\ (n + 1) - 1 = n
        BY <2>1
  <2>3. run[n] \in Seq(C)
        BY <2>2
  <2>4. parts[n + 1] \in Seq(C)
        BY <1>1, <2>2
  <2>5. Passes(parts[n + 1], at[n], at[n + 1])
        BY <1>1, <2>2
  <2>6. Passes(run[n], at[0], at[n])
        BY <1>5, <2>2
  <2>7. Passes(run[n] \o parts[n + 1], at[0], at[n + 1])
        BY <2>3, <2>4, <2>5, <2>6, PassesConcat
  <2>8. run[n + 1] = run[n] \o parts[n + 1]
        BY <1>3, <2>2
  <2>. QED BY <2>7, <2>8
<1>. HIDE DEF T
<1>6. N \in T
      BY <1>4, <1>5, SetInduction
<1>7. Passes(run[N], at[0], at[N])
      BY <1>6 DEF T
<1>8. FlattenSeq(parts) = run[N]
      BY <1>1, <1>2, FlattenUnfolds
<1>. QED BY <1>1, <1>7, <1>8

LEMMA PassesMark ==
  ASSUME NEW m \in Moves, m[2] # CloseObject, NEW i, NEW is
  PROVE  Passes(<<m[2]>>, <<m[1], i, is>>, <<m[3], i, is>>)
<1>1. ASSUME NEW w, NEW x PROVE Reads(<<m[2]>>, At(m[1], w, x, i, is), At(m[3], w, x, i, is))
  <2>1. TakesMark(At(m[1], w, x, i, is), m[2], At(m[3], w, x, i, is))
        BY DEF TakesMark, At
  <2>. QED BY <2>1, ReadsOne DEF Takes
<1>. QED BY <1>1 DEF Passes

LEMMA PassesEndOfObject ==
  ASSUME NEW i, NEW is
  PROVE  Passes(<<CloseObject>>, <<"member", i, is>>, <<"after", <<>>, Append(is, i)>>)
<1>1. ASSUME NEW w, NEW x
      PROVE  Reads(<<CloseObject>>, At("member", w, x, i, is), At("after", w, x, <<>>, Append(is, i)))
  <2>1. <<"member", CloseObject, "after">> \in Moves
        BY DEF Moves
  <2>2. TakesMark(At("member", w, x, i, is), CloseObject, At("after", w, x, <<>>, Append(is, i)))
        BY <2>1 DEF TakesMark, At
  <2>. QED BY <2>2, ReadsOne DEF Takes
<1>. QED BY <1>1 DEF Passes

LEMMA AddsConcat ==
  ASSUME NEW C, NEW u \in Seq(C), NEW v \in Seq(C), NEW x, NEW y, NEW z,
         Adds(u, x, y), Adds(v, y, z)
  PROVE  Adds(u \o v, x, z)
<1>1. ASSUME NEW w, NEW i, NEW is
      PROVE  Reads(u \o v, At("string", w, x, i, is), At("string", w, z, i, is))
  <2>1. Reads(u, At("string", w, x, i, is), At("string", w, y, i, is))
        BY DEF Adds
  <2>2. Reads(v, At("string", w, y, i, is), At("string", w, z, i, is))
        BY DEF Adds
  <2>. QED BY <2>1, <2>2, ReadsConcat
<1>. QED BY <1>1 DEF Adds

LEMMA AddsNothing == ASSUME NEW x PROVE Adds(<<>>, x, x)
BY ReadsNothing DEF Adds

LEMMA AddsPlain ==
  ASSUME NEW x, NEW c, c \notin Control \cup {Quote, Backslash}
  PROVE  Adds(<<c>>, x, Append(x, c))
<1>1. ASSUME NEW w, NEW i, NEW is
      PROVE  Reads(<<c>>, At("string", w, x, i, is), At("string", w, Append(x, c), i, is))
  <2>1. TakesPlain(At("string", w, x, i, is), c, At("string", w, Append(x, c), i, is))
        BY DEF TakesPlain, At
  <2>. QED BY <2>1, ReadsOne DEF Takes
<1>. QED BY <1>1 DEF Adds

LEMMA TwoSymbols == ASSUME NEW a, NEW b PROVE <<a>> \o <<b>> = <<a, b>>
<1>1. <<a>> \in Seq({a, b}) /\ <<b>> \in Seq({a, b}) /\ <<a, b>> \in Seq({a, b})
      OBVIOUS
<1>2. <<a>> \o <<b>> \in Seq({a, b}) /\ Len(<<a>> \o <<b>>) = 2 /\ Len(<<a, b>>) = 2
      BY <1>1
<1>3. (<<a>> \o <<b>>)[1] = a /\ (<<a>> \o <<b>>)[2] = b
      BY <1>1
<1>4. ASSUME NEW n \in 1..2 PROVE (<<a>> \o <<b>>)[n] = <<a, b>>[n]
  <2>1. n = 1 \/ n = 2
        OBVIOUS
  <2>2. <<a, b>>[1] = a /\ <<a, b>>[2] = b
        OBVIOUS
  <2>. QED BY <1>3, <2>1, <2>2, Zenon
<1>. QED BY <1>1, <1>2, <1>4, SeqEqual

LEMMA AddsEscaped ==
  ASSUME NEW x, NEW c \in DOMAIN Unescape
  PROVE  Adds(<<Backslash, c>>, x, Append(x, Unescape[c]))
<1>1. ASSUME NEW w, NEW i, NEW is
      PROVE  Reads(<<Backslash, c>>, At("string", w, x, i, is),
                   At("string", w, Append(x, Unescape[c]), i, is))
  <2>1. TakesBackslash(At("string", w, x, i, is), Backslash, At("escape", w, x, i, is))
        BY DEF TakesBackslash, At
  <2>2. TakesEscaped(At("escape", w, x, i, is), c, At("string", w, Append(x, Unescape[c]), i, is))
        BY DEF TakesEscaped, At
  <2>3. Reads(<<Backslash>>, At("string", w, x, i, is), At("escape", w, x, i, is))
        BY <2>1, ReadsOne DEF Takes
  <2>4. Reads(<<c>>, At("escape", w, x, i, is), At("string", w, Append(x, Unescape[c]), i, is))
        BY <2>2, ReadsOne DEF Takes
  <2>5. <<Backslash>> \in Seq({Backslash, c}) /\ <<c>> \in Seq({Backslash, c})
        OBVIOUS
  <2>6. <<Backslash>> \o <<c>> = <<Backslash, c>>
        BY TwoSymbols
  <2>7. Reads(<<Backslash>> \o <<c>>, At("string", w, x, i, is),
              At("string", w, Append(x, Unescape[c]), i, is))
        BY <2>3, <2>4, <2>5, ReadsConcat
  <2>. QED BY <2>6, <2>7
<1>. QED BY <1>1 DEF Adds

-------------------------------------------------------------------------------
(* Replacing symbols, from the end of a text *)

LEMMA FlattenAppend ==
  ASSUME NEW S, NEW parts \in Seq(Seq(S)), NEW p \in Seq(S)
  PROVE  /\ FlattenSeq(parts) \in Seq(S)
         /\ FlattenSeq(Append(parts, p)) = FlattenSeq(parts) \o p
<1>1. PICK N \in Nat : N = Len(parts)
      OBVIOUS
<1>2. PICK more \in Seq(Seq(S)) : more = Append(parts, p)
      BY AppendProperties
<1>3. /\ Len(more) = N + 1 /\ more[N + 1] = p
      /\ \A n \in 1..N : more[n] = parts[n]
      BY <1>1, <1>2
<1>4. PICK run \in [0..(N + 1) -> Seq(S)] : Flattens(run, more)
      BY <1>3, FlattensExists
<1>5. run[0] = <<>> /\ \A n \in 1..(N + 1) : run[n] = run[n-1] \o more[n]
      BY <1>3, <1>4 DEF Flattens
<1>6. \A n \in 1..N : run[n] = run[n-1] \o parts[n]
  <2>1. ASSUME NEW n \in 1..N PROVE run[n] = run[n-1] \o parts[n]
    <3>1. n \in 1..(N + 1)
          OBVIOUS
    <3>. QED BY <1>3, <1>5, <3>1
  <2>. QED BY <2>1
<1>7. Flattens(run, parts)
      BY <1>1, <1>5, <1>6 DEF Flattens
<1>8. FlattenSeq(parts) = run[N] /\ FlattenSeq(more) = run[N + 1]
  <2>1. FlattenSeq(parts) = run[Len(parts)]
        BY <1>7, FlattenUnfolds
  <2>2. FlattenSeq(more) = run[Len(more)]
        BY <1>4, FlattenUnfolds
  <2>. QED BY <1>1, <1>3, <2>1, <2>2
<1>9. run[N] \in Seq(S)
      BY <1>4
<1>10. run[N + 1] = run[N] \o p
  <2>1. N + 1 \in 1..(N + 1) /\ (N + 1) - 1 = N
        OBVIOUS
  <2>. QED BY <1>3, <1>5, <2>1
<1>. QED BY <1>2, <1>8, <1>9, <1>10

LEMMA FlattenNothing == FlattenSeq(<<>>) = <<>>
BY DEF FlattenSeq

\* What holds of the empty sequence and stays when one is appended holds of all.
LEMMA SequenceInduction ==
  ASSUME NEW S, NEW Good, <<>> \in Good,
         \A t \in Seq(S), c \in S : t \in Good => Append(t, c) \in Good
  PROVE  Seq(S) \subseteq Good
<1> DEFINE T == {n \in Nat : \A t \in Seq(S) : Len(t) = n => t \in Good}
<1>1. 0 \in T
  <2>1. ASSUME NEW t \in Seq(S), Len(t) = 0 PROVE t = <<>>
        BY <2>1, EmptySeq
  <2>. QED BY <2>1
<1>2. ASSUME NEW n \in Nat, n \in T PROVE n + 1 \in T
  <2>1. SUFFICES ASSUME NEW t \in Seq(S), Len(t) = n + 1 PROVE t \in Good
        OBVIOUS
  <2>2. t # <<>>
        BY <2>1
  <2>3. PICK f \in Seq(S), c \in S : t = Append(f, c)
        BY <2>2, SequenceEmptyOrAppend
  <2>4. Len(f) = n
        BY <2>1, <2>3
  <2>5. f \in Good
        BY <1>2, <2>4
  <2>. QED BY <2>3, <2>5
<1>. HIDE DEF T
<1>3. Nat \subseteq T
      BY <1>1, <1>2, SetInduction
<1>. QED BY <1>3 DEF T

Replaced(c, s, by) == IF c = s THEN by ELSE <<c>>

LEMMA ReplaceAppend ==
  ASSUME NEW S, NEW t \in Seq(S), NEW c \in S, NEW s, NEW by \in Seq(S)
  PROVE  /\ Replace(t, s, by) \in Seq(S)
         /\ Replace(Append(t, c), s, by) = Replace(t, s, by) \o Replaced(c, s, by)
<1>1. PICK N \in Nat : N = Len(t)
      OBVIOUS
<1>2. PICK parts : parts = [i \in DOMAIN t |-> IF t[i] = s THEN by ELSE <<t[i]>>]
      OBVIOUS
<1>3. PICK p : p = IF c = s THEN by ELSE <<c>>
      OBVIOUS
<1>4. p \in Seq(S)
      BY <1>3
<1>5. parts \in Seq(Seq(S)) /\ Len(parts) = N
  <2>1. \A i \in 1..N : t[i] \in S
        BY <1>1
  <2>2. \A i \in 1..N : (IF t[i] = s THEN by ELSE <<t[i]>>) \in Seq(S)
        BY <2>1
  <2>3. DOMAIN t = 1..N
        BY <1>1
  <2>. QED BY <1>2, <2>2, <2>3
<1>6. PICK u \in Seq(S) : u = Append(t, c)
      BY AppendProperties
<1>7. DOMAIN u = 1..(N + 1) /\ u[N + 1] = c /\ \A i \in 1..N : u[i] = t[i]
      BY <1>1, <1>6
<1>8. Append(parts, p) = [i \in DOMAIN u |-> IF u[i] = s THEN by ELSE <<u[i]>>]
  <2>1. PICK all : all = [i \in 1..(N + 1) |-> IF u[i] = s THEN by ELSE <<u[i]>>]
        OBVIOUS
  <2>2. \A i \in 1..(N + 1) : u[i] \in S
        BY <1>6, <1>7
  <2>3. \A i \in 1..(N + 1) : (IF u[i] = s THEN by ELSE <<u[i]>>) \in Seq(S)
        BY <2>2
  <2>4. all \in Seq(Seq(S)) /\ Len(all) = N + 1
        BY <2>1, <2>3
  <2>5. Append(parts, p) \in Seq(Seq(S)) /\ Len(Append(parts, p)) = N + 1
        BY <1>4, <1>5
  <2>6. ASSUME NEW i \in 1..(N + 1) PROVE Append(parts, p)[i] = all[i]
    <3>1. CASE i = N + 1
      <4>1. Append(parts, p)[N + 1] = p
            BY <1>4, <1>5
      <4>2. all[N + 1] = p
            BY <1>3, <1>7, <2>1
      <4>. QED BY <3>1, <4>1, <4>2
    <3>2. CASE i # N + 1
      <4>1. i \in 1..N
            BY <3>2
      <4>2. Append(parts, p)[i] = parts[i]
            BY <1>4, <1>5, <4>1
      <4>3. parts[i] = IF t[i] = s THEN by ELSE <<t[i]>>
            BY <1>1, <1>2, <4>1
      <4>. QED BY <1>7, <2>1, <4>1, <4>2, <4>3
    <3>. QED BY <3>1, <3>2
  <2>7. Append(parts, p) = all
        BY <2>4, <2>5, <2>6, SeqEqual
  <2>. QED BY <1>7, <2>1, <2>7
<1>9. /\ FlattenSeq(parts) \in Seq(S)
      /\ FlattenSeq(Append(parts, p)) = FlattenSeq(parts) \o p
      BY <1>4, <1>5, FlattenAppend
<1>10. Replace(t, s, by) = FlattenSeq(parts)
       BY <1>2, Zenon DEF Replace
<1>11. Replace(u, s, by) = FlattenSeq(Append(parts, p))
       BY <1>8, Zenon DEF Replace
<1>12. p = Replaced(c, s, by)
       BY <1>3 DEF Replaced
<1>. QED BY <1>6, <1>9, <1>10, <1>11, <1>12

LEMMA ReplaceNothing == ASSUME NEW s, NEW by PROVE Replace(<<>>, s, by) = <<>>
<1>1. [i \in DOMAIN <<>> |-> IF <<>>[i] = s THEN by ELSE <<<<>>[i]>>] = <<>>
      OBVIOUS
<1>2. Replace(<<>>, s, by) = FlattenSeq(<<>>)
      BY <1>1, Zenon DEF Replace
<1>. QED BY <1>2, FlattenNothing

LEMMA ReplaceType ==
  ASSUME NEW S, NEW t \in Seq(S), NEW s, NEW by \in Seq(S)
  PROVE  Replace(t, s, by) \in Seq(S)
<1>1. CASE S = {}
  <2>1. t = <<>>
        BY <1>1
  <2>. QED BY <2>1, ReplaceNothing
<1>2. CASE S # {}
  <2>1. PICK c : c \in S
        BY <1>2
  <2>. QED BY <2>1, ReplaceAppend
<1>. QED BY <1>1, <1>2

LEMMA ReplaceOther ==
  ASSUME NEW S, NEW t \in Seq(S), NEW c \in S, NEW s, NEW by \in Seq(S), c # s
  PROVE  Replace(Append(t, c), s, by) = Replace(t, s, by) \o <<c>>
<1>1. Replaced(c, s, by) = <<c>>
      BY DEF Replaced
<1>2. Replace(Append(t, c), s, by) = Replace(t, s, by) \o Replaced(c, s, by)
      BY ReplaceAppend
<1>. QED BY <1>1, <1>2

LEMMA AppendOne == ASSUME NEW S, NEW t \in Seq(S), NEW c \in S PROVE t \o <<c>> = Append(t, c)
BY AppendIsConcat

LEMMA AppendTwo ==
  ASSUME NEW S, NEW t \in Seq(S), NEW a \in S, NEW b \in S
  PROVE  t \o <<a, b>> = Append(Append(t, a), b)
<1>1. <<a>> \in Seq(S) /\ <<b>> \in Seq(S)
      OBVIOUS
<1>2. t \o (<<a>> \o <<b>>) = (t \o <<a>>) \o <<b>>
      BY <1>1, ConcatAssociative
<1>3. t \o <<a>> = Append(t, a) /\ Append(t, a) \in Seq(S)
      BY AppendOne
<1>4. Append(t, a) \o <<b>> = Append(Append(t, a), b)
      BY <1>3, AppendOne
<1>. QED BY <1>2, <1>3, <1>4, TwoSymbols

\* What was written by one replacement and has not the symbol of the next one stays.
PairWithout(d, S, s) == \E a, b \in S : d = <<a, b>> /\ a # s /\ b # s

LEMMA ReplaceKeeps ==
  ASSUME NEW S, NEW t \in Seq(S), NEW s, NEW by \in Seq(S), NEW d, PairWithout(d, S, s)
  PROVE  Replace(t \o d, s, by) = Replace(t, s, by) \o d
<1>0. PICK a \in S, b \in S : d = <<a, b>> /\ a # s /\ b # s
      BY DEF PairWithout
<1>1. Append(t, a) \in Seq(S) /\ t \o <<a, b>> = Append(Append(t, a), b)
      BY AppendTwo
<1>2. Replace(Append(Append(t, a), b), s, by) = Replace(Append(t, a), s, by) \o <<b>>
  <2>1. PICK u \in Seq(S) : u = Append(t, a)
        BY <1>1
  <2>2. Replace(Append(u, b), s, by) = Replace(u, s, by) \o <<b>>
        BY <1>0, ReplaceOther
  <2>. QED BY <2>1, <2>2
<1>3. Replace(Append(t, a), s, by) = Replace(t, s, by) \o <<a>> /\ Replace(t, s, by) \in Seq(S)
      BY <1>0, ReplaceOther, ReplaceType
<1>4. <<a>> \in Seq(S) /\ <<b>> \in Seq(S)
      OBVIOUS
<1>5. (Replace(t, s, by) \o <<a>>) \o <<b>> = Replace(t, s, by) \o (<<a>> \o <<b>>)
      BY <1>3, <1>4, ConcatAssociative
<1>. QED BY <1>0, <1>1, <1>2, <1>3, <1>5, TwoSymbols

-------------------------------------------------------------------------------
(* What the escapes write for a symbol at the end of a text, and what a reader *)
(* takes from it                                                               *)

ColumnSymbol(c) ==
  IF c = Backslash THEN <<Backslash, Backslash>>
  ELSE IF c = Quote THEN <<Backslash, Quote>> ELSE <<c>>
TaskSymbol(c) == IF c = Newline THEN <<Backslash, "n">> ELSE ColumnSymbol(c)
ExampleSymbol(c) ==
  IF c = Return THEN <<>> ELSE IF c = Tab THEN <<Blank>> ELSE TaskSymbol(c)
UnlaidSymbol(c) == IF c = Return THEN <<>> ELSE <<IF c = Tab THEN Blank ELSE c>>

LEMMA SymbolsKnown ==
  /\ {Quote, Backslash, Newline, Return, Tab, Blank, "n"} \subseteq Symbols
  /\ Control = {Newline, Return, Tab}
  /\ Backslash # Quote   /\ Backslash # Newline /\ Backslash # Return /\ Backslash # Tab
  /\ Quote # Newline     /\ Quote # Return      /\ Quote # Tab        /\ Newline # Return
  /\ Newline # Tab       /\ Return # Tab        /\ "n" # Return       /\ "n" # Tab
  /\ Blank \notin Control \cup {Quote, Backslash}
BY DEF Symbols, Control, Quote, Backslash, Newline, Return, Tab, Blank, Comma

LEMMA BackslashAppend ==
  ASSUME NEW t \in Seq(Symbols), NEW c \in Symbols
  PROVE  /\ EscapeBackslash(t) \in Seq(Symbols)
         /\ EscapeBackslash(Append(t, c)) =
              EscapeBackslash(t) \o (IF c = Backslash THEN <<Backslash, Backslash>> ELSE <<c>>)
<1>1. <<Backslash, Backslash>> \in Seq(Symbols)
      BY SymbolsKnown
<1>2. PICK by \in Seq(Symbols) : by = <<Backslash, Backslash>>
      BY <1>1
<1>3. Replace(t, Backslash, by) \in Seq(Symbols)
      BY ReplaceAppend
<1>4. Replace(Append(t, c), Backslash, by) = Replace(t, Backslash, by) \o Replaced(c, Backslash, by)
      BY ReplaceAppend
<1>. QED BY <1>2, <1>3, <1>4 DEF EscapeBackslash, Replaced

LEMMA ColumnAppend ==
  ASSUME NEW t \in Seq(Symbols), NEW c \in Symbols
  PROVE  /\ EscapeColumn(t) \in Seq(Symbols)
         /\ EscapeColumn(Append(t, c)) = EscapeColumn(t) \o ColumnSymbol(c)
<1>1. PICK e \in Seq(Symbols) : e = EscapeBackslash(t)
      BY BackslashAppend
<1>2. PICK by \in Seq(Symbols) : by = <<Backslash, Quote>>
  <2>1. <<Backslash, Quote>> \in Seq(Symbols)
        BY SymbolsKnown
  <2>. QED BY <2>1
<1>0. Backslash \in Symbols /\ Backslash # Quote
      BY SymbolsKnown
<1>3. EscapeColumn(t) = Replace(e, Quote, by)
      BY <1>1, <1>2, Zenon DEF EscapeColumn, EscapeQuote
<1>4. Replace(e, Quote, by) \in Seq(Symbols)
      BY ReplaceAppend
<1>5. CASE c = Backslash
  <2>1. EscapeBackslash(Append(t, c)) = e \o <<Backslash, Backslash>>
        BY <1>1, <1>5, BackslashAppend
  <2>2. Replace(e \o <<Backslash, Backslash>>, Quote, by) =
          Replace(e, Quote, by) \o <<Backslash, Backslash>>
    <3>1. PICK d : d = <<Backslash, Backslash>>
          OBVIOUS
    <3>2. Replace(e \o d, Quote, by) = Replace(e, Quote, by) \o d
      <4>1. PairWithout(d, Symbols, Quote)
            BY <1>0, <3>1 DEF PairWithout
      <4>. QED BY <4>1, ReplaceKeeps
    <3>. QED BY <3>1, <3>2
  <2>3. EscapeColumn(Append(t, c)) = Replace(e \o <<Backslash, Backslash>>, Quote, by)
        BY <1>2, <2>1, Zenon DEF EscapeColumn, EscapeQuote
  <2>4. ColumnSymbol(c) = <<Backslash, Backslash>>
        BY <1>5 DEF ColumnSymbol
  <2>. QED BY <1>3, <1>4, <2>2, <2>3, <2>4
<1>6. CASE c # Backslash
  <2>1. EscapeBackslash(Append(t, c)) = Append(e, c)
    <3>1. EscapeBackslash(Append(t, c)) = e \o <<c>>
          BY <1>1, <1>6, BackslashAppend
    <3>. QED BY <3>1, AppendOne
  <2>2. Replace(Append(e, c), Quote, by) = Replace(e, Quote, by) \o Replaced(c, Quote, by)
        BY ReplaceAppend, SMTT(30)
  <2>3. EscapeColumn(Append(t, c)) = Replace(Append(e, c), Quote, by)
        BY <1>2, <2>1, Zenon DEF EscapeColumn, EscapeQuote
  <2>4. ColumnSymbol(c) = Replaced(c, Quote, by)
        BY <1>2, <1>6 DEF ColumnSymbol, Replaced
  <2>. QED BY <1>3, <1>4, <2>2, <2>3, <2>4
<1>. QED BY <1>5, <1>6

\* What ColumnSymbol writes is one symbol or an escape, which a later replacement keeps.
LEMMA ColumnSymbolReplaced ==
  ASSUME NEW e \in Seq(Symbols), NEW c \in Symbols, NEW s \in Control, NEW by \in Seq(Symbols)
  PROVE  Replace(e \o ColumnSymbol(c), s, by) =
           Replace(e, s, by) \o (IF c = s THEN by ELSE ColumnSymbol(c))
<1>0. Backslash \in Symbols /\ Quote \in Symbols
      BY SymbolsKnown
<1>1. s # Backslash /\ s # Quote
      BY SymbolsKnown
<1>2. CASE c = Backslash
  <2>1. ColumnSymbol(c) = <<Backslash, Backslash>> /\ c # s
        BY <1>1, <1>2 DEF ColumnSymbol
  <2>2. Replace(e \o <<Backslash, Backslash>>, s, by) =
          Replace(e, s, by) \o <<Backslash, Backslash>>
    <3>1. PICK d : d = <<Backslash, Backslash>>
          OBVIOUS
    <3>2. PairWithout(d, Symbols, s)
          BY <1>0, <1>1, <3>1 DEF PairWithout
    <3>3. Replace(e \o d, s, by) = Replace(e, s, by) \o d
          BY <3>2, ReplaceKeeps
    <3>. QED BY <3>1, <3>3
  <2>. QED BY <2>1, <2>2
<1>3. CASE c = Quote
  <2>1. ColumnSymbol(c) = <<Backslash, Quote>> /\ c # s
        BY <1>1, <1>3, SymbolsKnown DEF ColumnSymbol
  <2>2. Replace(e \o <<Backslash, Quote>>, s, by) = Replace(e, s, by) \o <<Backslash, Quote>>
    <3>1. PICK d : d = <<Backslash, Quote>>
          OBVIOUS
    <3>2. PairWithout(d, Symbols, s)
          BY <1>0, <1>1, <3>1 DEF PairWithout
    <3>3. Replace(e \o d, s, by) = Replace(e, s, by) \o d
          BY <3>2, ReplaceKeeps
    <3>. QED BY <3>1, <3>3
  <2>. QED BY <2>1, <2>2
<1>4. CASE c # Backslash /\ c # Quote
  <2>1. ColumnSymbol(c) = <<c>> /\ e \o <<c>> = Append(e, c)
        BY <1>4, AppendOne DEF ColumnSymbol
  <2>2. Replace(Append(e, c), s, by) = Replace(e, s, by) \o Replaced(c, s, by)
        BY ReplaceAppend
  <2>. QED BY <2>1, <2>2 DEF Replaced
<1>. QED BY <1>2, <1>3, <1>4

LEMMA TaskAppend ==
  ASSUME NEW t \in Seq(Symbols), NEW c \in Symbols
  PROVE  /\ EscapeTask(t) \in Seq(Symbols)
         /\ EscapeTask(Append(t, c)) = EscapeTask(t) \o TaskSymbol(c)
<1>1. PICK e \in Seq(Symbols) : e = EscapeColumn(t)
      BY ColumnAppend
<1>2. PICK by \in Seq(Symbols) : by = <<Backslash, "n">>
  <2>1. <<Backslash, "n">> \in Seq(Symbols)
        BY SymbolsKnown
  <2>. QED BY <2>1
<1>3. Newline \in Control
      BY SymbolsKnown
<1>4. EscapeTask(t) = Replace(e, Newline, by) /\ Replace(e, Newline, by) \in Seq(Symbols)
  <2>1. EscapeTask(t) = Replace(e, Newline, by)
        BY <1>1, <1>2, Zenon DEF EscapeTask, EscapeColumn, EscapeNewline
  <2>. QED BY <2>1, ReplaceType
<1>5. EscapeTask(Append(t, c)) = Replace(e \o ColumnSymbol(c), Newline, by)
  <2>1. EscapeColumn(Append(t, c)) = e \o ColumnSymbol(c)
        BY <1>1, ColumnAppend
  <2>. QED BY <1>2, <2>1, Zenon DEF EscapeTask, EscapeColumn, EscapeNewline
<1>6. Replace(e \o ColumnSymbol(c), Newline, by) =
        Replace(e, Newline, by) \o (IF c = Newline THEN by ELSE ColumnSymbol(c))
      BY <1>3, ColumnSymbolReplaced
<1>7. TaskSymbol(c) = IF c = Newline THEN by ELSE ColumnSymbol(c)
      BY <1>2 DEF TaskSymbol
<1>. QED BY <1>4, <1>5, <1>6, <1>7

TaskReplaced(c, s, by) == IF c = s THEN by ELSE TaskSymbol(c)

LEMMA TaskSymbolReplaced ==
  ASSUME NEW e \in Seq(Symbols), NEW c \in Symbols, NEW s \in {Return, Tab},
         NEW by \in Seq(Symbols)
  PROVE  Replace(e \o TaskSymbol(c), s, by) =
           Replace(e, s, by) \o TaskReplaced(c, s, by)
<1>1. s \in Control /\ s # Newline /\ s # Backslash /\ s # "n"
      BY SymbolsKnown
<1>2. CASE c = Newline
  <2>1. PICK d : d = <<Backslash, "n">>
        OBVIOUS
  <2>2. TaskSymbol(c) = d /\ c # s
        BY <1>1, <1>2, <2>1 DEF TaskSymbol
  <2>3. PairWithout(d, Symbols, s)
        BY <1>1, <2>1, SymbolsKnown DEF PairWithout
  <2>4. Replace(e \o d, s, by) = Replace(e, s, by) \o d
        BY <2>3, ReplaceKeeps
  <2>5. TaskReplaced(c, s, by) = TaskSymbol(c)
        BY <2>2 DEF TaskReplaced
  <2>. QED BY <2>2, <2>4, <2>5
<1>3. CASE c # Newline
  <2>1. TaskSymbol(c) = ColumnSymbol(c)
        BY <1>3 DEF TaskSymbol
  <2>2. Replace(e \o ColumnSymbol(c), s, by) =
          Replace(e, s, by) \o (IF c = s THEN by ELSE ColumnSymbol(c))
        BY <1>1, ColumnSymbolReplaced
  <2>3. TaskReplaced(c, s, by) = IF c = s THEN by ELSE ColumnSymbol(c)
        BY <2>1, Zenon DEF TaskReplaced
  <2>. QED BY <2>1, <2>2, <2>3, Zenon
<1>. QED BY <1>2, <1>3

LEMMA ExampleAppend ==
  ASSUME NEW t \in Seq(Symbols), NEW c \in Symbols
  PROVE  /\ EscapeExample(t) \in Seq(Symbols)
         /\ EscapeExample(Append(t, c)) = EscapeExample(t) \o ExampleSymbol(c)
<1>0. Return \in {Return, Tab} /\ Tab \in {Return, Tab}
      OBVIOUS
<1>1. PICK e \in Seq(Symbols) : e = EscapeTask(t)
      BY TaskAppend
<1>2. PICK none \in Seq(Symbols), one \in Seq(Symbols) : none = <<>> /\ one = <<Blank>>
  <2>1. <<>> \in Seq(Symbols) /\ <<Blank>> \in Seq(Symbols)
        BY SymbolsKnown
  <2>. QED BY <2>1
<1>3. PICK f \in Seq(Symbols) : f = Replace(e, Return, none)
      BY ReplaceType
<1>4. EscapeExample(t) = Replace(f, Tab, one)
      BY <1>1, <1>2, <1>3, Zenon DEF EscapeExample, EscapeTask
<1>5. Replace(f, Tab, one) \in Seq(Symbols)
      BY ReplaceType
<1>6. EscapeExample(Append(t, c)) = Replace(Replace(e \o TaskSymbol(c), Return, none), Tab, one)
  <2>1. EscapeTask(Append(t, c)) = e \o TaskSymbol(c)
        BY <1>1, TaskAppend
  <2>. QED BY <1>2, <2>1, Zenon DEF EscapeExample, EscapeTask
<1>7. Replace(e \o TaskSymbol(c), Return, none) =
        f \o TaskReplaced(c, Return, none)
  <2>1. Replace(e \o TaskSymbol(c), Return, none) =
          Replace(e, Return, none) \o TaskReplaced(c, Return, none)
        BY <1>0, TaskSymbolReplaced
  <2>. QED BY <1>3, <2>1, Zenon
<1>8. CASE c = Return
  <2>1. f \o none = f
        BY <1>2, ConcatEmptySeq
  <2>2. EscapeExample(Append(t, c)) = Replace(f, Tab, one)
        BY <1>6, <1>7, <1>8, <2>1 DEF TaskReplaced
  <2>3. ExampleSymbol(c) = none
        BY <1>2, <1>8 DEF ExampleSymbol
  <2>4. Replace(f, Tab, one) \o none = Replace(f, Tab, one)
        BY <1>2, <1>5, ConcatEmptySeq
  <2>. QED BY <1>4, <1>5, <2>2, <2>3, <2>4
<1>9. CASE c # Return
  <2>1. EscapeExample(Append(t, c)) = Replace(f \o TaskSymbol(c), Tab, one)
        BY <1>6, <1>7, <1>9 DEF TaskReplaced
  <2>2. Replace(f \o TaskSymbol(c), Tab, one) =
          Replace(f, Tab, one) \o TaskReplaced(c, Tab, one)
        BY <1>0, TaskSymbolReplaced
  <2>3. ExampleSymbol(c) = TaskReplaced(c, Tab, one)
        BY <1>2, <1>9 DEF ExampleSymbol, TaskReplaced
  <2>. QED BY <1>4, <1>5, <2>1, <2>2, <2>3
<1>. QED BY <1>8, <1>9

LEMMA UnlaidAppend ==
  ASSUME NEW t \in Seq(Symbols), NEW c \in Symbols
  PROVE  /\ Unlaid(t) \in Seq(Symbols)
         /\ Unlaid(Append(t, c)) = Unlaid(t) \o UnlaidSymbol(c)
<1>0. \A x \in Symbols : UnlaidSymbol(x) \in Seq(Symbols)
      BY SymbolsKnown DEF UnlaidSymbol
<1>1. PICK N \in Nat : N = Len(t)
      OBVIOUS
<1>2. PICK u \in Seq(Symbols) : u = Append(t, c)
      BY AppendProperties
<1>3. DOMAIN u = 1..(N + 1) /\ u[N + 1] = c /\ \A i \in 1..N : u[i] = t[i] /\ t[i] \in Symbols
      BY <1>1, <1>2
<1>4. PICK parts : parts = [i \in 1..N |-> UnlaidSymbol(t[i])]
      OBVIOUS
<1>5. PICK all : all = [i \in 1..(N + 1) |-> UnlaidSymbol(u[i])]
      OBVIOUS
<1>6. parts \in Seq(Seq(Symbols)) /\ Len(parts) = N
      BY <1>0, <1>3, <1>4
<1>7. all \in Seq(Seq(Symbols)) /\ Len(all) = N + 1
  <2>1. \A i \in 1..(N + 1) : u[i] \in Symbols
        BY <1>2, <1>3
  <2>. QED BY <1>0, <1>5, <2>1
<1>8. PICK p \in Seq(Symbols) : p = UnlaidSymbol(c)
      BY <1>0
<1>9. /\ Append(parts, p) \in Seq(Seq(Symbols)) /\ Len(Append(parts, p)) = N + 1
      /\ Append(parts, p)[N + 1] = p /\ \A i \in 1..N : Append(parts, p)[i] = parts[i]
      BY <1>6, AppendProperties
<1>10. ASSUME NEW i \in 1..(N + 1) PROVE Append(parts, p)[i] = all[i]
  <2>1. CASE i = N + 1
        BY <1>3, <1>5, <1>8, <1>9, <2>1
  <2>2. CASE i # N + 1
    <3>1. i \in 1..N
          BY <2>2
    <3>. QED BY <1>3, <1>4, <1>5, <1>9, <3>1
  <2>. QED BY <2>1, <2>2
<1>11. Append(parts, p) = all
       BY <1>7, <1>9, <1>10, SeqEqual
<1>12. /\ FlattenSeq(parts) \in Seq(Symbols)
       /\ FlattenSeq(Append(parts, p)) = FlattenSeq(parts) \o p
       BY <1>6, FlattenAppend
<1>13. Unlaid(t) = FlattenSeq(parts)
  <2>1. DOMAIN t = 1..N
        BY <1>1
  <2>. QED BY <1>4, <2>1, Zenon DEF Unlaid, UnlaidSymbol
<1>14. Unlaid(u) = FlattenSeq(all)
       BY <1>3, <1>5, Zenon DEF Unlaid, UnlaidSymbol
<1>. QED BY <1>2, <1>8, <1>11, <1>12, <1>13, <1>14

LEMMA ColumnSymbolAdds ==
  ASSUME NEW c \in Symbols \ Control, NEW x \in Seq(Symbols)
  PROVE  ColumnSymbol(c) \in Seq(Symbols) /\ Adds(ColumnSymbol(c), x, Append(x, c))
<1>1. CASE c = Backslash
  <2>1. Backslash \in DOMAIN Unescape /\ Unescape[Backslash] = Backslash
        BY DEF Unescape, Backslash
  <2>2. ColumnSymbol(c) = <<Backslash, Backslash>>
        BY <1>1 DEF ColumnSymbol
  <2>3. Adds(<<Backslash, Backslash>>, x, Append(x, Unescape[Backslash]))
        BY <2>1, AddsEscaped
  <2>. QED BY <1>1, <2>1, <2>2, <2>3
<1>2. CASE c = Quote
  <2>1. Quote \in DOMAIN Unescape /\ Unescape[Quote] = Quote
        BY DEF Unescape, Quote
  <2>2. ColumnSymbol(c) = <<Backslash, Quote>>
        BY <1>2, SymbolsKnown DEF ColumnSymbol
  <2>3. Adds(<<Backslash, Quote>>, x, Append(x, Unescape[Quote]))
        BY <2>1, AddsEscaped
  <2>4. <<Backslash, Quote>> \in Seq(Symbols)
        BY SymbolsKnown
  <2>. QED BY <1>2, <2>1, <2>2, <2>3, <2>4
<1>3. CASE c \notin {Backslash, Quote}
  <2>1. ColumnSymbol(c) = <<c>>
        BY <1>3 DEF ColumnSymbol
  <2>2. Adds(<<c>>, x, Append(x, c))
        BY <1>3, AddsPlain
  <2>. QED BY <2>1, <2>2
<1>. QED BY <1>1, <1>2, <1>3

LEMMA TaskSymbolAdds ==
  ASSUME NEW c \in Symbols \ {Return, Tab}, NEW x \in Seq(Symbols)
  PROVE  TaskSymbol(c) \in Seq(Symbols) /\ Adds(TaskSymbol(c), x, Append(x, c))
<1>1. CASE c = Newline
  <2>1. "n" \in DOMAIN Unescape /\ Unescape["n"] = Newline
        BY DEF Unescape, Newline
  <2>2. TaskSymbol(c) = <<Backslash, "n">>
        BY <1>1 DEF TaskSymbol
  <2>3. Adds(<<Backslash, "n">>, x, Append(x, Unescape["n"]))
        BY <2>1, AddsEscaped
  <2>4. <<Backslash, "n">> \in Seq(Symbols)
        BY SymbolsKnown
  <2>. QED BY <1>1, <2>1, <2>2, <2>3, <2>4
<1>2. CASE c # Newline
  <2>1. c \in Symbols \ Control
        BY <1>2, SymbolsKnown
  <2>2. ColumnSymbol(c) \in Seq(Symbols) /\ Adds(ColumnSymbol(c), x, Append(x, c))
        BY <2>1, ColumnSymbolAdds
  <2>. QED BY <1>2, <2>2 DEF TaskSymbol
<1>. QED BY <1>1, <1>2

LEMMA ExampleSymbolAdds ==
  ASSUME NEW c \in Symbols, NEW x \in Seq(Symbols)
  PROVE  ExampleSymbol(c) \in Seq(Symbols) /\ Adds(ExampleSymbol(c), x, x \o UnlaidSymbol(c))
<1>1. CASE c = Return
  <2>1. ExampleSymbol(c) = <<>> /\ UnlaidSymbol(c) = <<>>
        BY <1>1 DEF ExampleSymbol, UnlaidSymbol
  <2>2. x \o <<>> = x
        BY ConcatEmptySeq
  <2>3. Adds(<<>>, x, x)
        BY AddsNothing
  <2>4. Adds(ExampleSymbol(c), x, x \o UnlaidSymbol(c))
        BY <2>1, <2>2, <2>3, Zenon
  <2>5. ExampleSymbol(c) \in Seq(Symbols)
        BY <2>1
  <2>. QED BY <2>4, <2>5
<1>2. CASE c = Tab
  <2>1. ExampleSymbol(c) = <<Blank>> /\ UnlaidSymbol(c) = <<Blank>>
        BY <1>2, SymbolsKnown DEF ExampleSymbol, UnlaidSymbol
  <2>2. Blank \in Symbols /\ Blank \notin Control \cup {Quote, Backslash}
        BY SymbolsKnown
  <2>3. x \o <<Blank>> = Append(x, Blank)
        BY <2>2, AppendOne
  <2>4. Adds(<<Blank>>, x, Append(x, Blank))
        BY <2>2, AddsPlain
  <2>5. Adds(ExampleSymbol(c), x, x \o UnlaidSymbol(c))
        BY <2>1, <2>3, <2>4, Zenon
  <2>6. ExampleSymbol(c) \in Seq(Symbols)
        BY <2>1, <2>2
  <2>. QED BY <2>5, <2>6
<1>3. CASE c \notin {Return, Tab}
  <2>1. ExampleSymbol(c) = TaskSymbol(c) /\ UnlaidSymbol(c) = <<c>>
        BY <1>3 DEF ExampleSymbol, UnlaidSymbol
  <2>2. TaskSymbol(c) \in Seq(Symbols) /\ Adds(TaskSymbol(c), x, Append(x, c))
        BY <1>3, TaskSymbolAdds
  <2>3. x \o <<c>> = Append(x, c)
        BY AppendOne
  <2>. QED BY <2>1, <2>2, <2>3
<1>. QED BY <1>1, <1>2, <1>3

LEMMA EscapesOfNothing ==
  /\ EscapeColumn(<<>>) = <<>> /\ EscapeTask(<<>>) = <<>> /\ EscapeExample(<<>>) = <<>>
  /\ Unlaid(<<>>) = <<>>
<1>1. EscapeColumn(<<>>) = <<>>
      BY ReplaceNothing, Zenon DEF EscapeColumn, EscapeQuote, EscapeBackslash
<1>2. EscapeTask(<<>>) = <<>>
      BY <1>1, ReplaceNothing, Zenon DEF EscapeTask, EscapeColumn, EscapeNewline
<1>3. EscapeExample(<<>>) = <<>>
      BY <1>2, ReplaceNothing, Zenon DEF EscapeExample, EscapeTask
<1>4. Unlaid(<<>>) = <<>>
  <2>1. [i \in DOMAIN <<>> |-> IF <<>>[i] = Return THEN <<>>
                               ELSE <<IF <<>>[i] = Tab THEN Blank ELSE <<>>[i]>>] = <<>>
        OBVIOUS
  <2>. QED BY <2>1, FlattenNothing, Zenon DEF Unlaid
<1>. QED BY <1>1, <1>2, <1>3, <1>4

\* A reader takes back from each escape the text that was escaped; from an example's,
\* the text without its layout.
LEMMA ColumnSpelled ==
  ASSUME NEW t \in Seq(Symbols \ Control)
  PROVE  EscapeColumn(t) \in Seq(Symbols) /\ Adds(EscapeColumn(t), <<>>, t)
<1> DEFINE A == Symbols \ Control
           Good == {s \in Seq(A) : Adds(EscapeColumn(s), <<>>, s)}
<1>1. <<>> \in Good
      BY EscapesOfNothing, AddsNothing
<1>2. ASSUME NEW s \in Seq(A), NEW c \in A, s \in Good PROVE Append(s, c) \in Good
  <2>1. s \in Seq(Symbols) /\ c \in Symbols
        OBVIOUS
  <2>2. EscapeColumn(s) \in Seq(Symbols) /\ EscapeColumn(Append(s, c)) = EscapeColumn(s) \o ColumnSymbol(c)
        BY <2>1, ColumnAppend
  <2>3. ColumnSymbol(c) \in Seq(Symbols) /\ Adds(ColumnSymbol(c), s, Append(s, c))
        BY <2>1, ColumnSymbolAdds
  <2>4. Adds(EscapeColumn(s), <<>>, s)
        BY <1>2
  <2>5. Adds(EscapeColumn(s) \o ColumnSymbol(c), <<>>, Append(s, c))
        BY <2>2, <2>3, <2>4, AddsConcat
  <2>6. Append(s, c) \in Seq(A)
        BY AppendProperties
  <2>. QED BY <2>2, <2>5, <2>6
<1>3. t \in Seq(Symbols) /\ t \in Seq(A)
      OBVIOUS
<1>. HIDE DEF Good, A
<1>4. t \in Good
      BY <1>1, <1>2, <1>3, SequenceInduction
<1>5. EscapeColumn(t) \in Seq(Symbols)
  <2>1. Backslash \in Symbols
        BY SymbolsKnown
  <2>. QED BY <1>3, <2>1, ColumnAppend
<1>. QED BY <1>4, <1>5 DEF Good

LEMMA TaskSpelled ==
  ASSUME NEW t \in Seq(Symbols \ {Return, Tab})
  PROVE  EscapeTask(t) \in Seq(Symbols) /\ Adds(EscapeTask(t), <<>>, t)
<1> DEFINE A == Symbols \ {Return, Tab}
           Good == {s \in Seq(A) : Adds(EscapeTask(s), <<>>, s)}
<1>1. <<>> \in Good
      BY EscapesOfNothing, AddsNothing
<1>2. ASSUME NEW s \in Seq(A), NEW c \in A, s \in Good PROVE Append(s, c) \in Good
  <2>1. s \in Seq(Symbols) /\ c \in Symbols
        OBVIOUS
  <2>2. EscapeTask(s) \in Seq(Symbols) /\ EscapeTask(Append(s, c)) = EscapeTask(s) \o TaskSymbol(c)
        BY <2>1, TaskAppend
  <2>3. TaskSymbol(c) \in Seq(Symbols) /\ Adds(TaskSymbol(c), s, Append(s, c))
        BY <2>1, TaskSymbolAdds
  <2>4. Adds(EscapeTask(s), <<>>, s)
        BY <1>2
  <2>5. Adds(EscapeTask(s) \o TaskSymbol(c), <<>>, Append(s, c))
        BY <2>2, <2>3, <2>4, AddsConcat
  <2>6. Append(s, c) \in Seq(A)
        BY AppendProperties
  <2>. QED BY <2>2, <2>5, <2>6
<1>3. t \in Seq(Symbols) /\ t \in Seq(A)
      OBVIOUS
<1>. HIDE DEF Good, A
<1>4. t \in Good
      BY <1>1, <1>2, <1>3, SequenceInduction
<1>5. EscapeTask(t) \in Seq(Symbols)
  <2>1. Backslash \in Symbols
        BY SymbolsKnown
  <2>. QED BY <1>3, <2>1, TaskAppend
<1>. QED BY <1>4, <1>5 DEF Good

LEMMA ExampleSpelled ==
  ASSUME NEW t \in Seq(Symbols)
  PROVE  EscapeExample(t) \in Seq(Symbols) /\ Adds(EscapeExample(t), <<>>, Unlaid(t))
<1> DEFINE Good == {s \in Seq(Symbols) : Adds(EscapeExample(s), <<>>, Unlaid(s))}
<1>1. <<>> \in Good
      BY EscapesOfNothing, AddsNothing
<1>2. ASSUME NEW s \in Seq(Symbols), NEW c \in Symbols, s \in Good PROVE Append(s, c) \in Good
  <2>2. EscapeExample(s) \in Seq(Symbols) /\ EscapeExample(Append(s, c)) = EscapeExample(s) \o ExampleSymbol(c)
        BY ExampleAppend
  <2>3. Unlaid(s) \in Seq(Symbols) /\ Unlaid(Append(s, c)) = Unlaid(s) \o UnlaidSymbol(c)
        BY UnlaidAppend
  <2>4. ExampleSymbol(c) \in Seq(Symbols) /\ Adds(ExampleSymbol(c), Unlaid(s), Unlaid(s) \o UnlaidSymbol(c))
        BY <2>3, ExampleSymbolAdds
  <2>5. Adds(EscapeExample(s), <<>>, Unlaid(s))
        BY <1>2
  <2>6. Adds(EscapeExample(s) \o ExampleSymbol(c), <<>>, Unlaid(s) \o UnlaidSymbol(c))
        BY <2>2, <2>4, <2>5, AddsConcat
  <2>7. Append(s, c) \in Seq(Symbols)
        BY AppendProperties
  <2>. QED BY <2>2, <2>3, <2>6, <2>7
<1>. HIDE DEF Good
<1>4. t \in Good
      BY <1>1, <1>2, SequenceInduction
<1>5. EscapeExample(t) \in Seq(Symbols)
  <2>1. Backslash \in Symbols
        BY SymbolsKnown
  <2>. QED BY <2>1, ExampleAppend
<1>. QED BY <1>4, <1>5 DEF Good

-------------------------------------------------------------------------------
(* Strings, members, objects and arrays *)

Keys  == {"description", "sql", "name", "type", "prompt"}
Marks == {OpenArray, CloseArray, OpenObject, CloseObject, Colon}
Chars == Symbols \cup Marks \cup Keys

LEMMA CharsKnown ==
  /\ Quote \in Chars /\ Comma \in Chars /\ Colon \in Chars /\ Backslash \in Chars
  /\ OpenArray \in Chars /\ CloseArray \in Chars /\ OpenObject \in Chars /\ CloseObject \in Chars
  /\ Keys \subseteq Chars
BY DEF Chars, Marks, Symbols

LEMMA QuotedIsChars ==
  ASSUME NEW u \in Seq(Chars)
  PROVE  /\ Quoted(u) \in Seq(Chars) /\ <<Quote>> \in Seq(Chars) /\ <<Quote>> \o u \in Seq(Chars)
         /\ Quoted(u) = (<<Quote>> \o u) \o <<Quote>>
<1>1. <<Quote>> \in Seq(Chars)
      BY CharsKnown
<1>2. <<Quote>> \o u \in Seq(Chars)
      BY <1>1, ConcatProperties
<1>3. (<<Quote>> \o u) \o <<Quote>> \in Seq(Chars)
      BY <1>1, <1>2, ConcatProperties
<1>4. Quoted(u) = (<<Quote>> \o u) \o <<Quote>>
      BY <1>1, ConcatAssociative DEF Quoted
<1>. QED BY <1>1, <1>2, <1>3, <1>4

LEMMA ReadsQuoted ==
  ASSUME NEW u \in Seq(Chars), NEW said, Adds(u, <<>>, said), NEW e \in Opens,
         NEW w, NEW x, NEW i, NEW is, NEW t, TakesClosing(At("string", e, said, i, is), Quote, t)
  PROVE  Reads(Quoted(u), At(e, w, x, i, is), t)
<1>1. TakesOpening(At(e, w, x, i, is), Quote, At("string", e, <<>>, i, is))
      BY DEF TakesOpening, At
<1>2. Reads(<<Quote>>, At(e, w, x, i, is), At("string", e, <<>>, i, is))
      BY <1>1, ReadsOne DEF Takes
<1>3. Reads(u, At("string", e, <<>>, i, is), At("string", e, said, i, is))
      BY DEF Adds
<1>4. Reads(<<Quote>>, At("string", e, said, i, is), t)
      BY ReadsOne DEF Takes
<1>5. Reads(<<Quote>> \o u, At(e, w, x, i, is), At("string", e, said, i, is))
      BY <1>2, <1>3, QuotedIsChars, ReadsConcat
<1>6. Reads((<<Quote>> \o u) \o <<Quote>>, At(e, w, x, i, is), t)
      BY <1>4, <1>5, QuotedIsChars, ReadsConcat
<1>. QED BY <1>6, QuotedIsChars

LEMMA QuotedItem ==
  ASSUME NEW u \in Seq(Chars), NEW said, Adds(u, <<>>, said), NEW e \in {"first", "next"},
         NEW i, NEW is
  PROVE  Passes(Quoted(u), <<e, i, is>>, <<"after", i, Append(is, <<said>>)>>)
<1>1. ASSUME NEW w, NEW x
      PROVE  Reads(Quoted(u), At(e, w, x, i, is), At("after", e, said, i, Append(is, <<said>>)))
  <2>1. e \in Opens /\ AfterString[e] = "after"
        BY DEF Opens, AfterString
  <2>2. TakesClosing(At("string", e, said, i, is), Quote,
                     At("after", e, said, i, Append(is, <<said>>)))
        BY <2>1 DEF TakesClosing, At
  <2>. QED BY <2>1, <2>2, ReadsQuoted
<1>. QED BY <1>1 DEF Passes

LEMMA QuotedPart ==
  ASSUME NEW u \in Seq(Chars), NEW said, Adds(u, <<>>, said), NEW e \in {"key", "value"},
         NEW i, NEW is
  PROVE  Passes(Quoted(u), <<e, i, is>>, <<AfterString[e], Append(i, said), is>>)
<1>1. ASSUME NEW w, NEW x
      PROVE  Reads(Quoted(u), At(e, w, x, i, is), At(AfterString[e], e, said, Append(i, said), is))
  <2>1. e \in Opens /\ e \notin {"first", "next"}
        BY DEF Opens
  <2>2. TakesClosing(At("string", e, said, i, is), Quote,
                     At(AfterString[e], e, said, Append(i, said), is))
        BY <2>1 DEF TakesClosing, At
  <2>. QED BY <2>1, <2>2, ReadsQuoted
<1>. QED BY <1>1 DEF Passes

LEMMA MemberPasses ==
  ASSUME NEW key \in Keys, NEW u \in Seq(Chars), NEW said, Adds(u, <<>>, said), NEW i, NEW is
  PROVE  /\ Member(key, u) \in Seq(Chars)
         /\ Passes(Member(key, u), <<"key", i, is>>,
                   <<"member", Append(Append(i, <<key>>), said), is>>)
<1>1. key \in Chars /\ <<key>> \in Seq(Chars) /\ <<Colon>> \in Seq(Chars)
      BY CharsKnown
<1>2. Adds(<<key>>, <<>>, <<key>>)
  <2>1. key \notin Control \cup {Quote, Backslash}
        BY DEF Keys, Control, Quote, Backslash, Newline, Return, Tab
  <2>2. Append(<<>>, key) = <<key>>
        OBVIOUS
  <2>. QED BY <2>1, <2>2, AddsPlain
<1>3. Passes(Quoted(<<key>>), <<"key", i, is>>, <<"colon", Append(i, <<key>>), is>>)
  <2>1. AfterString["key"] = "colon"
        BY DEF AfterString
  <2>. QED BY <1>1, <1>2, <2>1, QuotedPart
<1>4. Passes(<<Colon>>, <<"colon", Append(i, <<key>>), is>>, <<"value", Append(i, <<key>>), is>>)
  <2>1. PICK m \in Moves : m = <<"colon", Colon, "value">>
        BY DEF Moves
  <2>2. m[1] = "colon" /\ m[2] = Colon /\ m[3] = "value" /\ m[2] # CloseObject
        BY <2>1 DEF Colon, CloseObject
  <2>. QED BY <2>2, PassesMark
<1>5. Passes(Quoted(u), <<"value", Append(i, <<key>>), is>>,
             <<"member", Append(Append(i, <<key>>), said), is>>)
  <2>1. AfterString["value"] = "member"
        BY DEF AfterString
  <2>. QED BY <2>1, QuotedPart
<1>6. Quoted(<<key>>) \in Seq(Chars) /\ Quoted(u) \in Seq(Chars)
      BY <1>1, QuotedIsChars
<1>7. Passes(Quoted(<<key>>) \o <<Colon>>, <<"key", i, is>>, <<"value", Append(i, <<key>>), is>>)
      BY <1>1, <1>3, <1>4, <1>6, PassesConcat
<1>8. Quoted(<<key>>) \o <<Colon>> \in Seq(Chars)
      BY <1>1, <1>6, ConcatProperties
<1>9. Passes((Quoted(<<key>>) \o <<Colon>>) \o Quoted(u), <<"key", i, is>>,
             <<"member", Append(Append(i, <<key>>), said), is>>)
      BY <1>5, <1>6, <1>7, <1>8, PassesConcat
<1>10. (Quoted(<<key>>) \o <<Colon>>) \o Quoted(u) \in Seq(Chars)
       BY <1>6, <1>8, ConcatProperties
<1>11. Member(key, u) = (Quoted(<<key>>) \o <<Colon>>) \o Quoted(u)
       BY <1>1, <1>6, ConcatAssociative DEF Member
<1>. QED BY <1>9, <1>10, <1>11

LEMMA JoinIsChars ==
  ASSUME NEW C, Comma \in C, NEW parts \in Seq(Seq(C)), NEW all,
         all = [k \in DOMAIN parts |-> IF k = 1 THEN parts[k] ELSE <<Comma>> \o parts[k]]
  PROVE  /\ all \in Seq(Seq(C)) /\ Len(all) = Len(parts)
         /\ Join(parts) = FlattenSeq(all) /\ Join(parts) \in Seq(C)
<1>1. PICK N \in Nat : N = Len(parts) /\ DOMAIN parts = 1..N
      OBVIOUS
<1>2. \A k \in 1..N : parts[k] \in Seq(C) /\ <<Comma>> \o parts[k] \in Seq(C)
  <2>1. <<Comma>> \in Seq(C)
        OBVIOUS
  <2>2. \A k \in 1..N : parts[k] \in Seq(C)
        BY <1>1
  <2>. QED BY <2>1, <2>2, ConcatProperties
<1>3. \A k \in 1..N : (IF k = 1 THEN parts[k] ELSE <<Comma>> \o parts[k]) \in Seq(C)
      BY <1>2
<1>4. all \in Seq(Seq(C)) /\ Len(all) = N
      BY <1>1, <1>3
<1>5. Join(parts) = FlattenSeq(all)
      BY Zenon DEF Join
<1>6. FlattenSeq(all) \in Seq(C)
  <2>1. <<>> \in Seq(C)
        OBVIOUS
  <2>. QED BY <1>4, <2>1, FlattenAppend
<1>. QED BY <1>1, <1>4, <1>5, <1>6

\* Parts and the commas between them are read one after the other.
LEMMA JoinPasses ==
  ASSUME NEW C, Comma \in C, NEW parts \in Seq(Seq(C)), Len(parts) >= 1, NEW from, NEW to,
         \A k \in 1..Len(parts) : Passes(parts[k], from[k], to[k]),
         \A k \in 2..Len(parts) : Passes(<<Comma>>, to[k-1], from[k])
  PROVE  Passes(Join(parts), from[1], to[Len(parts)])
<1>1. PICK N \in Nat : N = Len(parts) /\ DOMAIN parts = 1..N /\ N >= 1
      OBVIOUS
<1>2. PICK all : all = [k \in 1..N |-> IF k = 1 THEN parts[k] ELSE <<Comma>> \o parts[k]]
      OBVIOUS
<1>3. all \in Seq(Seq(C)) /\ Len(all) = N /\ Join(parts) = FlattenSeq(all)
      BY <1>1, <1>2, JoinIsChars
<1>4. PICK at : at = [k \in 0..N |-> IF k = 0 THEN from[1] ELSE to[k]]
      OBVIOUS
<1>5. ASSUME NEW k \in 1..N PROVE Passes(all[k], at[k-1], at[k])
  <2>1. Passes(parts[k], from[k], to[k]) /\ at[k] = to[k]
        BY <1>1, <1>4
  <2>2. CASE k = 1
    <3>1. all[k] = parts[k] /\ at[k-1] = from[k]
          BY <1>1, <1>2, <1>4, <2>2
    <3>. QED BY <2>1, <3>1
  <2>3. CASE k # 1
    <3>1. k \in 2..N /\ k - 1 \in 0..N /\ k - 1 # 0
          BY <2>3
    <3>2. all[k] = <<Comma>> \o parts[k] /\ at[k-1] = to[k-1]
          BY <1>2, <1>4, <2>3, <3>1
    <3>3. Passes(<<Comma>>, to[k-1], from[k])
          BY <1>1, <3>1
    <3>4. <<Comma>> \in Seq(C)
          OBVIOUS
    <3>5. parts[k] \in Seq(C)
          BY <1>1
    <3>6. Passes(<<Comma>> \o parts[k], to[k-1], to[k])
          BY <2>1, <3>3, <3>4, <3>5, PassesConcat
    <3>. QED BY <2>1, <3>2, <3>6
  <2>. QED BY <2>2, <2>3
<1>6. Passes(FlattenSeq(all), at[0], at[Len(all)])
      BY <1>3, <1>5, PassesFlatten
<1>7. at[0] = from[1] /\ at[N] = to[N]
      BY <1>1, <1>4
<1>. QED BY <1>1, <1>3, <1>6, <1>7

LEMMA SymbolsAreChars == Seq(Symbols) \subseteq Seq(Chars)
BY DEF Chars

\* The lemma's keys, escaped texts and what they say are those of one object.
LEMMA MembersPass ==
  ASSUME NEW n \in Nat, n >= 1, NEW keys \in [1..n -> Keys], NEW esc \in [1..n -> Seq(Symbols)],
         NEW said \in [1..n -> Seq(Symbols)], \A m \in 1..n : Adds(esc[m], <<>>, said[m]),
         NEW members, members = [m \in 1..n |-> Member(keys[m], esc[m])],
         NEW row, row = [m \in 1..n |-> << <<keys[m]>>, said[m] >>], NEW is
  PROVE  /\ Join(members) \in Seq(Chars)
         /\ Passes(Join(members), <<"key", <<>>, is>>, <<"member", FlattenSeq(row), is>>)
<1>1. ASSUME NEW m \in 1..n
      PROVE  /\ keys[m] \in Keys /\ esc[m] \in Seq(Chars) /\ said[m] \in Seq(Chars)
             /\ <<keys[m]>> \in Seq(Chars) /\ row[m] = << <<keys[m]>>, said[m] >>
             /\ members[m] = Member(keys[m], esc[m])
  <2>1. keys[m] \in Keys /\ keys[m] \in Chars
        BY CharsKnown
  <2>2. esc[m] \in Seq(Symbols) /\ said[m] \in Seq(Symbols)
        OBVIOUS
  <2>3. esc[m] \in Seq(Chars) /\ said[m] \in Seq(Chars)
        BY <2>2, SymbolsAreChars, Zenon
  <2>. QED BY <2>1, <2>3
<1>2. \A m \in 1..n : members[m] \in Seq(Chars)
  <2>1. ASSUME NEW m \in 1..n PROVE Member(keys[m], esc[m]) \in Seq(Chars)
        BY <1>1, MemberPasses
  <2>. QED BY <1>1, <2>1
<1>3. members \in Seq(Seq(Chars)) /\ Len(members) = n
      BY <1>2
<1>4. PICK T : T = Seq(Chars)
      OBVIOUS
<1>5. \A m \in 1..n : row[m] \in Seq(T)
      BY <1>1, <1>4
<1>6. row \in Seq(Seq(T)) /\ Len(row) = n
      BY <1>5
<1>7. PICK acc \in [0..n -> Seq(T)] : Flattens(acc, row)
      BY <1>6, FlattensExists
<1>8. acc[0] = <<>> /\ \A m \in 1..n : acc[m] = acc[m-1] \o row[m]
      BY <1>6, <1>7 DEF Flattens
<1>9. acc[n] = FlattenSeq(row)
      BY <1>6, <1>7, FlattenUnfolds
<1>10. PICK from : from = [m \in 1..n |-> <<"key", acc[m-1], is>>]
       OBVIOUS
<1>11. PICK to : to = [m \in 1..n |-> <<"member", acc[m], is>>]
       OBVIOUS
<1>12. ASSUME NEW m \in 1..n PROVE Passes(members[m], from[m], to[m])
  <2>1. m - 1 \in 0..n /\ acc[m-1] \in Seq(T)
        OBVIOUS
  <2>2. <<keys[m]>> \in T /\ said[m] \in T
        BY <1>1, <1>4
  <2>3. acc[m-1] \o << <<keys[m]>>, said[m] >> = Append(Append(acc[m-1], <<keys[m]>>), said[m])
    <3>1. PICK a \in Seq(T), y \in T, z \in T : a = acc[m-1] /\ y = <<keys[m]>> /\ z = said[m]
          BY <2>1, <2>2, Zenon
    <3>2. a \o <<y, z>> = Append(Append(a, y), z)
          BY AppendTwo
    <3>. QED BY <3>1, <3>2, Zenon
  <2>4. acc[m] = Append(Append(acc[m-1], <<keys[m]>>), said[m])
        BY <1>1, <1>8, <2>3
  <2>5. Adds(esc[m], <<>>, said[m])
        OBVIOUS
  <2>6. Passes(Member(keys[m], esc[m]), <<"key", acc[m-1], is>>,
               <<"member", Append(Append(acc[m-1], <<keys[m]>>), said[m]), is>>)
        BY <1>1, <2>5, MemberPasses
  <2>. QED BY <1>1, <1>10, <1>11, <2>4, <2>6
<1>13. ASSUME NEW m \in 2..n PROVE Passes(<<Comma>>, to[m-1], from[m])
  <2>1. PICK k \in Moves : k = <<"member", Comma, "key">>
        BY DEF Moves
  <2>2. k[1] = "member" /\ k[2] = Comma /\ k[3] = "key" /\ k[2] # CloseObject
        BY <2>1 DEF Comma, CloseObject
  <2>3. Passes(<<Comma>>, <<"member", acc[m-1], is>>, <<"key", acc[m-1], is>>)
        BY <2>2, PassesMark
  <2>4. m \in 1..n /\ m - 1 \in 1..n
        OBVIOUS
  <2>5. to[m-1] = <<"member", acc[m-1], is>> /\ from[m] = <<"key", acc[m-1], is>>
        BY <1>10, <1>11, <2>4, Zenon
  <2>. QED BY <2>3, <2>5
<1>14. Comma \in Chars
       BY CharsKnown
<1>15. Passes(Join(members), from[1], to[n])
  <2>1. Len(members) >= 1
        BY <1>3
  <2>2. \A m \in 1..Len(members) : Passes(members[m], from[m], to[m])
        BY <1>3, <1>12
  <2>3. \A m \in 2..Len(members) : Passes(<<Comma>>, to[m-1], from[m])
        BY <1>3, <1>13
  <2>4. Passes(Join(members), from[1], to[Len(members)])
        BY <1>3, <1>14, <2>1, <2>2, <2>3, JoinPasses
  <2>. QED BY <1>3, <2>4
<1>16. from[1] = <<"key", <<>>, is>> /\ to[n] = <<"member", FlattenSeq(row), is>>
  <2>1. 1 \in 1..n /\ n \in 1..n /\ 1 - 1 = 0
        OBVIOUS
  <2>. QED BY <1>8, <1>9, <1>10, <1>11, <2>1
<1>17. Join(members) \in Seq(Chars)
  <2>1. PICK all : all = [k \in DOMAIN members |-> IF k = 1 THEN members[k] ELSE <<Comma>> \o members[k]]
        OBVIOUS
  <2>. QED BY <1>3, <1>14, <2>1, JoinIsChars
<1>. QED BY <1>15, <1>16, <1>17

LEMMA ObjectPasses ==
  ASSUME NEW members, Join(members) \in Seq(Chars), NEW row, NEW is,
         Passes(Join(members), <<"key", <<>>, is>>, <<"member", row, is>>),
         NEW e \in {"first", "next"}
  PROVE  /\ Object(members) \in Seq(Chars)
         /\ Passes(Object(members), <<e, <<>>, is>>, <<"after", <<>>, Append(is, row)>>)
<1>1. <<OpenObject>> \in Seq(Chars) /\ <<CloseObject>> \in Seq(Chars)
      BY CharsKnown
<1>2. Passes(<<OpenObject>>, <<e, <<>>, is>>, <<"key", <<>>, is>>)
  <2>1. PICK k \in Moves : k = <<e, OpenObject, "key">>
        BY DEF Moves
  <2>2. k[1] = e /\ k[2] = OpenObject /\ k[3] = "key" /\ k[2] # CloseObject
        BY <2>1 DEF OpenObject, CloseObject
  <2>. QED BY <2>2, PassesMark
<1>3. Passes(<<CloseObject>>, <<"member", row, is>>, <<"after", <<>>, Append(is, row)>>)
      BY PassesEndOfObject
<1>4. <<OpenObject>> \o Join(members) \in Seq(Chars)
      BY <1>1, ConcatProperties
<1>5. Passes(<<OpenObject>> \o Join(members), <<e, <<>>, is>>, <<"member", row, is>>)
      BY <1>1, <1>2, PassesConcat
<1>6. Passes((<<OpenObject>> \o Join(members)) \o <<CloseObject>>, <<e, <<>>, is>>,
             <<"after", <<>>, Append(is, row)>>)
      BY <1>1, <1>3, <1>4, <1>5, PassesConcat
<1>7. (<<OpenObject>> \o Join(members)) \o <<CloseObject>> \in Seq(Chars)
      BY <1>1, <1>4, ConcatProperties
<1>8. Object(members) = (<<OpenObject>> \o Join(members)) \o <<CloseObject>>
      BY <1>1, ConcatAssociative DEF Object
<1>. QED BY <1>6, <1>7, <1>8

LEMMA PrefixAppend ==
  ASSUME NEW A, NEW its \in Seq(A), NEW k \in 1..Len(its)
  PROVE  /\ SubSeq(its, 1, k-1) \in Seq(A) /\ its[k] \in A
         /\ SubSeq(its, 1, k) = Append(SubSeq(its, 1, k-1), its[k])
<1>1. 1 \in 1..Len(its) /\ 1 \in Int /\ k - 1 \in Int /\ \A j \in 1..(k-1) : its[j] \in A
      OBVIOUS
<1>2. PICK s \in Seq(A) : s = SubSeq(its, 1, k-1)
      BY <1>1, SubSeqProperties
<1>3. SubSeq(its, 1, k) = SubSeq(its, 1, k-1) \o <<its[k]>>
      BY <1>1, SubSeqRecursiveSecond
<1>4. PICK c \in A : c = its[k]
      OBVIOUS
<1>5. s \o <<c>> = Append(s, c)
      BY AppendOne
<1>. QED BY <1>2, <1>3, <1>4, <1>5, Zenon

LEMMA WholePrefix ==
  ASSUME NEW A, NEW its \in Seq(A)
  PROVE  SubSeq(its, 1, 0) = <<>> /\ SubSeq(its, 1, Len(its)) = its
BY SubSeqEmpty, SubSeqFull

\* The parts of an array are its items.
LEMMA PartsPass ==
  ASSUME NEW parts \in Seq(Seq(Chars)), Len(parts) >= 1, NEW A, NEW its \in Seq(A),
         Len(its) = Len(parts),
         \A k \in 1..Len(parts), e \in {"first", "next"}, is \in Seq(A) :
           Passes(parts[k], <<e, <<>>, is>>, <<"after", <<>>, Append(is, its[k])>>)
  PROVE  Passes(Join(parts), <<"first", <<>>, <<>>>>, <<"after", <<>>, its>>)
<1>1. PICK n \in Nat : n = Len(parts) /\ n >= 1 /\ n = Len(its)
      OBVIOUS
<1>2. PICK pre : pre = [k \in 0..n |-> SubSeq(its, 1, k)]
      OBVIOUS
<1>3. PICK opens : opens = [k \in 1..n |-> IF k = 1 THEN "first" ELSE "next"]
      OBVIOUS
<1>4. PICK from : from = [k \in 1..n |-> <<opens[k], <<>>, pre[k-1]>>]
      OBVIOUS
<1>5. PICK to : to = [k \in 1..n |-> <<"after", <<>>, pre[k]>>]
      OBVIOUS
<1>6. ASSUME NEW k \in 1..n PROVE Passes(parts[k], from[k], to[k])
  <2>1. opens[k] \in {"first", "next"}
        BY <1>3
  <2>2. k - 1 \in 0..n /\ k \in 0..n
        OBVIOUS
  <2>3. pre[k-1] \in Seq(A) /\ pre[k] = Append(pre[k-1], its[k])
    <3>1. pre[k-1] = SubSeq(its, 1, k-1) /\ pre[k] = SubSeq(its, 1, k)
          BY <1>2, <2>2, Zenon
    <3>2. /\ SubSeq(its, 1, k-1) \in Seq(A)
          /\ SubSeq(its, 1, k) = Append(SubSeq(its, 1, k-1), its[k])
          BY <1>1, PrefixAppend
    <3>. QED BY <3>1, <3>2, Zenon
  <2>4. Passes(parts[k], <<opens[k], <<>>, pre[k-1]>>, <<"after", <<>>, Append(pre[k-1], its[k])>>)
        BY <1>1, <2>1, <2>3
  <2>5. from[k] = <<opens[k], <<>>, pre[k-1]>> /\ to[k] = <<"after", <<>>, pre[k]>>
        BY <1>4, <1>5, Zenon
  <2>. QED BY <2>3, <2>4, <2>5, Zenon
<1>7. ASSUME NEW k \in 2..n PROVE Passes(<<Comma>>, to[k-1], from[k])
  <2>1. PICK m \in Moves : m = <<"after", Comma, "next">>
        BY DEF Moves
  <2>2. m[1] = "after" /\ m[2] = Comma /\ m[3] = "next" /\ m[2] # CloseObject
        BY <2>1 DEF Comma, CloseObject
  <2>3. Passes(<<Comma>>, <<"after", <<>>, pre[k-1]>>, <<"next", <<>>, pre[k-1]>>)
        BY <2>2, PassesMark
  <2>4. k \in 1..n /\ k - 1 \in 1..n /\ k # 1
        OBVIOUS
  <2>5. opens[k] = "next"
        BY <1>3, <2>4, Zenon
  <2>6. to[k-1] = <<"after", <<>>, pre[k-1]>> /\ from[k] = <<opens[k], <<>>, pre[k-1]>>
        BY <1>4, <1>5, <2>4, Zenon
  <2>. QED BY <2>3, <2>5, <2>6
<1>8. Comma \in Chars
      BY CharsKnown
<1>9. Passes(Join(parts), from[1], to[n])
  <2>1. \A k \in 1..Len(parts) : Passes(parts[k], from[k], to[k])
        BY <1>1, <1>6
  <2>2. \A k \in 2..Len(parts) : Passes(<<Comma>>, to[k-1], from[k])
        BY <1>1, <1>7
  <2>3. Passes(Join(parts), from[1], to[Len(parts)])
        BY <1>8, <2>1, <2>2, JoinPasses
  <2>. QED BY <1>1, <2>3
<1>10. from[1] = <<"first", <<>>, <<>>>>
  <2>1. 1 \in 1..n /\ 1 - 1 = 0 /\ 0 \in 0..n
        BY <1>1
  <2>2. opens[1] = "first"
        BY <1>3, <2>1
  <2>3. pre[0] = <<>>
        BY <1>2, <2>1, WholePrefix
  <2>4. from[1] = <<opens[1], <<>>, pre[1-1]>>
        BY <1>4, <2>1
  <2>. QED BY <2>1, <2>2, <2>3, <2>4
<1>11. to[n] = <<"after", <<>>, its>>
  <2>1. n \in 1..n /\ n \in 0..n
        BY <1>1
  <2>2. pre[n] = its
        BY <1>1, <1>2, <2>1, WholePrefix
  <2>3. to[n] = <<"after", <<>>, pre[n]>>
        BY <1>5, <2>1, Zenon
  <2>. QED BY <2>2, <2>3
<1>. QED BY <1>9, <1>10, <1>11

\* An array is read as the items its parts stand for.
LEMMA ArrayPasses ==
  ASSUME NEW parts \in Seq(Seq(Chars)), NEW A, NEW its \in Seq(A), Len(its) = Len(parts),
         \A k \in 1..Len(parts), e \in {"first", "next"}, is \in Seq(A) :
           Passes(parts[k], <<e, <<>>, is>>, <<"after", <<>>, Append(is, its[k])>>)
  PROVE  /\ Array(parts) \in Seq(Chars)
         /\ Passes(Array(parts), <<"start", <<>>, <<>>>>, <<"end", <<>>, its>>)
<1>1. <<OpenArray>> \in Seq(Chars) /\ <<CloseArray>> \in Seq(Chars) /\ Comma \in Chars
      BY CharsKnown
<1>2. Passes(<<OpenArray>>, <<"start", <<>>, <<>>>>, <<"first", <<>>, <<>>>>)
  <2>1. PICK m \in Moves : m = <<"start", OpenArray, "first">>
        BY DEF Moves
  <2>2. m[1] = "start" /\ m[2] = OpenArray /\ m[3] = "first" /\ m[2] # CloseObject
        BY <2>1 DEF OpenArray, CloseObject
  <2>. QED BY <2>2, PassesMark
<1>3. ASSUME NEW e \in {"first", "after"}
      PROVE  Passes(<<CloseArray>>, <<e, <<>>, its>>, <<"end", <<>>, its>>)
  <2>1. PICK m \in Moves : m = <<e, CloseArray, "end">>
        BY DEF Moves
  <2>2. m[1] = e /\ m[2] = CloseArray /\ m[3] = "end" /\ m[2] # CloseObject
        BY <2>1 DEF CloseArray, CloseObject
  <2>. QED BY <2>2, PassesMark
<1>4. PICK all : all = [k \in DOMAIN parts |-> IF k = 1 THEN parts[k] ELSE <<Comma>> \o parts[k]]
      OBVIOUS
<1>5. Join(parts) \in Seq(Chars) /\ Join(parts) = FlattenSeq(all) /\ Len(all) = Len(parts)
      /\ all \in Seq(Seq(Chars))
      BY <1>1, <1>4, JoinIsChars
<1>6. PICK e \in {"first", "after"} : Passes(Join(parts), <<"first", <<>>, <<>>>>, <<e, <<>>, its>>)
  <2>1. CASE Len(parts) = 0
    <3>1. its = <<>>
          BY <2>1, EmptySeq
    <3>2. all = <<>>
          BY <1>5, <2>1, EmptySeq
    <3>3. Join(parts) = <<>>
          BY <1>5, <3>2, FlattenNothing
    <3>4. Passes(<<>>, <<"first", <<>>, its>>, <<"first", <<>>, its>>)
          BY PassesNothing
    <3>. QED BY <3>1, <3>3, <3>4
  <2>2. CASE Len(parts) # 0
    <3>1. Len(parts) >= 1
          BY <2>2
    <3>2. Passes(Join(parts), <<"first", <<>>, <<>>>>, <<"after", <<>>, its>>)
          BY <3>1, PartsPass
    <3>. QED BY <3>2
  <2>. QED BY <2>1, <2>2
<1>7. <<OpenArray>> \o Join(parts) \in Seq(Chars)
      BY <1>1, <1>5, ConcatProperties
<1>8. Passes(<<OpenArray>> \o Join(parts), <<"start", <<>>, <<>>>>, <<e, <<>>, its>>)
      BY <1>1, <1>2, <1>5, <1>6, PassesConcat
<1>9. Passes(<<CloseArray>>, <<e, <<>>, its>>, <<"end", <<>>, its>>)
      BY <1>3
<1>10. Passes((<<OpenArray>> \o Join(parts)) \o <<CloseArray>>, <<"start", <<>>, <<>>>>,
              <<"end", <<>>, its>>)
       BY <1>1, <1>7, <1>8, <1>9, PassesConcat
<1>11. (<<OpenArray>> \o Join(parts)) \o <<CloseArray>> \in Seq(Chars)
       BY <1>1, <1>7, ConcatProperties
<1>12. Array(parts) = (<<OpenArray>> \o Join(parts)) \o <<CloseArray>>
       BY <1>1, <1>5, ConcatAssociative DEF Array
<1>. QED BY <1>10, <1>11, <1>12

\* A text of a helper, read to its end, stands for these items.
StandsFor(u, its) ==
  u \in Seq(Chars) /\ Passes(u, <<"start", <<>>, <<>>>>, <<"end", <<>>, its>>)

\* N rows of n members each: the escapes of what they say, their objects, their items.
SpellRows(N, n, keys, esc, said, parts, its) ==
  /\ N \in Nat /\ n \in Nat /\ n >= 1 /\ keys \in [1..n -> Keys]
  /\ esc  \in [1..N -> [1..n -> Seq(Symbols)]]
  /\ said \in [1..N -> [1..n -> Seq(Symbols)]]
  /\ \A k \in 1..N : \A m \in 1..n : Adds(esc[k][m], <<>>, said[k][m])
  /\ parts = [k \in 1..N |-> Object([m \in 1..n |-> Member(keys[m], esc[k][m])])]
  /\ its = [k \in 1..N |-> FlattenSeq([m \in 1..n |-> << <<keys[m]>>, said[k][m] >>])]

LEMMA RowsPass ==
  ASSUME NEW N, NEW n, NEW keys, NEW esc, NEW said, NEW parts, NEW its,
         SpellRows(N, n, keys, esc, said, parts, its)
  PROVE  StandsFor(Array(parts), its)
<1>0. /\ N \in Nat /\ n \in Nat /\ n >= 1 /\ keys \in [1..n -> Keys]
      /\ esc  \in [1..N -> [1..n -> Seq(Symbols)]]
      /\ said \in [1..N -> [1..n -> Seq(Symbols)]]
      /\ \A k \in 1..N : \A m \in 1..n : Adds(esc[k][m], <<>>, said[k][m])
      /\ parts = [k \in 1..N |-> Object([m \in 1..n |-> Member(keys[m], esc[k][m])])]
      /\ its = [k \in 1..N |-> FlattenSeq([m \in 1..n |-> << <<keys[m]>>, said[k][m] >>])]
      BY Zenon DEF SpellRows
<1>1. ASSUME NEW k \in 1..N, NEW e \in {"first", "next"}, NEW is
      PROVE  /\ parts[k] \in Seq(Chars)
             /\ Passes(parts[k], <<e, <<>>, is>>, <<"after", <<>>, Append(is, its[k])>>)
  <2>1. PICK u \in [1..n -> Seq(Symbols)] : u = esc[k]
        BY <1>0
  <2>2. PICK x \in [1..n -> Seq(Symbols)] : x = said[k]
        BY <1>0
  <2>3. \A m \in 1..n : Adds(u[m], <<>>, x[m])
        BY <1>0, <2>1, <2>2
  <2>4. PICK members : members = [m \in 1..n |-> Member(keys[m], u[m])]
        OBVIOUS
  <2>5. PICK row : row = [m \in 1..n |-> << <<keys[m]>>, x[m] >>]
        OBVIOUS
  <2>6. /\ Join(members) \in Seq(Chars)
        /\ Passes(Join(members), <<"key", <<>>, is>>, <<"member", FlattenSeq(row), is>>)
        BY <1>0, <2>3, <2>4, <2>5, MembersPass
  <2>7. /\ Object(members) \in Seq(Chars)
        /\ Passes(Object(members), <<e, <<>>, is>>, <<"after", <<>>, Append(is, FlattenSeq(row))>>)
        BY <2>6, ObjectPasses
  <2>8. parts[k] = Object(members) /\ its[k] = FlattenSeq(row)
        BY <1>0, <2>1, <2>2, <2>4, <2>5
  <2>. QED BY <2>7, <2>8
<1>2. PICK A : A = {its[k] : k \in 1..N}
      OBVIOUS
<1>3. \A k \in 1..N : its[k] \in A
      BY <1>2
<1>4. its \in Seq(A) /\ Len(its) = N
  <2>1. PICK f \in [1..N -> A] : f = its
        BY <1>0, <1>3, Zenon
  <2>2. f \in Seq(A) /\ Len(f) = N
        BY <1>0
  <2>. QED BY <2>1, <2>2
<1>5. \A k \in 1..N : parts[k] \in Seq(Chars)
      BY <1>1
<1>6. parts \in Seq(Seq(Chars)) /\ Len(parts) = N
      BY <1>0, <1>5
<1>7. \A k \in 1..Len(parts), e \in {"first", "next"}, is \in Seq(A) :
        Passes(parts[k], <<e, <<>>, is>>, <<"after", <<>>, Append(is, its[k])>>)
      BY <1>1, <1>6
<1>. QED BY <1>4, <1>6, <1>7, ArrayPasses DEF StandsFor

LEMMA ExamplesStandFor ==
  ASSUME NEW rows \in Seq(Seq(Symbols) \X Seq(Symbols))
  PROVE  StandsFor(ExampleQueriesJson(rows), [k \in DOMAIN rows |-> Row("examples", rows[k])])
<1>1. PICK N \in Nat : N = Len(rows) /\ DOMAIN rows = 1..N
      OBVIOUS
<1>0. PICK n \in Nat : n = 2 /\ n >= 1
      OBVIOUS
<1>2. PICK keys \in [1..n -> Keys] : keys = KeysOf.examples
  <2>1. <<"description", "sql">> \in [1..2 -> Keys]
        BY DEF Keys
  <2>2. KeysOf.examples = <<"description", "sql">>
        BY DEF KeysOf
  <2>. QED BY <1>0, <2>1, <2>2
<1>3. ASSUME NEW k \in 1..N
      PROVE  DOMAIN rows[k] = 1..n /\ \A m \in 1..n : rows[k][m] \in Seq(Symbols)
      BY <1>0, <1>1
<1>4. ASSUME NEW t \in Seq(Symbols)
      PROVE  /\ EscapeExample(t) \in Seq(Symbols) /\ Unlaid(t) \in Seq(Symbols)
             /\ Adds(EscapeExample(t), <<>>, Unlaid(t))
  <2>1. Unlaid(t) \in Seq(Symbols)
        BY SymbolsKnown, UnlaidAppend
  <2>. QED BY <2>1, ExampleSpelled
<1>5. PICK esc : esc = [k \in 1..N |-> [m \in 1..n |-> EscapeExample(rows[k][m])]]
      OBVIOUS
<1>6. PICK said : said = [k \in 1..N |-> [m \in 1..n |-> Unlaid(rows[k][m])]]
      OBVIOUS
<1>7. /\ esc \in [1..N -> [1..n -> Seq(Symbols)]]
      /\ said \in [1..N -> [1..n -> Seq(Symbols)]]
      /\ \A k \in 1..N : \A m \in 1..n : Adds(esc[k][m], <<>>, said[k][m])
      BY <1>3, <1>4, <1>5, <1>6
<1>8. PICK parts : parts = [k \in 1..N |-> Object([m \in 1..n |-> Member(keys[m], esc[k][m])])]
      OBVIOUS
<1>9. PICK its : its = [k \in 1..N |-> FlattenSeq([m \in 1..n |-> << <<keys[m]>>, said[k][m] >>])]
      OBVIOUS
<1>10. StandsFor(Array(parts), its)
  <2>1. SpellRows(N, n, keys, esc, said, parts, its)
        BY <1>0, <1>1, <1>7, <1>8, <1>9, Zenon DEF SpellRows
  <2>. QED BY <2>1, RowsPass
<1>11. ExampleQueriesJson(rows) = Array(parts)
  <2>1. ASSUME NEW k \in 1..N
        PROVE  [m \in 1..2 |-> Member(KeysOf.examples[m], EscapeExample(rows[k][m]))]
               = [m \in 1..n |-> Member(keys[m], esc[k][m])]
        BY <1>0, <1>2, <1>5
  <2>2. [k \in DOMAIN rows |-> Object([m \in 1..2 |->
           Member(KeysOf.examples[m], EscapeExample(rows[k][m]))])] = parts
        BY <1>1, <1>8, <2>1, Zenon
  <2>. QED BY <2>2, Zenon DEF ExampleQueriesJson
<1>12. [k \in DOMAIN rows |-> Row("examples", rows[k])] = its
  <2>1. ASSUME NEW k \in 1..N
        PROVE  Row("examples", rows[k]) = FlattenSeq([m \in 1..n |-> << <<keys[m]>>, said[k][m] >>])
    <3>1. [m \in DOMAIN rows[k] |->
             << <<KeysOf["examples"][m]>>,
                IF "examples" = "examples" THEN Unlaid(rows[k][m]) ELSE rows[k][m] >>]
          = [m \in 1..n |-> << <<keys[m]>>, said[k][m] >>]
          BY <1>0, <1>2, <1>3, <1>6
    <3>. QED BY <3>1, Zenon DEF Row
  <2>. QED BY <1>1, <1>9, <2>1, Zenon
<1>. QED BY <1>10, <1>11, <1>12

LEMMA TasksStandFor ==
  ASSUME NEW Lines, Lines = Seq(Symbols \ {Return, Tab}), NEW rows \in Seq(Lines \X Lines)
  PROVE  StandsFor(AgentTestTasksJson(rows), [k \in DOMAIN rows |-> Row("tasks", rows[k])])
<1>1. PICK N \in Nat : N = Len(rows) /\ DOMAIN rows = 1..N
      OBVIOUS
<1>0. PICK n \in Nat : n = 2 /\ n >= 1
      OBVIOUS
<1>2. PICK keys \in [1..n -> Keys] : keys = KeysOf.tasks
  <2>1. <<"name", "prompt">> \in [1..2 -> Keys]
        BY DEF Keys
  <2>2. KeysOf.tasks = <<"name", "prompt">>
        BY DEF KeysOf
  <2>. QED BY <1>0, <2>1, <2>2
<1>3. ASSUME NEW k \in 1..N
      PROVE  DOMAIN rows[k] = 1..n /\ \A m \in 1..n : rows[k][m] \in Lines
      BY <1>0, <1>1
<1>4. ASSUME NEW t \in Lines
      PROVE  EscapeTask(t) \in Seq(Symbols) /\ t \in Seq(Symbols) /\ Adds(EscapeTask(t), <<>>, t)
  <2>1. t \in Seq(Symbols \ {Return, Tab}) /\ t \in Seq(Symbols)
        OBVIOUS
  <2>. QED BY <2>1, TaskSpelled
<1>5. PICK esc : esc = [k \in 1..N |-> [m \in 1..n |-> EscapeTask(rows[k][m])]]
      OBVIOUS
<1>6. PICK said : said = [k \in 1..N |-> [m \in 1..n |-> rows[k][m]]]
      OBVIOUS
<1>7. /\ esc \in [1..N -> [1..n -> Seq(Symbols)]]
      /\ said \in [1..N -> [1..n -> Seq(Symbols)]]
      /\ \A k \in 1..N : \A m \in 1..n : Adds(esc[k][m], <<>>, said[k][m])
      BY <1>3, <1>4, <1>5, <1>6
<1>8. PICK parts : parts = [k \in 1..N |-> Object([m \in 1..n |-> Member(keys[m], esc[k][m])])]
      OBVIOUS
<1>9. PICK its : its = [k \in 1..N |-> FlattenSeq([m \in 1..n |-> << <<keys[m]>>, said[k][m] >>])]
      OBVIOUS
<1>10. StandsFor(Array(parts), its)
  <2>1. SpellRows(N, n, keys, esc, said, parts, its)
        BY <1>0, <1>1, <1>7, <1>8, <1>9, Zenon DEF SpellRows
  <2>. QED BY <2>1, RowsPass
<1>11. AgentTestTasksJson(rows) = Array(parts)
  <2>1. ASSUME NEW k \in 1..N
        PROVE  [m \in 1..2 |-> Member(KeysOf.tasks[m], EscapeTask(rows[k][m]))]
               = [m \in 1..n |-> Member(keys[m], esc[k][m])]
        BY <1>0, <1>2, <1>5
  <2>2. [k \in DOMAIN rows |-> Object([m \in 1..2 |->
           Member(KeysOf.tasks[m], EscapeTask(rows[k][m]))])] = parts
        BY <1>1, <1>8, <2>1, Zenon
  <2>. QED BY <2>2, Zenon DEF AgentTestTasksJson
<1>12. [k \in DOMAIN rows |-> Row("tasks", rows[k])] = its
  <2>1. ASSUME NEW k \in 1..N
        PROVE  Row("tasks", rows[k]) = FlattenSeq([m \in 1..n |-> << <<keys[m]>>, said[k][m] >>])
    <3>1. [m \in DOMAIN rows[k] |->
             << <<KeysOf["tasks"][m]>>,
                IF "tasks" = "examples" THEN Unlaid(rows[k][m]) ELSE rows[k][m] >>]
          = [m \in 1..n |-> << <<keys[m]>>, said[k][m] >>]
          BY <1>0, <1>2, <1>3, <1>6
    <3>. QED BY <3>1, Zenon DEF Row
  <2>. QED BY <1>1, <1>9, <2>1, Zenon
<1>. QED BY <1>10, <1>11, <1>12
LEMMA ColumnsStandFor ==
  ASSUME NEW rows \in Seq(Printable \X Printable \X Printable)
  PROVE  StandsFor(ResultColumnsSchema(rows), [k \in DOMAIN rows |-> Row("columns", rows[k])])
<1>1. PICK N \in Nat : N = Len(rows) /\ DOMAIN rows = 1..N
      OBVIOUS
<1>0. PICK n \in Nat : n = 3 /\ n >= 1
      OBVIOUS
<1>2. PICK keys \in [1..n -> Keys] : keys = KeysOf.columns
  <2>1. <<"name", "type", "description">> \in [1..3 -> Keys]
        BY DEF Keys
  <2>2. KeysOf.columns = <<"name", "type", "description">>
        BY DEF KeysOf
  <2>. QED BY <1>0, <2>1, <2>2
<1>3. ASSUME NEW k \in 1..N
      PROVE  DOMAIN rows[k] = 1..n /\ \A m \in 1..n : rows[k][m] \in Printable
      BY <1>0, <1>1
<1>4. ASSUME NEW t \in Printable
      PROVE  EscapeColumn(t) \in Seq(Symbols) /\ t \in Seq(Symbols) /\ Adds(EscapeColumn(t), <<>>, t)
  <2>1. t \in Seq(Symbols \ Control) /\ t \in Seq(Symbols)
        BY DEF Printable
  <2>. QED BY <2>1, ColumnSpelled
<1>5. PICK esc : esc = [k \in 1..N |-> [m \in 1..n |-> EscapeColumn(rows[k][m])]]
      OBVIOUS
<1>6. PICK said : said = [k \in 1..N |-> [m \in 1..n |-> rows[k][m]]]
      OBVIOUS
<1>7. /\ esc \in [1..N -> [1..n -> Seq(Symbols)]]
      /\ said \in [1..N -> [1..n -> Seq(Symbols)]]
      /\ \A k \in 1..N : \A m \in 1..n : Adds(esc[k][m], <<>>, said[k][m])
      BY <1>3, <1>4, <1>5, <1>6
<1>8. PICK parts : parts = [k \in 1..N |-> Object([m \in 1..n |-> Member(keys[m], esc[k][m])])]
      OBVIOUS
<1>9. PICK its : its = [k \in 1..N |-> FlattenSeq([m \in 1..n |-> << <<keys[m]>>, said[k][m] >>])]
      OBVIOUS
<1>10. StandsFor(Array(parts), its)
  <2>1. SpellRows(N, n, keys, esc, said, parts, its)
        BY <1>0, <1>1, <1>7, <1>8, <1>9, Zenon DEF SpellRows
  <2>. QED BY <2>1, RowsPass
<1>11. ResultColumnsSchema(rows) = Array(parts)
  <2>1. ASSUME NEW k \in 1..N
        PROVE  [m \in 1..3 |-> Member(KeysOf.columns[m], EscapeColumn(rows[k][m]))]
               = [m \in 1..n |-> Member(keys[m], esc[k][m])]
        BY <1>0, <1>2, <1>5
  <2>2. [k \in DOMAIN rows |-> Object([m \in 1..3 |->
           Member(KeysOf.columns[m], EscapeColumn(rows[k][m]))])] = parts
        BY <1>1, <1>8, <2>1, Zenon
  <2>. QED BY <2>2, Zenon DEF ResultColumnsSchema
<1>12. [k \in DOMAIN rows |-> Row("columns", rows[k])] = its
  <2>1. ASSUME NEW k \in 1..N
        PROVE  Row("columns", rows[k]) = FlattenSeq([m \in 1..n |-> << <<keys[m]>>, said[k][m] >>])
    <3>1. [m \in DOMAIN rows[k] |->
             << <<KeysOf["columns"][m]>>,
                IF "columns" = "examples" THEN Unlaid(rows[k][m]) ELSE rows[k][m] >>]
          = [m \in 1..n |-> << <<keys[m]>>, said[k][m] >>]
          BY <1>0, <1>2, <1>3, <1>6
    <3>. QED BY <3>1, Zenon DEF Row
  <2>. QED BY <1>1, <1>9, <2>1, Zenon
<1>. QED BY <1>10, <1>11, <1>12

-------------------------------------------------------------------------------
(* The terms of a keyword text *)

\* How one more symbol changes the parts of a text.
SplitStep(v, c) ==
  IF c = Comma THEN Append(v, <<>>) ELSE [v EXCEPT ![Len(v)] = Append(@, c)]

LEMMA SplitStepComma ==
  ASSUME NEW C, NEW v \in Seq(Seq(C))
  PROVE  /\ SplitStep(v, Comma) \in Seq(Seq(C)) /\ Len(SplitStep(v, Comma)) = Len(v) + 1
         /\ SplitStep(v, Comma)[Len(v) + 1] = <<>>
         /\ \A i \in 1..Len(v) : SplitStep(v, Comma)[i] = v[i]
<1>1. <<>> \in Seq(C)
      OBVIOUS
<1>2. SplitStep(v, Comma) = Append(v, <<>>)
      BY DEF SplitStep
<1>. QED BY <1>1, <1>2, AppendProperties

\* w is v with c at the end of its last part.
LastGrows(v, c, w) ==
  /\ Len(w) = Len(v) /\ w[Len(v)] = Append(v[Len(v)], c)
  /\ \A i \in 1..(Len(v) - 1) : w[i] = v[i]

LEMMA SplitStepOther ==
  ASSUME NEW C, NEW v \in Seq(Seq(C)), Len(v) >= 1, NEW c \in C, c # Comma
  PROVE  SplitStep(v, c) \in Seq(Seq(C)) /\ LastGrows(v, c, SplitStep(v, c))
<1>1. PICK N \in Nat : N = Len(v) /\ N >= 1
      OBVIOUS
<1>2. v \in [1..N -> Seq(C)]
      BY <1>1
<1>3. PICK x \in Seq(C) : x = Append(v[N], c)
  <2>1. v[N] \in Seq(C)
        BY <1>1
  <2>. QED BY <2>1, AppendProperties
<1>4. PICK w \in [1..N -> Seq(C)] : w = [v EXCEPT ![N] = x]
      BY <1>2
<1>5. w \in Seq(Seq(C)) /\ Len(w) = N
      OBVIOUS
<1>6. w[N] = x /\ \A i \in 1..(N - 1) : w[i] = v[i]
  <2>1. N \in DOMAIN v /\ \A i \in 1..(N - 1) : i \in DOMAIN v /\ i # N
        BY <1>1, <1>2
  <2>. QED BY <1>4, <2>1, Zenon
<1>7. SplitStep(v, c) = w
      BY <1>1, <1>3, <1>4, Zenon DEF SplitStep
<1>8. LastGrows(v, c, w)
      BY <1>1, <1>3, <1>5, <1>6 DEF LastGrows
<1>. QED BY <1>5, <1>7, <1>8

IsSplit(f, u) ==
  f = [n \in 0..Len(u) |-> IF n = 0 THEN << <<>> >>
                           ELSE IF u[n] = Comma THEN Append(f[n-1], <<>>)
                           ELSE [f[n-1] EXCEPT ![Len(f[n-1])] = Append(@, u[n])]]
TheSplit(u) == CHOOSE f : IsSplit(f, u)

LEMMA SplitUnfolds ==
  ASSUME NEW C, NEW u \in Seq(C)
  PROVE  \E g \in [0..Len(u) -> {v \in Seq(Seq(C)) : Len(v) >= 1}] :
           /\ g[0] = << <<>> >> /\ g[Len(u)] = Split(u)
           /\ \A n \in 1..Len(u) : g[n] = SplitStep(g[n-1], u[n])
<1>1. PICK N \in Nat : N = Len(u)
      OBVIOUS
<1>2. PICK V : V = {v \in Seq(Seq(C)) : Len(v) >= 1}
      OBVIOUS
<1>3. ASSUME NEW v \in V, NEW c \in C PROVE SplitStep(v, c) \in V
  <2>1. v \in Seq(Seq(C)) /\ Len(v) \in Nat /\ Len(v) >= 1
        BY <1>2
  <2>2. CASE c = Comma
    <3>1. SplitStep(v, Comma) \in Seq(Seq(C)) /\ Len(SplitStep(v, Comma)) = Len(v) + 1
          BY <2>1, SplitStepComma
    <3>. QED BY <1>2, <2>1, <2>2, <3>1
  <2>3. CASE c # Comma
    <3>1. SplitStep(v, c) \in Seq(Seq(C)) /\ Len(SplitStep(v, c)) = Len(v)
      <4>1. SplitStep(v, c) \in Seq(Seq(C)) /\ LastGrows(v, c, SplitStep(v, c))
            BY <2>1, <2>3, SplitStepOther, Zenon
      <4>. QED BY <4>1 DEF LastGrows
    <3>. QED BY <1>2, <2>1, <3>1
  <2>. QED BY <2>2, <2>3
<1>4. PICK step : step = [n \in 1..N |-> [v \in V |-> SplitStep(v, u[n])]]
      OBVIOUS
<1>5. step \in [1..N -> [V -> V]]
  <2>1. ASSUME NEW n \in 1..N PROVE [v \in V |-> SplitStep(v, u[n])] \in [V -> V]
    <3>1. u[n] \in C
          BY <1>1
    <3>. QED BY <1>3, <3>1, Zenon
  <2>. QED BY <1>4, <2>1, Zenon
<1>6. PICK b \in V : b = << <<>> >>
  <2>0. << <<>> >> \in Seq(Seq(C)) /\ Len(<< <<>> >>) = 1
        OBVIOUS
  <2>1. PICK b : b = << <<>> >> /\ b \in Seq(Seq(C)) /\ Len(b) = 1
        BY <2>0, Zenon
  <2>2. b \in V
        BY <1>2, <2>1
  <2>. QED BY <2>1, <2>2, Zenon
<1>7. PICK g \in [0..N -> V] : Unfolds(g, N, b, step)
  <2>1. PICK stp \in [1..N -> [V -> V]] : stp = step
        BY <1>5
  <2>2. \E g \in [0..N -> V] : Unfolds(g, N, b, stp)
        BY RecursiveFunction
  <2>. QED BY <2>1, <2>2
<1>8. g[0] = << <<>> >> /\ \A n \in 1..N : g[n] = step[n][g[n-1]]
      BY <1>6, <1>7 DEF Unfolds
<1>9. ASSUME NEW n \in 1..N PROVE g[n] = SplitStep(g[n-1], u[n])
  <2>1. n - 1 \in 0..N
        OBVIOUS
  <2>2. g[n-1] \in V
        BY <2>1
  <2>3. step[n][g[n-1]] = SplitStep(g[n-1], u[n])
        BY <1>4, <2>2, Zenon
  <2>. QED BY <1>8, <2>3
<1>10. IsSplit(g, u)
  <2>1. ASSUME NEW n \in 0..N
        PROVE  g[n] = IF n = 0 THEN << <<>> >>
                      ELSE IF u[n] = Comma THEN Append(g[n-1], <<>>)
                      ELSE [g[n-1] EXCEPT ![Len(g[n-1])] = Append(@, u[n])]
    <3>1. n = 0 \/ n \in 1..N
          OBVIOUS
    <3>. QED BY <1>8, <1>9, <3>1, Zenon DEF SplitStep
  <2>2. g = [n \in 0..N |-> g[n]]
        OBVIOUS
  <2>. QED BY <1>1, <2>1, <2>2, Zenon DEF IsSplit
<1>11. IsSplit(TheSplit(u), u)
       BY <1>10, Zenon DEF TheSplit
<1>12. Split(u) = TheSplit(u)[Len(u)]
       BY Zenon DEF Split, TheSplit, IsSplit
<1> DEFINE f == TheSplit(u)
           T == {n \in Nat : n <= N => f[n] = g[n]}
<1>13. f[0] = << <<>> >>
  <2>1. 0 \in 0..Len(u)
        BY <1>1
  <2>. QED BY <1>11, <2>1, Zenon DEF IsSplit
<1>14. ASSUME NEW n \in 1..N PROVE f[n] = SplitStep(f[n-1], u[n])
  <2>1. n \in 0..Len(u) /\ n # 0
        BY <1>1
  <2>. QED BY <1>11, <2>1, Zenon DEF IsSplit, SplitStep
<1>. HIDE DEF f
<1>15. 0 \in T
       BY <1>8, <1>13
<1>16. ASSUME NEW n \in Nat, n \in T PROVE n + 1 \in T
  <2>1. SUFFICES ASSUME n + 1 <= N PROVE f[n + 1] = g[n + 1]
        OBVIOUS
  <2>2. n + 1 \in 1..N /\ (n + 1) - 1 = n
        BY <2>1
  <2>3. f[n] = g[n]
        BY <1>16, <2>1
  <2>4. f[n + 1] = SplitStep(f[n], u[n + 1]) /\ g[n + 1] = SplitStep(g[n], u[n + 1])
        BY <1>9, <1>14, <2>2
  <2>. QED BY <2>3, <2>4
<1>. HIDE DEF T
<1>17. N \in T
       BY <1>15, <1>16, SetInduction
<1>18. f[N] = g[N]
       BY <1>17 DEF T
<1>19. g[N] = Split(u)
       BY <1>1, <1>12, <1>18 DEF f
<1>. QED BY <1>1, <1>2, <1>8, <1>9, <1>19

\* part is the symbols of u in a..b: a whole piece between commas of its first n symbols.
Piece(u, n, part, a, b) ==
  /\ a \in Nat \ {0} /\ b \in Nat /\ a <= b + 1 /\ b <= n
  /\ a > 1 => u[a - 1] = Comma
  /\ b < n => u[b + 1] = Comma
  /\ \A p \in a..b : u[p] # Comma
  /\ part = SubSeq(u, a, b)

LEMMA PieceEnds ==
  ASSUME NEW u, NEW n \in Nat, NEW part, NEW a, NEW b, Piece(u, n, part, a, b),
         b < n \/ u[n + 1] = Comma
  PROVE  Piece(u, n + 1, part, a, b)
<1>1. b \in Nat /\ b <= n /\ (b < n => u[b + 1] = Comma)
      BY DEF Piece
<1>2. u[b + 1] = Comma
  <2>1. b < n \/ b = n
        BY <1>1
  <2>. QED BY <1>1, <2>1
<1>3. b <= n + 1
      BY <1>1
<1>. QED BY <1>1, <1>2, <1>3, Zenon DEF Piece

LEMMA PieceStarts ==
  ASSUME NEW u, NEW n \in Nat, u[n + 1] = Comma
  PROVE  Piece(u, n + 1, <<>>, n + 2, n + 1)
<1>1. /\ n + 2 \in Nat \ {0} /\ n + 1 \in Nat /\ n + 2 <= (n + 1) + 1 /\ n + 1 <= n + 1
      /\ (n + 2) - 1 = n + 1 /\ ~(n + 1 < n + 1) /\ (n + 2)..(n + 1) = {}
      OBVIOUS
<1>2. n + 2 \in Int /\ n + 1 \in Int /\ n + 1 < n + 2
      OBVIOUS
<1>3. SubSeq(u, n + 2, n + 1) = <<>>
      BY <1>2, SubSeqEmpty
<1>. QED BY <1>1, <1>3, Zenon DEF Piece

LEMMA PieceGrows ==
  ASSUME NEW C, NEW u \in Seq(C), NEW n \in Nat, n + 1 <= Len(u), u[n + 1] # Comma,
         NEW part, NEW a, Piece(u, n, part, a, n)
  PROVE  Piece(u, n + 1, Append(part, u[n + 1]), a, n + 1)
<1>1. /\ a \in Nat \ {0} /\ a <= n + 1 /\ part = SubSeq(u, a, n)
      /\ \A p \in a..n : u[p] # Comma
      BY DEF Piece
<1>2. a \in 1..Len(u) /\ n + 1 \in a..Len(u) /\ (n + 1) - 1 = n
      BY <1>1
<1>3. SubSeq(u, a, n + 1) = SubSeq(u, a, n) \o <<u[n + 1]>>
      BY <1>2, SubSeqRecursiveSecond
<1>4. PICK x \in Seq(C) : x = part
  <2>1. a \in Int /\ n \in Int /\ \A p \in a..n : u[p] \in C
        BY <1>1
  <2>. QED BY <1>1, <2>1, SubSeqProperties
<1>5. PICK c \in C : c = u[n + 1]
      OBVIOUS
<1>6. x \o <<c>> = Append(x, c)
      BY AppendOne
<1>7. Append(part, u[n + 1]) = SubSeq(u, a, n + 1)
      BY <1>1, <1>3, <1>4, <1>5, <1>6, Zenon
<1>8. ASSUME NEW p \in a..(n + 1) PROVE u[p] # Comma
  <2>1. p = n + 1 \/ p \in a..n
        BY <1>1
  <2>. QED BY <1>1, <2>1, Zenon
<1>9. a <= (n + 1) + 1 /\ n + 1 <= n + 1 /\ n + 1 \in Nat /\ ~(n + 1 < n + 1)
      BY <1>1
<1>10. a > 1 => u[a - 1] = Comma
       BY DEF Piece
<1>. QED BY <1>1, <1>7, <1>8, <1>9, <1>10, Zenon DEF Piece

\* K parts are the first n symbols of u, cut at the commas; part i lies in from[i]..to[i].
Cut(u, n, K, parts, from, to) ==
  /\ from \in [1..K -> Nat] /\ to \in [1..K -> Nat] /\ to[K] = n
  /\ \A i \in 1..K : Piece(u, n, parts[i], from[i], to[i])
  /\ \A i, j \in 1..K : i < j => to[i] + 1 < from[j]
  /\ \A p \in 1..n : u[p] # Comma => \E i \in 1..K : p \in from[i]..to[i]

LEMMA CutNothing ==
  ASSUME NEW C, NEW u \in Seq(C)
  PROVE  \E from, to : Cut(u, 0, 1, << <<>> >>, from, to)
<1>1. PICK from : from = [i \in 1..1 |-> 1]
      OBVIOUS
<1>2. PICK to : to = [i \in 1..1 |-> 0]
      OBVIOUS
<1>3. SubSeq(u, 1, 0) = <<>>
      BY WholePrefix
<1>4. Piece(u, 0, <<>>, 1, 0)
      BY <1>3 DEF Piece
<1>5. ASSUME NEW i \in 1..1 PROVE Piece(u, 0, << <<>> >>[i], from[i], to[i])
  <2>1. i = 1 /\ << <<>> >>[1] = <<>>
        OBVIOUS
  <2>2. from[i] = 1 /\ to[i] = 0
        BY <1>1, <1>2
  <2>. QED BY <1>4, <2>1, <2>2
<1>6. from \in [1..1 -> Nat] /\ to \in [1..1 -> Nat] /\ to[1] = 0
      BY <1>1, <1>2
<1>7. \A i, j \in 1..1 : ~(i < j)
      OBVIOUS
<1>8. 1..0 = {}
      OBVIOUS
<1>9. Cut(u, 0, 1, << <<>> >>, from, to)
      BY <1>5, <1>6, <1>7, <1>8, Zenon DEF Cut
<1>. QED BY <1>9

LEMMA CutComma ==
  ASSUME NEW u, NEW n \in Nat, u[n+1] = Comma, NEW K \in Nat, K >= 1,
         NEW v, NEW from, NEW to, Cut(u, n, K, v, from, to),
         NEW w, w[K + 1] = <<>>, \A i \in 1..K : w[i] = v[i]
  PROVE  \E f, t : Cut(u, n + 1, K + 1, w, f, t)
<1>1. PICK f : f = [i \in 1..(K + 1) |-> IF i = K + 1 THEN n + 2 ELSE from[i]]
      OBVIOUS
<1>2. PICK t : t = [i \in 1..(K + 1) |-> IF i = K + 1 THEN n + 1 ELSE to[i]]
      OBVIOUS
<1>3. from \in [1..K -> Nat] /\ to \in [1..K -> Nat]
      BY DEF Cut
<1>4. \A i \in 1..(K + 1) : i = K + 1 \/ i \in 1..K
      OBVIOUS
<1>5. f[K + 1] = n + 2 /\ t[K + 1] = n + 1 /\ K + 1 \in 1..(K + 1)
      BY <1>1, <1>2
<1>6. ASSUME NEW i \in 1..K
      PROVE  /\ f[i] = from[i] /\ t[i] = to[i] /\ i \in 1..(K + 1) /\ i # K + 1
             /\ to[i] \in Nat /\ from[i] \in Nat /\ to[i] <= n
  <2>1. i \in 1..(K + 1) /\ i # K + 1
        OBVIOUS
  <2>2. f[i] = from[i] /\ t[i] = to[i]
        BY <1>1, <1>2, <2>1
  <2>3. to[i] <= n
        BY DEF Cut, Piece
  <2>. QED BY <1>3, <2>1, <2>2, <2>3
<1>7. f \in [1..(K + 1) -> Nat] /\ t \in [1..(K + 1) -> Nat]
      BY <1>1, <1>2, <1>3
<1>8. ASSUME NEW i \in 1..(K + 1) PROVE Piece(u, n + 1, w[i], f[i], t[i])
  <2>1. CASE i = K + 1
        BY <1>5, <2>1, PieceStarts
  <2>2. CASE i \in 1..K
    <3>1. Piece(u, n, v[i], from[i], to[i])
          BY <2>2 DEF Cut
    <3>2. Piece(u, n + 1, v[i], from[i], to[i])
          BY <3>1, PieceEnds
    <3>. QED BY <1>6, <2>2, <3>2
  <2>. QED BY <1>4, <2>1, <2>2
<1>9. ASSUME NEW i \in 1..(K + 1), NEW j \in 1..(K + 1), i < j PROVE t[i] + 1 < f[j]
  <2>1. i \in 1..K
        BY <1>9
  <2>2. CASE j = K + 1
        BY <1>5, <1>6, <2>1, <2>2
  <2>3. CASE j \in 1..K
    <3>1. to[i] + 1 < from[j]
          BY <1>9, <2>1, <2>3 DEF Cut
    <3>. QED BY <1>6, <2>1, <2>3, <3>1
  <2>. QED BY <1>4, <2>2, <2>3
<1>10. ASSUME NEW p \in 1..(n + 1), u[p] # Comma PROVE \E i \in 1..(K + 1) : p \in f[i]..t[i]
  <2>1. p \in 1..n
        BY <1>10
  <2>2. PICK i \in 1..K : p \in from[i]..to[i]
        BY <1>10, <2>1 DEF Cut
  <2>. QED BY <1>6, <2>2
<1>11. Cut(u, n + 1, K + 1, w, f, t)
       BY <1>5, <1>7, <1>8, <1>9, <1>10, Zenon DEF Cut
<1>. QED BY <1>11

LEMMA CutOther ==
  ASSUME NEW C, NEW u \in Seq(C), NEW n \in Nat, n + 1 <= Len(u), u[n+1] # Comma,
         NEW K \in Nat, K >= 1, NEW v, NEW from, NEW to, Cut(u, n, K, v, from, to),
         NEW w, w[K] = Append(v[K], u[n+1]), \A i \in 1..(K - 1) : w[i] = v[i]
  PROVE  \E f, t : Cut(u, n + 1, K, w, f, t)
<1>1. PICK t : t = [i \in 1..K |-> IF i = K THEN n + 1 ELSE to[i]]
      OBVIOUS
<1>2. from \in [1..K -> Nat] /\ to \in [1..K -> Nat] /\ to[K] = n
      BY DEF Cut
<1>3. \A i \in 1..K : i = K \/ i \in 1..(K - 1)
      OBVIOUS
<1>4. t[K] = n + 1 /\ K \in 1..K
      BY <1>1
<1>5. t \in [1..K -> Nat]
      BY <1>1, <1>2
<1>6. ASSUME NEW i \in 1..K PROVE Piece(u, n, v[i], from[i], to[i])
      BY DEF Cut
<1>7. ASSUME NEW i \in 1..(K - 1)
      PROVE  t[i] = to[i] /\ i \in 1..K /\ to[i] < n /\ to[i] \in Nat
  <2>1. i \in 1..K /\ i < K
        OBVIOUS
  <2>2. t[i] = to[i]
        BY <1>1, <2>1
  <2>3. to[i] + 1 < from[K]
        BY <1>4, <2>1 DEF Cut
  <2>4. from[K] <= n + 1
        BY <1>2, <1>4, <1>6 DEF Piece
  <2>5. to[i] \in Nat /\ from[K] \in Nat
        BY <1>2, <1>4, <2>1
  <2>. QED BY <2>1, <2>2, <2>3, <2>4, <2>5
<1>8. ASSUME NEW i \in 1..K PROVE Piece(u, n + 1, w[i], from[i], t[i])
  <2>1. CASE i = K
    <3>1. Piece(u, n, v[K], from[K], n)
          BY <1>2, <1>4, <1>6
    <3>2. Piece(u, n + 1, Append(v[K], u[n+1]), from[K], n + 1)
          BY <3>1, PieceGrows
    <3>. QED BY <1>4, <2>1, <3>2
  <2>2. CASE i \in 1..(K - 1)
    <3>1. Piece(u, n, v[i], from[i], to[i]) /\ to[i] < n
          BY <1>6, <1>7, <2>2
    <3>2. Piece(u, n + 1, v[i], from[i], to[i])
          BY <3>1, PieceEnds
    <3>. QED BY <1>7, <2>2, <3>2
  <2>. QED BY <1>3, <2>1, <2>2
<1>9. ASSUME NEW i \in 1..K, NEW j \in 1..K, i < j PROVE t[i] + 1 < from[j]
  <2>1. i \in 1..(K - 1)
        BY <1>9
  <2>2. to[i] + 1 < from[j]
        BY <1>9 DEF Cut
  <2>. QED BY <1>7, <2>1, <2>2
<1>10. ASSUME NEW p \in 1..(n + 1), u[p] # Comma PROVE \E i \in 1..K : p \in from[i]..t[i]
  <2>1. CASE p = n + 1
    <3>1. from[K] <= n + 1 /\ from[K] \in Nat
          BY <1>2, <1>4, <1>6 DEF Piece
    <3>2. p \in from[K]..t[K]
          BY <1>4, <2>1, <3>1
    <3>. QED BY <1>4, <3>2
  <2>2. CASE p # n + 1
    <3>1. p \in 1..n
          BY <2>2
    <3>2. PICK i \in 1..K : p \in from[i]..to[i]
          BY <1>10, <3>1 DEF Cut
    <3>3. CASE i = K
      <4>1. p \in from[K]..t[K]
            BY <1>2, <1>4, <3>2, <3>3
      <4>. QED BY <1>4, <4>1
    <3>4. CASE i \in 1..(K - 1)
          BY <1>7, <3>2, <3>4
    <3>. QED BY <1>3, <3>3, <3>4
  <2>. QED BY <2>1, <2>2
<1>11. Cut(u, n + 1, K, w, from, t)
       BY <1>2, <1>4, <1>5, <1>8, <1>9, <1>10, Zenon DEF Cut
<1>. QED BY <1>11

\* split(',') cuts the whole text.
LEMMA SplitCuts ==
  ASSUME NEW C, NEW u \in Seq(C)
  PROVE  /\ Split(u) \in Seq(Seq(C))
         /\ \E from, to : Cut(u, Len(u), Len(Split(u)), Split(u), from, to)
<1>1. PICK N \in Nat : N = Len(u)
      OBVIOUS
<1>2. PICK V : V = {v \in Seq(Seq(C)) : Len(v) >= 1}
      OBVIOUS
<1>3. PICK g \in [0..N -> V] : /\ g[0] = << <<>> >> /\ g[N] = Split(u)
                               /\ \A n \in 1..N : g[n] = SplitStep(g[n-1], u[n])
      BY <1>1, <1>2, SplitUnfolds
<1>4. ASSUME NEW n \in 0..N PROVE g[n] \in Seq(Seq(C)) /\ Len(g[n]) \in Nat /\ Len(g[n]) >= 1
      BY <1>2
<1> DEFINE T == {n \in Nat : n <= N => \E from, to : Cut(u, n, Len(g[n]), g[n], from, to)}
<1>5. 0 \in T
  <2>1. Len(g[0]) = 1
        BY <1>3
  <2>. QED BY <1>3, <2>1, CutNothing
<1>6. ASSUME NEW n \in Nat, n \in T PROVE n + 1 \in T
  <2>1. SUFFICES ASSUME n + 1 <= N
                 PROVE  \E from, to : Cut(u, n + 1, Len(g[n + 1]), g[n + 1], from, to)
        OBVIOUS
  <2>2. n \in 0..N /\ n + 1 \in 1..N /\ (n + 1) - 1 = n /\ n <= N
        BY <2>1
  <2>3. PICK v \in Seq(Seq(C)) : v = g[n] /\ Len(v) \in Nat /\ Len(v) >= 1
        BY <1>4, <2>2
  <2>4. PICK from, to : Cut(u, n, Len(v), v, from, to)
        BY <1>6, <2>2, <2>3
  <2>5. g[n + 1] = SplitStep(v, u[n + 1])
        BY <1>3, <2>2, <2>3
  <2>6. CASE u[n + 1] = Comma
    <3>1. /\ Len(g[n + 1]) = Len(v) + 1 /\ g[n + 1][Len(v) + 1] = <<>>
          /\ \A i \in 1..Len(v) : g[n + 1][i] = v[i]
          BY <2>5, <2>6, SplitStepComma
    <3>2. \E f, t : Cut(u, n + 1, Len(v) + 1, g[n + 1], f, t)
          BY <2>3, <2>4, <2>6, <3>1, CutComma
    <3>. QED BY <3>1, <3>2
  <2>7. CASE u[n + 1] # Comma
    <3>1. PICK c \in C : c = u[n + 1]
          BY <1>1, <2>2
    <3>2. /\ Len(g[n + 1]) = Len(v) /\ g[n + 1][Len(v)] = Append(v[Len(v)], u[n + 1])
          /\ \A i \in 1..(Len(v) - 1) : g[n + 1][i] = v[i]
      <4>1. c # Comma
            BY <2>7, <3>1
      <4>2. LastGrows(v, c, SplitStep(v, c))
            BY <2>3, <4>1, SplitStepOther, Zenon
      <4>. QED BY <2>5, <3>1, <4>2, Zenon DEF LastGrows
    <3>3. PICK K \in Nat : K = Len(v) /\ K >= 1
          BY <2>3
    <3>4. PICK w : K = Len(v) /\ K >= 1 /\ w = g[n + 1]
          BY <3>3
    <3>5. /\ w[K] = Append(v[K], u[n + 1]) /\ \A i \in 1..(K - 1) : w[i] = v[i]
          /\ n + 1 <= Len(u) /\ Cut(u, n, K, v, from, to)
          BY <1>1, <2>1, <2>4, <3>2, <3>4, Zenon
    <3>6. \E f, t : Cut(u, n + 1, K, w, f, t)
          BY <2>7, <3>4, <3>5, CutOther
    <3>. QED BY <3>2, <3>4, <3>6, Zenon
  <2>. QED BY <2>6, <2>7
<1>. HIDE DEF T
<1>7. N \in T
      BY <1>5, <1>6, SetInduction
<1>8. \E from, to : Cut(u, N, Len(g[N]), g[N], from, to)
      BY <1>7 DEF T
<1>9. Split(u) \in Seq(Seq(C)) /\ Len(Split(u)) \in Nat /\ Len(Split(u)) >= 1
  <2>1. N \in 0..N
        OBVIOUS
  <2>. QED BY <1>3, <1>4, <2>1
<1>. QED BY <1>1, <1>3, <1>8, <1>9, Zenon

\* The places of a..b in u that trim keeps something of.
SolidIn(u, a, b) == {p \in a..b : u[p] \notin Spaces}

LEMMA MinIsLeast ==
  ASSUME NEW N \in Nat, NEW T \in SUBSET (0..N), T # {}
  PROVE  /\ Min(T) \in T /\ \A p \in T : Min(T) <= p
         /\ Max(T) \in T /\ \A p \in T : p <= Max(T)
<1>1. PICK x \in T : \A y \in T : x <= y
  <2>1. T \in SUBSET Nat
        OBVIOUS
  <2>. QED BY <2>1, LeastElement
<1>2. PICK z \in T : \A y \in T : y <= z
      BY GreatestElement
<1>3. Min(T) \in T /\ \A p \in T : Min(T) <= p
      BY <1>1, Zenon DEF Min
<1>4. Max(T) \in T /\ \A p \in T : Max(T) >= p
  <2>1. \A y \in T : z >= y
    <3>1. z \in Nat /\ \A y \in T : y \in Nat
          OBVIOUS
    <3>. QED BY <1>2, <3>1
  <2>. QED BY <2>1, Zenon DEF Max
<1>5. \A p \in T : p <= Max(T)
      BY <1>4
<1>. QED BY <1>3, <1>4, <1>5

\* The trimmed piece lies between its first and its last solid place.
LEMMA TrimPiece ==
  ASSUME NEW C, NEW u \in Seq(C), NEW part, NEW a, NEW b, Piece(u, Len(u), part, a, b)
  PROVE  /\ Trim(part) \in Seq(C)
         /\ SolidIn(u, a, b) = {} => Trim(part) = <<>>
         /\ SolidIn(u, a, b) # {} =>
              /\ Trim(part) # <<>>
              /\ Trim(part) = SubSeq(u, Min(SolidIn(u, a, b)), Max(SolidIn(u, a, b)))
<1>1. PICK N \in Nat : N = Len(u)
      OBVIOUS
<1>2. a \in Nat \ {0} /\ b \in Nat /\ a <= b + 1 /\ b <= N /\ part = SubSeq(u, a, b)
      BY <1>1 DEF Piece
<1>3. \A p \in a..b : p \in 1..N /\ u[p] \in C
      BY <1>1, <1>2
<1>4. PICK s \in Seq(C) : /\ s = part /\ Len(s) = (b - a) + 1
                          /\ \A i \in 1..((b - a) + 1) : s[i] = u[(a + i) - 1]
  <2>1. a \in Int /\ b \in Int /\ \A p \in a..b : u[p] \in C
        BY <1>2, <1>3
  <2>2. /\ SubSeq(u, a, b) \in Seq(C)
        /\ Len(SubSeq(u, a, b)) = IF a <= b THEN b - a + 1 ELSE 0
        /\ \A i \in 1..(b - a + 1) : SubSeq(u, a, b)[i] = u[a + i - 1]
        BY <2>1, SubSeqProperties
  <2>3. Len(SubSeq(u, a, b)) = (b - a) + 1
        BY <1>2, <2>2
  <2>4. ASSUME NEW i \in 1..((b - a) + 1) PROVE SubSeq(u, a, b)[i] = u[(a + i) - 1]
    <3>1. a + i - 1 = (a + i) - 1
          BY <1>2
    <3>. QED BY <2>2, <3>1, Zenon
  <2>. QED BY <1>2, <2>2, <2>3, <2>4, Zenon
<1>5. PICK T : T = {i \in DOMAIN s : s[i] \notin Spaces}
      OBVIOUS
<1>6. PICK P : P = SolidIn(u, a, b)
      OBVIOUS
<1>7. /\ \A i \in T : i \in 1..((b - a) + 1) /\ (a + i) - 1 \in P
      /\ \A p \in P : p \in a..b /\ (p - a) + 1 \in T
  <2>1. ASSUME NEW i \in T PROVE i \in 1..((b - a) + 1) /\ (a + i) - 1 \in P
    <3>1. i \in 1..((b - a) + 1) /\ s[i] \notin Spaces
          BY <1>4, <1>5
    <3>2. (a + i) - 1 \in a..b /\ u[(a + i) - 1] \notin Spaces
          BY <1>2, <1>4, <3>1
    <3>. QED BY <1>6, <3>1, <3>2 DEF SolidIn
  <2>2. ASSUME NEW p \in P PROVE p \in a..b /\ (p - a) + 1 \in T
    <3>1. p \in a..b /\ u[p] \notin Spaces
          BY <1>6 DEF SolidIn
    <3>2. (p - a) + 1 \in 1..((b - a) + 1) /\ (a + ((p - a) + 1)) - 1 = p
          BY <1>2, <3>1
    <3>3. (p - a) + 1 \in DOMAIN s /\ s[(p - a) + 1] = u[p]
          BY <1>4, <3>2
    <3>. QED BY <1>5, <3>1, <3>3
  <2>. QED BY <2>1, <2>2
<1>8. Trim(part) = IF T = {} THEN <<>> ELSE SubSeq(s, Min(T), Max(T))
      BY <1>4, <1>5, Zenon DEF Trim
<1>9. CASE P = {}
  <2>1. T = {}
        BY <1>7, <1>9
  <2>2. Trim(part) = <<>>
        BY <1>8, <2>1
  <2>3. <<>> \in Seq(C)
        OBVIOUS
  <2>. QED BY <1>6, <1>9, <2>2, <2>3
<1>10. CASE P # {}
  <2>1. T # {} /\ T \in SUBSET (0..N)
    <3>1. \A i \in T : i \in 0..N
          BY <1>2, <1>7, SMTT(30)
    <3>. QED BY <1>7, <1>10, <3>1
  <2>2. P \in SUBSET (0..N)
        BY <1>3, <1>7
  <2>3. PICK lo, hi : lo = Min(T) /\ hi = Max(T)
        OBVIOUS
  <2>4. lo \in T /\ hi \in T /\ \A i \in T : lo <= i /\ i <= hi
        BY <2>1, <2>3, MinIsLeast
  <2>5. PICK first, last : first = Min(P) /\ last = Max(P)
        OBVIOUS
  <2>6. first \in P /\ last \in P /\ \A p \in P : first <= p /\ p <= last
        BY <1>10, <2>2, <2>5, MinIsLeast
  <2>7. first = (a + lo) - 1 /\ last = (a + hi) - 1
    <3>1. /\ first \in a..b /\ last \in a..b /\ (first - a) + 1 \in T /\ (last - a) + 1 \in T
          /\ lo \in 1..((b - a) + 1) /\ hi \in 1..((b - a) + 1)
          /\ (a + lo) - 1 \in P /\ (a + hi) - 1 \in P
          BY <1>7, <2>4, <2>6
    <3>2. /\ first <= (a + lo) - 1 /\ (a + hi) - 1 <= last
          /\ lo <= (first - a) + 1 /\ (last - a) + 1 <= hi
          BY <2>4, <2>6, <3>1
    <3>. QED BY <1>2, <3>1, <3>2
  <2>8. /\ lo \in 1..((b - a) + 1) /\ hi \in 1..((b - a) + 1) /\ lo <= hi
        BY <1>7, <2>4
  <2>9. SubSeq(s, lo, hi) = SubSeq(u, first, last)
    <3>1. a \in 1..Len(u) /\ b \in 1..Len(u) /\ lo \in 1..(b - a + 1) /\ hi \in 1..(b - a + 1)
          BY <1>1, <1>2, <2>8
    <3>2. SubSeq(SubSeq(u, a, b), lo, hi) = SubSeq(u, a + lo - 1, a + hi - 1)
          BY <1>4, <3>1, SubSeqOfSubSeq
    <3>3. a + lo - 1 = first /\ a + hi - 1 = last
          BY <1>2, <2>7, <2>8
    <3>. QED BY <1>2, <1>4, <3>2, <3>3, Zenon
  <2>10. SubSeq(s, lo, hi) \in Seq(C) /\ Len(SubSeq(s, lo, hi)) = (hi - lo) + 1
    <3>1. lo \in Int /\ hi \in Int /\ \A i \in lo..hi : s[i] \in C
          BY <1>4, <2>8
    <3>2. /\ SubSeq(s, lo, hi) \in Seq(C)
          /\ Len(SubSeq(s, lo, hi)) = IF lo <= hi THEN hi - lo + 1 ELSE 0
          BY <3>1, SubSeqProperties
    <3>. QED BY <2>8, <3>2
  <2>11. SubSeq(s, lo, hi) # <<>>
    <3>1. (hi - lo) + 1 # 0
          BY <2>8
    <3>. QED BY <2>10, <3>1
  <2>12. Trim(part) = SubSeq(s, lo, hi)
         BY <1>8, <2>1, <2>3
  <2>. QED BY <1>6, <1>10, <2>5, <2>9, <2>10, <2>11, <2>12
<1>. QED BY <1>9, <1>10

\* res are the parts of 1..n that are not empty, in their order; pick says which.
Kept(parts, n, res, pick) ==
  /\ pick \in [1..Len(res) -> 1..n]
  /\ \A j, k \in 1..Len(res) : j < k => pick[j] < pick[k]
  /\ \A j \in 1..Len(res) : res[j] = parts[pick[j]] /\ res[j] # <<>>
  /\ \A i \in 1..n : parts[i] # <<>> => \E j \in 1..Len(res) : pick[j] = i

LEMMA KeptSkips ==
  ASSUME NEW parts, NEW n \in Nat, NEW res, NEW pick, Kept(parts, n, res, pick),
         parts[n + 1] = <<>>
  PROVE  Kept(parts, n + 1, res, pick)
<1>1. pick \in [1..Len(res) -> 1..(n + 1)]
  <2>1. 1..n \subseteq 1..(n + 1)
        OBVIOUS
  <2>2. pick \in [1..Len(res) -> 1..n]
        BY DEF Kept
  <2>. QED BY <2>1, <2>2
<1>2. ASSUME NEW i \in 1..(n + 1), parts[i] # <<>> PROVE \E j \in 1..Len(res) : pick[j] = i
  <2>1. i \in 1..n
        BY <1>2
  <2>. QED BY <1>2, <2>1 DEF Kept
<1>. QED BY <1>1, <1>2 DEF Kept

LEMMA KeptAppends ==
  ASSUME NEW T, NEW parts, NEW n \in Nat, NEW res \in Seq(T), NEW pick, Kept(parts, n, res, pick),
         parts[n + 1] # <<>>, parts[n + 1] \in T
  PROVE  \E more : Kept(parts, n + 1, Append(res, parts[n + 1]), more)
<1>1. PICK m \in Nat : m = Len(res)
      OBVIOUS
<1>2. PICK c \in T : c = parts[n + 1]
      OBVIOUS
<1>3. PICK w \in Seq(T) : w = Append(res, c)
      BY AppendProperties
<1>4. Len(w) = m + 1 /\ w[m + 1] = c /\ \A j \in 1..m : w[j] = res[j]
      BY <1>1, <1>3
<1>5. PICK more : more = [j \in 1..(m + 1) |-> IF j = m + 1 THEN n + 1 ELSE pick[j]]
      OBVIOUS
<1>6. /\ pick \in [1..m -> 1..n]
      /\ \A j, k \in 1..m : j < k => pick[j] < pick[k]
      /\ \A j \in 1..m : res[j] = parts[pick[j]] /\ res[j] # <<>>
      /\ \A i \in 1..n : parts[i] # <<>> => \E j \in 1..m : pick[j] = i
      BY <1>1, Zenon DEF Kept
<1>7. \A j \in 1..(m + 1) : j = m + 1 \/ j \in 1..m
      OBVIOUS
<1>8. more[m + 1] = n + 1 /\ m + 1 \in 1..(m + 1)
      BY <1>5
<1>9. ASSUME NEW j \in 1..m PROVE more[j] = pick[j] /\ j \in 1..(m + 1) /\ pick[j] \in 1..n
  <2>1. j \in 1..(m + 1) /\ j # m + 1
        OBVIOUS
  <2>. QED BY <1>5, <1>6, <2>1
<1>10. more \in [1..(m + 1) -> 1..(n + 1)]
  <2>1. \A j \in 1..(m + 1) : more[j] \in 1..(n + 1)
    <3>1. \A j \in 1..m : more[j] \in 1..(n + 1)
          BY <1>9
    <3>. QED BY <1>7, <1>8, <3>1
  <2>. QED BY <1>5, <2>1
<1>11. ASSUME NEW j \in 1..(m + 1), NEW k \in 1..(m + 1), j < k PROVE more[j] < more[k]
  <2>1. j \in 1..m
        BY <1>11
  <2>2. CASE k = m + 1
        BY <1>8, <1>9, <2>1, <2>2
  <2>3. CASE k \in 1..m
        BY <1>6, <1>9, <1>11, <2>1, <2>3
  <2>. QED BY <1>7, <2>2, <2>3
<1>12. ASSUME NEW j \in 1..(m + 1) PROVE w[j] = parts[more[j]] /\ w[j] # <<>>
  <2>1. CASE j = m + 1
        BY <1>2, <1>4, <1>8, <2>1
  <2>2. CASE j \in 1..m
        BY <1>4, <1>6, <1>9, <2>2
  <2>. QED BY <1>7, <2>1, <2>2
<1>13. ASSUME NEW i \in 1..(n + 1), parts[i] # <<>> PROVE \E j \in 1..(m + 1) : more[j] = i
  <2>1. CASE i = n + 1
        BY <1>8, <2>1
  <2>2. CASE i # n + 1
    <3>1. i \in 1..n
          BY <2>2
    <3>2. PICK j \in 1..m : pick[j] = i
          BY <1>6, <1>13, <3>1
    <3>. QED BY <1>9, <3>2
  <2>. QED BY <2>1, <2>2
<1>14. Kept(parts, n + 1, w, more)
       BY <1>4, <1>10, <1>11, <1>12, <1>13, Zenon DEF Kept
<1>. QED BY <1>2, <1>3, <1>14, Zenon

LEMMA NonEmptyKeeps ==
  ASSUME NEW C, NEW parts \in Seq(Seq(C))
  PROVE  /\ NonEmpty(parts) \in Seq(Seq(C))
         /\ \E pick : Kept(parts, Len(parts), NonEmpty(parts), pick)
<1>1. PICK N \in Nat : N = Len(parts)
      OBVIOUS
<1>2. PICK T : T = Seq(C)
      OBVIOUS
<1>3. \A n \in 1..N : parts[n] \in T
      BY <1>1, <1>2
<1>4. PICK sel : sel = [k \in DOMAIN parts |-> IF parts[k] = <<>> THEN <<>> ELSE <<parts[k]>>]
      OBVIOUS
<1>5. DOMAIN parts = 1..N
      BY <1>1
<1>6. \A n \in 1..N : sel[n] = IF parts[n] = <<>> THEN <<>> ELSE <<parts[n]>>
      BY <1>4, <1>5, Zenon
<1>7. sel \in Seq(Seq(T)) /\ Len(sel) = N
  <2>1. \A n \in 1..N : (IF parts[n] = <<>> THEN <<>> ELSE <<parts[n]>>) \in Seq(T)
        BY <1>3
  <2>2. PICK f \in [1..N -> Seq(T)] : f = sel
        BY <1>4, <1>5, <2>1, Zenon
  <2>3. f \in Seq(Seq(T)) /\ Len(f) = N
        OBVIOUS
  <2>. QED BY <2>2, <2>3
<1>8. PICK acc \in [0..N -> Seq(T)] : Flattens(acc, sel)
      BY <1>7, FlattensExists
<1>9. acc[0] = <<>> /\ \A n \in 1..N : acc[n] = acc[n-1] \o sel[n]
      BY <1>7, <1>8 DEF Flattens
<1> DEFINE G == {n \in Nat : n <= N => \E pick : Kept(parts, n, acc[n], pick)}
<1>10. 0 \in G
  <2>1. PICK pick : pick = [j \in 1..0 |-> 1]
        OBVIOUS
  <2>2. Len(acc[0]) = 0 /\ 1..0 = {}
        BY <1>9
  <2>3. Kept(parts, 0, acc[0], pick)
        BY <2>1, <2>2 DEF Kept
  <2>. QED BY <2>3
<1>11. ASSUME NEW n \in Nat, n \in G PROVE n + 1 \in G
  <2>1. SUFFICES ASSUME n + 1 <= N PROVE \E pick : Kept(parts, n + 1, acc[n + 1], pick)
        OBVIOUS
  <2>2. n \in 0..N /\ n + 1 \in 1..N /\ (n + 1) - 1 = n /\ n <= N
        BY <2>1
  <2>3. PICK res \in Seq(T) : res = acc[n]
        BY <2>2
  <2>4. PICK pick : Kept(parts, n, res, pick)
        BY <1>11, <2>2, <2>3
  <2>5. acc[n + 1] = res \o sel[n + 1]
        BY <1>9, <2>2, <2>3
  <2>6. CASE parts[n + 1] = <<>>
    <3>1. sel[n + 1] = <<>>
          BY <1>6, <2>2, <2>6
    <3>2. res \o <<>> = res
          OBVIOUS
    <3>3. acc[n + 1] = res
          BY <2>5, <3>1, <3>2
    <3>4. Kept(parts, n + 1, res, pick)
          BY <2>4, <2>6, KeptSkips
    <3>. QED BY <3>3, <3>4
  <2>7. CASE parts[n + 1] # <<>>
    <3>1. PICK c \in T : c = parts[n + 1]
          BY <1>3, <2>2
    <3>2. sel[n + 1] = <<c>>
          BY <1>6, <2>2, <2>7, <3>1
    <3>3. res \o <<c>> = Append(res, c)
          BY AppendOne
    <3>4. acc[n + 1] = Append(res, parts[n + 1])
          BY <2>5, <3>1, <3>2, <3>3
    <3>5. \E more : Kept(parts, n + 1, Append(res, parts[n + 1]), more)
          BY <2>4, <2>7, <3>1, KeptAppends
    <3>. QED BY <3>4, <3>5
  <2>. QED BY <2>6, <2>7
<1>. HIDE DEF G
<1>12. N \in G
       BY <1>10, <1>11, SetInduction
<1>13. acc[N] = NonEmpty(parts)
  <2>1. FlattenSeq(sel) = acc[N]
        BY <1>7, <1>8, FlattenUnfolds
  <2>. QED BY <1>4, <2>1, Zenon DEF NonEmpty
<1>14. acc[N] \in Seq(T)
       OBVIOUS
<1>15. \E pick : Kept(parts, N, acc[N], pick)
       BY <1>12 DEF G
<1>. QED BY <1>1, <1>2, <1>13, <1>14, <1>15

\* The ends of the solid places of a piece are those of a term.
LEMMA PieceHasTerm ==
  ASSUME NEW C, NEW u \in Seq(C), NEW part, NEW a, NEW b, Piece(u, Len(u), part, a, b),
         SolidIn(u, a, b) # {}
  PROVE  /\ <<Min(SolidIn(u, a, b)), Max(SolidIn(u, a, b))>> \in TermEnds(u)
         /\ Min(SolidIn(u, a, b)) \in a..b
<1>1. PICK N \in Nat : N = Len(u) /\ DOMAIN u = 1..N
      OBVIOUS
<1>2. /\ a \in Nat \ {0} /\ b \in Nat /\ b <= N
      /\ a > 1 => u[a - 1] = Comma
      /\ b < N => u[b + 1] = Comma
      /\ \A p \in a..b : u[p] # Comma
      BY <1>1 DEF Piece
<1>3. PICK P : P = SolidIn(u, a, b)
      OBVIOUS
<1>4. \A p \in P : p \in a..b /\ u[p] \notin Spaces
      BY <1>3 DEF SolidIn
<1>5. \A p \in a..b : p \in 1..N /\ p \in 0..N
      BY <1>2
<1>6. P \in SUBSET (0..N) /\ P # {}
      BY <1>3, <1>4, <1>5
<1>7. PICK lo \in P, hi \in P : /\ lo = Min(P) /\ hi = Max(P)
                               /\ \A p \in P : lo <= p /\ p <= hi
  <2>1. /\ Min(P) \in P /\ \A p \in P : Min(P) <= p
        /\ Max(P) \in P /\ \A p \in P : p <= Max(P)
        BY <1>6, MinIsLeast
  <2>. QED BY <2>1, Zenon
<1>8. /\ lo \in a..b /\ hi \in a..b /\ lo \in 1..N /\ hi \in 1..N /\ lo <= hi
      BY <1>4, <1>5, <1>7
<1>9. Solid(u, lo) /\ Solid(u, hi)
      BY <1>2, <1>4, <1>8 DEF Solid
<1>10. ~CommaIn(u, lo..hi)
  <2>1. \A p \in lo..hi : p \in a..b
        BY <1>2, <1>8
  <2>. QED BY <1>2, <2>1 DEF CommaIn
<1>11. ASSUME NEW k \in 1..N, Solid(u, k)
       PROVE  (k < lo => CommaIn(u, k..lo)) /\ (k > hi => CommaIn(u, hi..k))
  <2>1. k \in a..b => k \in P
        BY <1>3, <1>11 DEF Solid, SolidIn
  <2>2. ASSUME k < lo PROVE CommaIn(u, k..lo)
    <3>1. k \notin P
          BY <1>7, <1>8, <2>2
    <3>2. k < a
          BY <1>2, <1>8, <2>1, <2>2, <3>1
    <3>3. a - 1 \in k..lo /\ a > 1
          BY <1>2, <1>8, <3>2
    <3>. QED BY <1>2, <3>3 DEF CommaIn
  <2>3. ASSUME k > hi PROVE CommaIn(u, hi..k)
    <3>1. k \notin P
          BY <1>7, <1>8, <2>3
    <3>2. k > b
          BY <1>2, <1>8, <2>1, <2>3, <3>1
    <3>3. b + 1 \in hi..k /\ b < N
          BY <1>2, <1>8, <3>2
    <3>. QED BY <1>2, <3>3 DEF CommaIn
  <2>. QED BY <2>2, <2>3
<1>12. <<lo, hi>> \in TermEnds(u)
  <2>0. <<lo, hi>> \in (1..N) \X (1..N) /\ <<lo, hi>>[1] = lo /\ <<lo, hi>>[2] = hi
        BY <1>8
  <2>1. PICK e \in (DOMAIN u) \X (DOMAIN u) : e = <<lo, hi>> /\ e[1] = lo /\ e[2] = hi
        BY <1>1, <2>0, Zenon
  <2>2. /\ e[1] <= e[2] /\ Solid(u, e[1]) /\ Solid(u, e[2]) /\ ~CommaIn(u, e[1]..e[2])
        /\ \A k \in DOMAIN u : Solid(u, k) =>
             /\ k < e[1] => CommaIn(u, k..e[1])
             /\ k > e[2] => CommaIn(u, e[2]..k)
        BY <1>1, <1>8, <1>9, <1>10, <1>11, <2>1, Zenon
  <2>. QED BY <2>1, <2>2, Zenon DEF TermEnds
<1>. QED BY <1>3, <1>7, <1>8, <1>12

HasPiece(u, K, from, to, e) ==
  \E i \in 1..K : /\ SolidIn(u, from[i], to[i]) # {}
                  /\ e = <<Min(SolidIn(u, from[i], to[i])), Max(SolidIn(u, from[i], to[i]))>>

\* Every term is the solid part of one piece.
LEMMA TermHasPiece ==
  ASSUME NEW C, NEW u \in Seq(C), NEW K \in Nat, NEW parts, NEW from, NEW to,
         Cut(u, Len(u), K, parts, from, to), NEW e \in TermEnds(u)
  PROVE  HasPiece(u, K, from, to, e)
<1>1. PICK N \in Nat : N = Len(u) /\ DOMAIN u = 1..N
      OBVIOUS
<1>2. PICK s, t : /\ e = <<s, t>> /\ s \in 1..N /\ t \in 1..N /\ s <= t
                  /\ Solid(u, s) /\ Solid(u, t) /\ ~CommaIn(u, s..t)
                  /\ \A k \in 1..N : Solid(u, k) =>
                       /\ k < s => CommaIn(u, k..s)
                       /\ k > t => CommaIn(u, t..k)
      BY <1>1 DEF TermEnds
<1>3. u[s] # Comma
      BY <1>2 DEF Solid
<1>4. PICK i \in 1..K : s \in from[i]..to[i]
      BY <1>1, <1>2, <1>3 DEF Cut
<1>5. PICK a, b : a = from[i] /\ b = to[i]
      OBVIOUS
<1>6. Piece(u, N, parts[i], a, b)
      BY <1>1, <1>5 DEF Cut
<1>7. /\ a \in Nat \ {0} /\ b \in Nat /\ b <= N
      /\ b < N => u[b + 1] = Comma
      /\ \A p \in a..b : u[p] # Comma
      BY <1>6 DEF Piece
<1>8. s \in a..b
      BY <1>4, <1>5
<1>9. t \in a..b
  <2>1. ASSUME t > b PROVE FALSE
    <3>1. b + 1 \in s..t /\ b < N
          BY <1>2, <1>7, <1>8, <2>1
    <3>. QED BY <1>2, <1>7, <3>1 DEF CommaIn
  <2>. QED BY <1>2, <1>7, <1>8, <2>1
<1>10. PICK P : P = SolidIn(u, a, b)
       OBVIOUS
<1>11. \A p \in P : p \in a..b /\ u[p] \notin Spaces
       BY <1>10 DEF SolidIn
<1>12. s \in P /\ t \in P
       BY <1>2, <1>8, <1>9, <1>10 DEF SolidIn, Solid
<1>13. ASSUME NEW p \in P PROVE s <= p /\ p <= t
  <2>1. p \in a..b /\ p \in 1..N
        BY <1>7, <1>11
  <2>2. Solid(u, p)
        BY <1>7, <1>11, <2>1 DEF Solid
  <2>3. ASSUME p < s PROVE FALSE
    <3>1. CommaIn(u, p..s)
          BY <1>2, <2>1, <2>2, <2>3
    <3>2. \A q \in p..s : q \in a..b
          BY <1>7, <1>8, <2>1
    <3>. QED BY <1>7, <3>1, <3>2 DEF CommaIn
  <2>4. ASSUME p > t PROVE FALSE
    <3>1. CommaIn(u, t..p)
          BY <1>2, <2>1, <2>2, <2>4
    <3>2. \A q \in t..p : q \in a..b
          BY <1>7, <1>9, <2>1
    <3>. QED BY <1>7, <3>1, <3>2 DEF CommaIn
  <2>. QED BY <1>2, <2>1, <2>3, <2>4
<1>14. s = Min(P) /\ t = Max(P)
  <2>1. P \in SUBSET (0..N) /\ P # {}
    <3>1. \A p \in a..b : p \in 0..N
          BY <1>7
    <3>. QED BY <1>11, <1>12, <3>1
  <2>2. PICK lo \in P, hi \in P : /\ lo = Min(P) /\ hi = Max(P)
                                  /\ \A p \in P : lo <= p /\ p <= hi
    <3>1. /\ Min(P) \in P /\ \A p \in P : Min(P) <= p
          /\ Max(P) \in P /\ \A p \in P : p <= Max(P)
          BY <2>1, MinIsLeast
    <3>. QED BY <3>1, Zenon
  <2>3. lo <= s /\ s <= lo /\ hi <= t /\ t <= hi
        BY <1>12, <1>13, <2>2
  <2>4. lo \in Nat /\ hi \in Nat /\ s \in Nat /\ t \in Nat
        BY <1>2, <2>1
  <2>. QED BY <2>2, <2>3, <2>4
<1>. QED BY <1>2, <1>5, <1>10, <1>12, <1>14 DEF HasPiece

\* The terms keywords_json writes are those of its text.
LEMMA TermsAreMeant ==
  ASSUME NEW C, NEW u \in Seq(C)
  PROVE  /\ Terms(u) \in Seq(Seq(C))
         /\ TermsIn(u, [k \in DOMAIN Terms(u) |-> <<Terms(u)[k]>>])
<1>0. PICK K \in Nat : Split(u) \in Seq(Seq(C)) /\ Len(Split(u)) = K
      BY SplitCuts
<1>1. PICK from, to : Cut(u, Len(u), K, Split(u), from, to)
      BY <1>0, SplitCuts
<1>2. PICK parts \in Seq(Seq(C)) : parts = Split(u) /\ Len(parts) = K /\ DOMAIN parts = 1..K
      BY <1>0
<1>3. ASSUME NEW i \in 1..K
      PROVE  /\ Piece(u, Len(u), parts[i], from[i], to[i])
             /\ from[i] \in Nat /\ to[i] \in Nat
      BY <1>1, <1>2 DEF Cut
<1>4. PICK trimmed : trimmed = [k \in DOMAIN Split(u) |-> Trim(Split(u)[k])]
      OBVIOUS
<1>5. \A i \in 1..K : trimmed[i] = Trim(parts[i]) /\ trimmed[i] \in Seq(C)
      BY <1>2, <1>3, <1>4, TrimPiece
<1>6. trimmed \in Seq(Seq(C)) /\ Len(trimmed) = K
  <2>1. PICK f \in [1..K -> Seq(C)] : f = trimmed
        BY <1>2, <1>4, <1>5
  <2>2. f \in Seq(Seq(C)) /\ Len(f) = K
        OBVIOUS
  <2>. QED BY <2>1, <2>2
<1>7. Terms(u) = NonEmpty(trimmed)
      BY <1>4, Zenon DEF Terms
<1>7a. PICK res \in Seq(Seq(C)) : res = Terms(u)
       BY <1>6, <1>7, NonEmptyKeeps
<1>8. PICK pick : res = Terms(u) /\ Kept(trimmed, K, res, pick)
      BY <1>6, <1>7, <1>7a, NonEmptyKeeps
<1>9. PICK m \in Nat : m = Len(res) /\ DOMAIN res = 1..m
      OBVIOUS
<1>10. /\ \A j \in 1..m : pick[j] \in 1..K /\ res[j] = trimmed[pick[j]] /\ res[j] # <<>>
       /\ \A j, k \in 1..m : j < k => pick[j] < pick[k]
       /\ \A i \in 1..K : trimmed[i] # <<>> => \E j \in 1..m : pick[j] = i
       BY <1>8, <1>9 DEF Kept
<1>11. PICK P : P = [i \in 1..K |-> SolidIn(u, from[i], to[i])]
       OBVIOUS
<1>12. ASSUME NEW i \in 1..K
       PROVE  /\ P[i] = SolidIn(u, from[i], to[i])
              /\ P[i] = {} => trimmed[i] = <<>>
              /\ P[i] # {} => /\ trimmed[i] # <<>>
                              /\ trimmed[i] = SubSeq(u, Min(P[i]), Max(P[i]))
                              /\ <<Min(P[i]), Max(P[i])>> \in TermEnds(u)
                              /\ Min(P[i]) \in from[i]..to[i]
  <2>1. P[i] = SolidIn(u, from[i], to[i])
        BY <1>11
  <2>2. Piece(u, Len(u), parts[i], from[i], to[i])
        BY <1>3
  <2>3. trimmed[i] = Trim(parts[i])
        BY <1>5
  <2>4. PICK p, a, b : p = parts[i] /\ a = from[i] /\ b = to[i]
        OBVIOUS
  <2>5. Piece(u, Len(u), p, a, b)
        BY <2>2, <2>4, Zenon
  <2>6. /\ SolidIn(u, a, b) = {} => Trim(p) = <<>>
        /\ SolidIn(u, a, b) # {} =>
             /\ Trim(p) # <<>>
             /\ Trim(p) = SubSeq(u, Min(SolidIn(u, a, b)), Max(SolidIn(u, a, b)))
        BY <2>5, TrimPiece
  <2>7. SolidIn(u, a, b) # {} =>
          /\ <<Min(SolidIn(u, a, b)), Max(SolidIn(u, a, b))>> \in TermEnds(u)
          /\ Min(SolidIn(u, a, b)) \in a..b
        BY <2>5, PieceHasTerm
  <2>. QED BY <2>1, <2>3, <2>4, <2>6, <2>7, Zenon
<1>13. PICK ends : ends = [j \in 1..m |-> <<Min(P[pick[j]]), Max(P[pick[j]])>>]
       OBVIOUS
<1>14. ASSUME NEW j \in 1..m
       PROVE  /\ ends[j] = <<Min(P[pick[j]]), Max(P[pick[j]])>> /\ ends[j] \in TermEnds(u)
              /\ ends[j][1] = Min(P[pick[j]]) /\ ends[j][2] = Max(P[pick[j]])
              /\ res[j] = SubSeq(u, ends[j][1], ends[j][2])
              /\ ends[j][1] \in from[pick[j]]..to[pick[j]] /\ pick[j] \in 1..K
  <2>1. PICK i \in 1..K : i = pick[j] /\ res[j] = trimmed[i] /\ res[j] # <<>>
        BY <1>10
  <2>2. P[i] # {}
        BY <1>12, <2>1
  <2>3. ends[j] = <<Min(P[i]), Max(P[i])>>
        BY <1>13, <2>1, Zenon
  <2>4. ends[j][1] = Min(P[i]) /\ ends[j][2] = Max(P[i])
        BY <2>3
  <2>. QED BY <1>12, <2>1, <2>2, <2>3, <2>4, Zenon
<1>15. ends \in [1..m -> TermEnds(u)]
       BY <1>13, <1>14
<1>16. ASSUME NEW e \in TermEnds(u) PROVE \E j \in 1..m : ends[j] = e
  <2>1. PICK i \in 1..K : P[i] # {} /\ e = <<Min(P[i]), Max(P[i])>>
    <3>0. Cut(u, Len(u), K, Split(u), from, to)
          BY <1>1
    <3>1. HasPiece(u, K, from, to, e)
          BY <3>0, TermHasPiece
    <3>. QED BY <1>12, <3>1, Zenon DEF HasPiece
  <2>2. PICK j \in 1..m : pick[j] = i
        BY <1>10, <1>12, <2>1
  <2>. QED BY <1>14, <2>1, <2>2
<1>17. ASSUME NEW j \in 1..m, NEW k \in 1..m, j < k PROVE ends[j][1] < ends[k][1]
  <2>1. PICK x \in 1..K, y \in 1..K : x = pick[j] /\ y = pick[k] /\ x < y
        BY <1>10, <1>17
  <2>2. to[x] + 1 < from[y]
        BY <1>1, <2>1 DEF Cut
  <2>3. ends[j][1] \in from[x]..to[x] /\ ends[k][1] \in from[y]..to[y]
        BY <1>14, <2>1
  <2>4. from[x] \in Nat /\ to[x] \in Nat /\ from[y] \in Nat /\ to[y] \in Nat
        BY <1>3
  <2>5. PICK d, q : d = ends[j][1] /\ q = ends[k][1]
        OBVIOUS
  <2>6. d \in from[x]..to[x] /\ q \in from[y]..to[y]
        BY <2>3, <2>5, Zenon
  <2>7. d < q
        BY <2>2, <2>4, <2>6
  <2>. QED BY <2>5, <2>7, Zenon
<1>18. PICK read : read = [k \in DOMAIN Terms(u) |-> <<Terms(u)[k]>>]
       OBVIOUS
<1>19. DOMAIN read = 1..m /\ \A k \in 1..m : read[k] = <<SubSeq(u, ends[k][1], ends[k][2])>>
  <2>1. DOMAIN read = 1..m /\ \A k \in 1..m : read[k] = <<res[k]>>
        BY <1>8, <1>9, <1>18
  <2>. QED BY <1>14, <2>1
<1>20. TermsIn(u, read)
       BY <1>15, <1>16, <1>17, <1>19, Zenon DEF TermsIn
<1>. QED BY <1>8, <1>18, <1>20

LEMMA KeywordsStandFor ==
  ASSUME NEW u \in Printable
  PROVE  StandsFor(KeywordsJson(u), [k \in DOMAIN Terms(u) |-> <<Terms(u)[k]>>])
<1>1. PICK res \in Seq(Printable) : res = Terms(u)
  <2>1. u \in Seq(Symbols \ Control)
        BY DEF Printable
  <2>2. Terms(u) \in Seq(Seq(Symbols \ Control))
        BY <2>1, TermsAreMeant
  <2>. QED BY <2>2 DEF Printable
<1>2. PICK m \in Nat : m = Len(res) /\ DOMAIN res = 1..m
      OBVIOUS
<1>3. PICK parts : parts = [k \in 1..m |-> Quoted(EscapeColumn(res[k]))]
      OBVIOUS
<1>4. PICK its : its = [k \in 1..m |-> <<res[k]>>]
      OBVIOUS
<1>5. ASSUME NEW k \in 1..m, NEW e \in {"first", "next"}, NEW is
      PROVE  /\ parts[k] \in Seq(Chars)
             /\ Passes(parts[k], <<e, <<>>, is>>, <<"after", <<>>, Append(is, its[k])>>)
  <2>1. PICK t \in Seq(Symbols \ Control) : t = res[k]
    <3>1. res[k] \in Printable
          BY <1>2
    <3>. QED BY <3>1 DEF Printable
  <2>2. EscapeColumn(t) \in Seq(Symbols) /\ Adds(EscapeColumn(t), <<>>, t)
        BY ColumnSpelled
  <2>3. PICK x \in Seq(Chars) : x = EscapeColumn(t)
        BY <2>2, SymbolsAreChars, Zenon
  <2>4. Adds(x, <<>>, t)
        BY <2>2, <2>3
  <2>5. Quoted(x) \in Seq(Chars)
        BY QuotedIsChars
  <2>6. Passes(Quoted(x), <<e, <<>>, is>>, <<"after", <<>>, Append(is, <<t>>)>>)
        BY <2>4, QuotedItem
  <2>7. parts[k] = Quoted(x) /\ its[k] = <<t>>
        BY <1>3, <1>4, <2>1, <2>3, Zenon
  <2>. QED BY <2>5, <2>6, <2>7
<1>6. parts \in Seq(Seq(Chars)) /\ Len(parts) = m
  <2>1. PICK f \in [1..m -> Seq(Chars)] : f = parts
        BY <1>3, <1>5, Zenon
  <2>2. f \in Seq(Seq(Chars)) /\ Len(f) = m
        OBVIOUS
  <2>. QED BY <2>1, <2>2
<1>7. PICK A : A = {its[k] : k \in 1..m}
      OBVIOUS
<1>8. its \in Seq(A) /\ Len(its) = m
  <2>1. PICK f \in [1..m -> A] : f = its
        BY <1>4, <1>7, Zenon
  <2>2. f \in Seq(A) /\ Len(f) = m
        OBVIOUS
  <2>. QED BY <2>1, <2>2
<1>9. \A k \in 1..Len(parts), e \in {"first", "next"}, is \in Seq(A) :
        Passes(parts[k], <<e, <<>>, is>>, <<"after", <<>>, Append(is, its[k])>>)
      BY <1>5, <1>6
<1>10. StandsFor(Array(parts), its)
       BY <1>6, <1>8, <1>9, ArrayPasses DEF StandsFor
<1>11. KeywordsJson(u) = Array(parts)
       BY <1>1, <1>2, <1>3, Zenon DEF KeywordsJson
<1>12. [k \in DOMAIN Terms(u) |-> <<Terms(u)[k]>>] = its
       BY <1>1, <1>2, <1>4, Zenon
<1>. QED BY <1>10, <1>11, <1>12

-------------------------------------------------------------------------------
(* The reader's steps *)

Now == At(expect, within, text, item, items)

\* The places of a reader that takes all of out and has then read what was meant.
Course(tr) ==
  /\ Trace(tr, out) /\ tr[0] = At("start", "none", <<>>, <<>>, <<>>)
  /\ tr[Len(out)].expect = "end" /\ Meant(tr[Len(out)].items)

\* The reader is on that course.
OnCourse ==
  /\ out \in Seq(Chars) /\ pos \in 1..(Len(out) + 1)
  /\ \E tr : Course(tr) /\ tr[pos - 1] = Now

\* Some rule of the reader fits the next symbol.
SomeRuleFits ==
  \/ \E move \in Moves : move[1] = expect /\ move[2] = Symbol
  \/ expect \in Opens /\ Symbol = Quote
  \/ expect = "string" /\ Symbol \notin Control
  \/ expect = "escape" /\ Symbol \in DOMAIN Unescape

NeverStuck == pos <= Len(out) => SomeRuleFits

LEMMA MeantOfEach ==
  ASSUME Init
  PROVE  \E its : StandsFor(out, its) /\ Meant(its)
<1>1. CASE helper = "keywords" /\ input \in Keywords /\ out = KeywordsJson(input)
  <2>1. input \in Printable /\ input \in Seq(Symbols \ Control)
        BY <1>1, TextsAssumption DEF Printable
  <2>2. PICK its : its = [k \in DOMAIN Terms(input) |-> <<Terms(input)[k]>>]
        OBVIOUS
  <2>3. StandsFor(out, its)
        BY <1>1, <2>1, <2>2, KeywordsStandFor
  <2>4. TermsIn(input, its)
        BY <2>1, <2>2, TermsAreMeant
  <2>. QED BY <1>1, <2>3, <2>4 DEF Meant
<1>2. CASE helper = "examples" /\ input \in Examples /\ out = ExampleQueriesJson(input)
  <2>1. input \in Seq(Seq(Symbols) \X Seq(Symbols))
        BY <1>2, TextsAssumption
  <2>2. StandsFor(out, [k \in DOMAIN input |-> Row("examples", input[k])])
        BY <1>2, <2>1, ExamplesStandFor
  <2>3. Meant([k \in DOMAIN input |-> Row("examples", input[k])])
        BY <1>2 DEF Meant
  <2>. QED BY <2>2, <2>3
<1>3. CASE helper = "tasks" /\ input \in Tasks /\ out = AgentTestTasksJson(input)
  <2>1. PICK Lines : Lines = Seq(Symbols \ {Return, Tab})
        OBVIOUS
  <2>2. input \in Seq(Lines \X Lines)
        BY <1>3, <2>1, TextsAssumption
  <2>3. StandsFor(out, [k \in DOMAIN input |-> Row("tasks", input[k])])
        BY <1>3, <2>1, <2>2, TasksStandFor
  <2>4. Meant([k \in DOMAIN input |-> Row("tasks", input[k])])
        BY <1>3 DEF Meant
  <2>. QED BY <2>3, <2>4
<1>4. CASE helper = "columns" /\ input \in ColumnDocs /\ out = ResultColumnsSchema(input)
  <2>1. input \in Seq(Printable \X Printable \X Printable)
        BY <1>4, TextsAssumption
  <2>2. StandsFor(out, [k \in DOMAIN input |-> Row("columns", input[k])])
        BY <1>4, <2>1, ColumnsStandFor
  <2>3. Meant([k \in DOMAIN input |-> Row("columns", input[k])])
        BY <1>4 DEF Meant
  <2>. QED BY <2>2, <2>3
<1>. QED BY <1>1, <1>2, <1>3, <1>4 DEF Init

LEMMA OnCourseInit == Init => OnCourse
<1>. SUFFICES ASSUME Init PROVE OnCourse
     OBVIOUS
<1>1. PICK its : StandsFor(out, its) /\ Meant(its)
      BY MeantOfEach
<1>2. out \in Seq(Chars) /\ pos = 1 /\ Now = At("start", "none", <<>>, <<>>, <<>>)
      BY <1>1 DEF StandsFor, Init, Now
<1>3. PICK v, y : Reads(out, At("start", "none", <<>>, <<>>, <<>>), At("end", v, y, <<>>, its))
  <2>1. Passes(out, <<"start", <<>>, <<>>>>, <<"end", <<>>, its>>)
        BY <1>1 DEF StandsFor
  <2>. QED BY <2>1 DEF Passes
<1>4. PICK tr : /\ tr[0] = At("start", "none", <<>>, <<>>, <<>>)
                /\ tr[Len(out)] = At("end", v, y, <<>>, its) /\ Trace(tr, out)
      BY <1>3 DEF Reads
<1>5. tr[Len(out)].expect = "end" /\ tr[Len(out)].items = its
      BY <1>4 DEF At
<1>6. Course(tr)
      BY <1>1, <1>4, <1>5 DEF Course
<1>7. pos \in 1..(Len(out) + 1) /\ pos - 1 = 0
      BY <1>2
<1>. QED BY <1>2, <1>4, <1>6, <1>7 DEF OnCourse

\* Each action of the reader is a rule.
LEMMA StepIsRule ==
  ASSUME Accept
  PROVE  Takes(Now, Symbol, At(expect', within', text', item', items'))
<1>1. CASE \E move \in Moves : Structure(move)
  <2>1. PICK move \in Moves : Structure(move)
        BY <1>1
  <2>2. TakesMark(Now, Symbol, At(expect', within', text', item', items'))
        BY <2>1 DEF Structure, TakesMark, Now, At
  <2>. QED BY <2>2 DEF Takes
<1>2. CASE OpenString
  <2>1. TakesOpening(Now, Symbol, At(expect', within', text', item', items'))
        BY <1>2 DEF OpenString, TakesOpening, Now, At
  <2>. QED BY <2>1 DEF Takes
<1>3. CASE Plain
  <2>1. TakesPlain(Now, Symbol, At(expect', within', text', item', items'))
        BY <1>3 DEF Plain, TakesPlain, Now, At
  <2>. QED BY <2>1 DEF Takes
<1>4. CASE StartEscape
  <2>1. TakesBackslash(Now, Symbol, At(expect', within', text', item', items'))
        BY <1>4 DEF StartEscape, TakesBackslash, Now, At
  <2>. QED BY <2>1 DEF Takes
<1>5. CASE Escaped
  <2>1. TakesEscaped(Now, Symbol, At(expect', within', text', item', items'))
        BY <1>5 DEF Escaped, TakesEscaped, Now, At
  <2>. QED BY <2>1 DEF Takes
<1>6. CASE CloseString
  <2>1. TakesClosing(Now, Symbol, At(expect', within', text', item', items'))
        BY <1>6 DEF CloseString, TakesClosing, Now, At
  <2>. QED BY <2>1 DEF Takes
<1>. QED BY <1>1, <1>2, <1>3, <1>4, <1>5, <1>6 DEF Accept

LEMMA OnCourseStep == OnCourse /\ [Next]_vars => OnCourse'
<1>. SUFFICES ASSUME OnCourse, [Next]_vars PROVE OnCourse'
     OBVIOUS
<1>1. PICK tr : Course(tr) /\ tr[pos - 1] = Now
      BY DEF OnCourse
<1>2. out \in Seq(Chars) /\ pos \in 1..(Len(out) + 1)
      BY DEF OnCourse
<1>3. CASE Next
  <2>1. pos <= Len(out) /\ pos' = pos + 1 /\ Accept /\ UNCHANGED <<helper, input, out>>
        BY <1>3 DEF Next
  <2>2. pos \in 1..Len(out) /\ pos' - 1 = pos /\ pos' \in 1..(Len(out) + 1)
        BY <1>2, <2>1
  <2>3. Takes(Now, out[pos], At(expect', within', text', item', items'))
        BY <2>1, StepIsRule DEF Symbol
  <2>4. Takes(tr[pos - 1], out[pos], tr[pos])
        BY <1>1, <2>2 DEF Course, Trace
  <2>5. tr[pos] = At(expect', within', text', item', items')
        BY <1>1, <2>3, <2>4, TakesOneWay
  <2>6. Course(tr)'
        BY <1>1, <2>1 DEF Course, Meant
  <2>7. tr[pos' - 1] = Now'
        BY <2>2, <2>5 DEF Now
  <2>. QED BY <1>2, <2>1, <2>2, <2>6, <2>7 DEF OnCourse
<1>4. CASE UNCHANGED vars
      BY <1>4 DEF OnCourse, Course, Meant, Now, vars
<1>. QED BY <1>3, <1>4

LEMMA OnCourseAlways == Spec => []OnCourse
BY OnCourseInit, OnCourseStep, PTL DEF Spec

\* Whatever the texts, a parser that has taken all of what a helper wrote has accepted it
\* and read back what was meant (meta.rs:15-17, 51-52, 77-81, 101-106).
THEOREM HelpersReadBack == Spec => []ReadsBack
<1>1. OnCourse => ReadsBack
  <2>. SUFFICES ASSUME OnCourse, pos > Len(out) PROVE expect = "end" /\ Meant(items)
       BY DEF ReadsBack
  <2>1. PICK tr : Course(tr) /\ tr[pos - 1] = Now
        BY DEF OnCourse
  <2>2. pos - 1 = Len(out)
        BY DEF OnCourse
  <2>3. Now.expect = "end" /\ Meant(Now.items)
        BY <2>1, <2>2 DEF Course
  <2>. QED BY <2>3 DEF Now, At
<1>. QED BY <1>1, OnCourseAlways, PTL

\* Before the end of what a helper wrote some rule of the grammar always fits: no quote,
\* backslash, comma or line end of a text breaks the JSON (meta.rs:15-17, 51-52, 77-81,
\* 101-106).
THEOREM ReaderNeverStuck == Spec => []NeverStuck
<1>1. OnCourse => NeverStuck
  <2>. SUFFICES ASSUME OnCourse, pos <= Len(out) PROVE SomeRuleFits
       BY DEF NeverStuck
  <2>1. PICK tr : Course(tr) /\ tr[pos - 1] = Now
        BY DEF OnCourse
  <2>2. pos \in 1..Len(out)
        BY DEF OnCourse
  <2>3. Takes(Now, out[pos], tr[pos])
        BY <2>1, <2>2 DEF Course, Trace
  <2>. QED BY <2>3 DEF Takes, TakesMark, TakesOpening, TakesPlain, TakesBackslash,
                       TakesEscaped, TakesClosing, Now, At, SomeRuleFits, Symbol, Control,
                       Quote, Backslash, Newline, Return, Tab
<1>. QED BY <1>1, OnCourseAlways, PTL
=============================================================================
