------------------------------- MODULE ScanRef -------------------------------
(***************************************************************************)
(* What the caller of a pprof table function may expect, said without the  *)
(* steps of Scan: what an argument names in files that do not change, and  *)
(* what survives of it when some of them do.                               *)
(***************************************************************************)
EXTENDS Scan, Functions

IsOne(S) == \E x \in S : S = {x}
Only(S)  == CHOOSE x \in S : TRUE

\* Throughout call c the file held one thing, and nobody was rewriting it.
Still(c, p) == IsOne(seenFile[c][p]) /\ InFlux \notin seenFile[c][p]

\* Throughout call c, whether its globs find path p was one thing.
StillFound(c, p) == /\ IsOne(seenDir[c][DirOf[p]])
                    /\ seenFile[c][p] = {Absent} \/ Absent \notin seenFile[c][p]

\* Element i of call c's argument may stand for path q: q is the path it spells, or
\* its pattern matches q.
MayName(e, q) == /\ e # NullElem
                 /\ IF ExpandsAsGlob(e) THEN q \in Matches[e] ELSE q = Literal(e)

Places(c) == {x \in (DOMAIN arg[c].elems) \X Paths : MayName(arg[c].elems[x[1]], x[2])}

\* The order of a result: that of the elements, and of names within an element.
InOrder(from) ==
  \A d, e \in DOMAIN from : d < e =>
    \/ from[d][1] < from[e][1]
    \/ from[d][1] = from[e][1] /\ Name[from[d][2]] <= Name[from[e][2]]

\* Nothing the argument of call c has to do with name p changed: the file of that
\* name, and whether the paths that are read under it are found.
Steady(c, p) ==
  /\ Still(c, p)
  /\ \A x \in Places(c) :
       Name[x[2]] = p /\ ExpandsAsGlob(arg[c].elems[x[1]]) => StillFound(c, x[2])

\* File p as call c found it, and what is read of it; the places that are found.
Held(c, p)    == Only(seenFile[c][p])
BlockOf(c, p) == Block(Unit(p, Read(Held(c, p))))
Found(c, p)   == seenFile[c][p] # {Absent} /\ Only(seenDir[c][DirOf[p]])
Named(c) == {x \in Places(c) : ExpandsAsGlob(arg[c].elems[x[1]]) => Found(c, x[2])}

Finished(c)  == pc[c] \in {"drained", "done"}
FromPaths(c) == Finished(c) /\ arg[c].kind # "binary"

\* A call whose batch is handed over, and during which nothing it looks at
\* changes, delivers exactly the reference answer: every spec in argument order, the matches of a glob sorted,
\* one block per file, each once, an error row for each file that has no
\* profile (source.rs resolve, table/mod.rs next_batch).
QuietCallIsExact ==
  \A c \in Calls : Finished(c) /\ (\A p \in Names : Steady(c, p)) =>
    IF arg[c].kind = "binary"
    THEN delivered[c] = <<Block(Unit(NoFile, FromBytes(arg[c].blob)))>>
    ELSE \E from \in Bijection(DOMAIN delivered[c], Named(c)) :
           /\ InOrder(from)
           /\ \A d \in DOMAIN from : delivered[c][d] = BlockOf(c, Name[from[d][2]])

\* A file that does not change contributes exactly its own rows, as often as the
\* argument names it, whatever happens to every other file during the call:
\* per-file error capture isolates files from each other (source.rs:11-14).
SteadyFileIsExact ==
  \A c \in Calls : FromPaths(c) =>
    \A p \in Names : Steady(c, p) =>
      LET mine == {d \in DOMAIN delivered[c] : delivered[c][d].file = p}
      IN  /\ \A d \in mine : delivered[c][d] = BlockOf(c, p)
          /\ Cardinality(mine) = Cardinality({x \in Named(c) : Name[x[2]] = p})

\* Whatever changes during the call, its result follows the argument: every block
\* has a place of its own in it, in order; no file is reported for a spec that
\* does not name it, and no literal path vanishes (source.rs:39-60, 147-157).
ResultFollowsArgument ==
  \A c \in Calls : FromPaths(c) =>
    \E from \in Injection(DOMAIN delivered[c], Places(c)) :
      /\ InOrder(from)
      /\ \A d \in DOMAIN from : delivered[c][d].file = Name[from[d][2]]
      /\ \A x \in Places(c) : ~ExpandsAsGlob(arg[c].elems[x[1]]) =>
           \E d \in DOMAIN from : from[d] = x

-------------------------------------------------------------------------------
(* How far a call has come, in terms of its argument *)

\* What a call holds of its result: the units, then the batch made of them.
Output(c) == IF Finished(c) THEN delivered[c] ELSE units[c]

\* A pattern that took path q in, or left it out, saw a reason to.
SawFound(c, q)   == TRUE \in seenDir[c][DirOf[q]] /\ \E x \in seenFile[c][q] : x # Absent
SawMissing(c, q) == FALSE \in seenDir[c][DirOf[q]] \/ Absent \in seenFile[c][q]

\* The elements es still to be looked at end the argument E, at[i] is the element that
\* spec sp[i] is, and at most element m has been expanded.
Ahead(E, es, sp, m, at) ==
  LET k == Len(E) - Len(es)
  IN  /\ k >= m /\ \A i \in DOMAIN es : es[i] = E[k + i]
      /\ \A i \in DOMAIN at : at[i] > m /\ at[i] <= k /\ sp[i] = E[at[i]]
      /\ \A i, j \in DOMAIN at : i < j => at[i] < at[j]
      /\ \A n \in (m + 1)..k : E[n] = NullElem \/ \E i \in DOMAIN at : at[i] = n

\* Block or unit d comes from place from[d].
Behind(c, m, from) ==
  /\ \A d, e \in DOMAIN from : from[d] = from[e] => d = e
  /\ InOrder(from)
  /\ \A d \in DOMAIN from : /\ from[d][1] <= m
                            /\ Output(c)[d].file = Name[from[d][2]]

\* The paths pending are those of element m, and come last.
Current(c, m, from) ==
  /\ pending[c] # {} \/ pc[c] \in {"listing", "reading"} => m > 0
  /\ pc[c] = "listing" => /\ glob[c] = arg[c].elems[m] /\ ExpandsAsGlob(glob[c])
                          /\ \A d \in DOMAIN from : from[d][1] < m
  /\ \A q \in pending[c] :
       /\ <<m, q>> \in Places(c)
       /\ \A d \in DOMAIN from : /\ from[d] # <<m, q>>
                                 /\ from[d][1] = m => Name[from[d][2]] <= Name[q]

\* Of the places of the elements expanded so far, the literals have been taken in, and
\* the matches have been taken in or left out for a reason.
Taken(c, m, from, x) == \/ \E d \in DOMAIN from : from[d] = x
                        \/ x[1] = m /\ x[2] \in pending[c]

Collected(c, m, from) ==
  \A x \in Places(c) : x[1] <= m =>
    IF ExpandsAsGlob(arg[c].elems[x[1]])
    THEN IF Taken(c, m, from, x) THEN SawFound(c, x[2])
         ELSE \/ SawMissing(c, x[2])
              \/ pc[c] = "listing" /\ x[1] = m /\ DirOf[x[2]] \in dirs[c]
    ELSE Taken(c, m, from, x)

\* A call has nothing in progress outside the loop that works on it.
Tidy(c) ==
  /\ pc[c] # "args" => elems[c] = <<>>
  /\ pc[c] \in {"args", "specs", "listing", "reading"} \/ specs[c] = <<>>
  /\ pc[c] \in {"listing", "reading"} \/ pending[c] = {}
  /\ pc[c] = "args" => units[c] = <<>>
  /\ pc[c] \in {"args", "specs", "listing", "reading"} => arg[c].kind # "binary"

\* The witnesses of a call's progress: the element in hand, the element of every spec
\* to come, and the place of every block or unit.
Trace(c, m, at, from) ==
  /\ pc[c] = "args" => m = 0
  /\ Ahead(arg[c].elems, elems[c], specs[c], m, at) /\ Behind(c, m, from)
  /\ Current(c, m, from) /\ Collected(c, m, from)

Traced(c) ==
  /\ Tidy(c)
  /\ pc[c] \notin {"idle", "unbuilt", "failed"} =>
       IF arg[c].kind = "binary"
       THEN Len(Output(c)) = 1 /\ Output(c)[1].file = NoFile
       ELSE \E m \in 0..Len(arg[c].elems) :
            \E at \in [DOMAIN specs[c] -> DOMAIN arg[c].elems] :
            \E from \in [DOMAIN Output(c) -> Places(c)] : Trace(c, m, at, from)

\* At every step of a call each unit pushed so far comes from a place of its own among
\* the elements already expanded, in order and under the name it is read as; every
\* literal of theirs has been taken in, and every match of their patterns taken in or
\* left out for something the call saw (source.rs:39-60, 131-157).  The three promises
\* follow.
ProgressIsTraced == \A c \in Calls : Traced(c)
==============================================================================
