------------------------------- MODULE ScanAbs -------------------------------
(***************************************************************************)
(* What a call of a pprof table function promises, with no mention of      *)
(* arguments, patterns, directories or batches in the making: it is        *)
(* refused, or it observes one source after another, each observation      *)
(* being one read of the file at that moment, until it has them all.  Who  *)
(* then asks for the result gets everything that was observed, once, in    *)
(* the order it was observed, or an error and nothing when the batch       *)
(* cannot be built.  A call may begin again, and then nothing of what it   *)
(* had observed or delivered is left; it may end without having delivered. *)
(***************************************************************************)
EXTENDS DecodeUnits

CONSTANTS Calls, Paths, Fits(_)

VARIABLES fs,        \* what each path holds
          stage,     \* see Stages
          observed,  \* the units a call has so far
          delivered  \* what its caller has received

vars == <<fs, stage, observed, delivered>>

Stages == {"idle", "scanning", "resolved", "delivered", "failed", "refused"}

Init ==
  /\ fs \in [Paths -> Files]
  /\ stage = [c \in Calls |-> "idle"]
  /\ observed = [c \in Calls |-> <<>>]
  /\ delivered = [c \in Calls |-> <<>>]

Enter(c, s) == stage' = [stage EXCEPT ![c] = s]

Refuse(c) ==
  /\ stage[c] = "idle" /\ Enter(c, "refused")
  /\ UNCHANGED <<fs, observed, delivered>>

\* A call begins with nothing, or with the one unit of its inline bytes.
BeginWith(c, us) ==
  /\ stage[c] \in {"idle", "resolved", "delivered", "failed"}
  /\ observed' = [observed EXCEPT ![c] = us]
  /\ delivered' = [delivered EXCEPT ![c] = <<>>]
  /\ UNCHANGED fs

Begin(c) == BeginWith(c, <<>>) /\ Enter(c, "scanning")

BeginInline(c, b) ==
  BeginWith(c, <<Unit(NoFile, FromBytes(b))>>) /\ Enter(c, "resolved")

ObserveFile(c, p) ==
  /\ stage[c] = "scanning"
  /\ \E r \in Reads(fs[p]) : observed' = [observed EXCEPT ![c] = Append(@, Unit(p, r))]
  /\ UNCHANGED <<fs, stage, delivered>>

Resolve(c) ==
  /\ stage[c] = "scanning" /\ Enter(c, "resolved")
  /\ UNCHANGED <<fs, observed, delivered>>

Deliver(c) ==
  /\ stage[c] = "resolved" /\ Fits(observed[c]) /\ Enter(c, "delivered")
  /\ delivered' = [delivered EXCEPT ![c] = Build(observed[c])]
  /\ observed' = [observed EXCEPT ![c] = <<>>]
  /\ UNCHANGED fs

Fail(c) ==
  /\ stage[c] = "resolved" /\ ~Fits(observed[c]) /\ Enter(c, "failed")
  /\ observed' = [observed EXCEPT ![c] = <<>>]
  /\ UNCHANGED <<fs, delivered>>

End(c) ==
  /\ stage[c] \in {"resolved", "delivered", "failed", "refused"} /\ Enter(c, "idle")
  /\ observed' = [observed EXCEPT ![c] = <<>>]
  /\ delivered' = [delivered EXCEPT ![c] = <<>>]
  /\ UNCHANGED fs

World == fs' \in [Paths -> Files] /\ UNCHANGED <<stage, observed, delivered>>

Next ==
  \/ \E c \in Calls :
       \/ Refuse(c) \/ Begin(c) \/ (\E b \in Bytes : BeginInline(c, b))
       \/ (\E p \in Paths : ObserveFile(c, p)) \/ Resolve(c)
       \/ Deliver(c) \/ Fail(c) \/ End(c)
  \/ World

\* A call that has begun gets to the end of its sources; whether anybody asks for
\* the result is not the call's to promise.
Fairness == \A c \in Calls : WF_vars(Resolve(c))

Safety == Init /\ [][Next]_vars
Spec   == Safety /\ Fairness
==============================================================================
