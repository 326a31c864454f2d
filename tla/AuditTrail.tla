----------------------------- MODULE AuditTrail -----------------------------
(***************************************************************************)
(* What event delivery promises, with nothing of how it is done: an event  *)
(* an endpoint raises is under way until it is recorded by the server,     *)
(* discarded by it, or lost by the endpoint; those three are final.        *)
(* EventDelivery implements this specification.                            *)
(***************************************************************************)
CONSTANT Events

VARIABLE trail

Outcomes == {"recorded", "discarded", "lost"}

TrailTypeOK == trail \in [Events -> {"unraised", "pending"} \cup Outcomes]

TrailInit == trail = [e \in Events |-> "unraised"]

Raise(e) ==
    /\ trail[e] = "unraised"
    /\ trail' = [trail EXCEPT ![e] = "pending"]

\* An endpoint that enforces nothing throws away what it sees.
Ignore(e) ==
    /\ trail[e] = "unraised"
    /\ trail' = [trail EXCEPT ![e] = "lost"]

Record(e) ==
    /\ trail[e] = "pending"
    /\ trail' = [trail EXCEPT ![e] = "recorded"]

\* One step can end several events: a crash, a torn line, the rewrite of the
\* spool once the server has answered for a batch.
LetGo(discarded, lost) ==
    /\ \A e \in discarded \cup lost : trail[e] = "pending"
    /\ trail' = [e \in Events |->
                    IF e \in discarded THEN "discarded"
                    ELSE IF e \in lost THEN "lost" ELSE trail[e]]

TrailNext ==
    \/ \E e \in Events : Raise(e) \/ Ignore(e) \/ Record(e)
    \/ \E discarded, lost \in SUBSET Events : LetGo(discarded, lost)

TrailSpec == TrailInit /\ [][TrailNext]_trail

=============================================================================
