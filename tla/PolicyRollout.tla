--------------------------- MODULE PolicyRollout ---------------------------
(***************************************************************************)
(* What an endpoint may enforce, with nothing of how policies reach it:    *)
(* the sets that operators committed, and the empty set, which is given to *)
(* one that is paused. It takes up no set that it says it has installed,   *)
(* so one that turned itself off, or that took up a set only in part,      *)
(* stays so until it is given another one, or starts again.                *)
(* LinuxPolicySync implements this specification.                          *)
(***************************************************************************)
CONSTANTS PolicySets, NoPolicies, Nothing, Mixed

VARIABLES
    committed,   \* every policy set there has been
    installed,   \* the set the endpoint says it has
    enforced     \* the set it enforces, or nothing, or a mixture

rolloutVars == <<committed, installed, enforced>>

RolloutInit ==
    /\ \E p \in PolicySets : committed = {p}
    /\ installed = Nothing
    /\ enforced = Nothing

Commit(p) == committed' = committed \cup {p} /\ UNCHANGED <<installed, enforced>>

\* Wholly; or it breaks off, and then parts of it, nothing, or what was
\* enforced before is.
Adopt(p) ==
    /\ p \in committed \cup {NoPolicies}
    /\ p # installed
    /\ installed' = p
    /\ enforced' \in {p, Mixed, Nothing, enforced}
    /\ UNCHANGED committed

TurnOff == enforced' = Nothing /\ UNCHANGED <<committed, installed>>

StartOver ==
    /\ installed' = Nothing
    /\ enforced' = Nothing
    /\ UNCHANGED committed

RolloutNext ==
    \/ \E p \in PolicySets : Commit(p) \/ Adopt(p)
    \/ TurnOff \/ StartOver

RolloutSpec == RolloutInit /\ [][RolloutNext]_rolloutVars

=============================================================================
