------------------------- MODULE MCAgentSuspension -------------------------
(* Small instances of AgentSuspension for TLC.                              *)
EXTENDS AgentSuspension, TLC

CONSTANTS w1, w2, current, l1, l2, operator, beat

MCWorkers == {w1, w2}
MCOneId == {current}
MCLookups == {l1, l2}
MCOperators == {operator}
MCBeats == {beat}
MCDurations == {1, Forever}

\* Workers and calls are interchangeable; the ids are not.
MCSymmetry == Permutations(MCWorkers) \cup Permutations(MCLookups)

=============================================================================
