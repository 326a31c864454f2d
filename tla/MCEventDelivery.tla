-------------------------- MODULE MCEventDelivery --------------------------
(* Small instances of EventDelivery for TLC.                                *)
EXTENDS EventDelivery, TLC

CONSTANTS e1, e2, e3

MCEvents == {e1, e2, e3}
MCTwoEvents == {e1, e2}
MCMalformed == {e2}
MCNone == {}

\* e1 and e3 are both well formed and otherwise alike.
MCSymmetry == Permutations({e1, e3})

=============================================================================
