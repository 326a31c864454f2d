------------------------- MODULE MCExtensionWorker -------------------------
(* Small instances of ExtensionWorker for TLC.                              *)
EXTENDS ExtensionWorker, TLC

CONSTANTS t1, t2

MCJobs == {t1, t2}
MCLists == 1..2
MCPolicies == 1..2

(* The lists differ in nothing but their number, nor do the matrices: the   *)
(* server starts with the first of each.                                    *)
MCInit == Init /\ server = [cat |-> 1, pol |-> 1]
MCFairSpec == MCInit /\ [][Next]_vars /\ Fairness

=============================================================================
