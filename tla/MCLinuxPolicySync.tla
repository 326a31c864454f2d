------------------------- MODULE MCLinuxPolicySync -------------------------
(* Small instances of LinuxPolicySync for TLC.                              *)
EXTENDS LinuxPolicySync, TLC

CONSTANTS r1, r2, none, monitor, block

MCRequests == {r1, r2}
MCPolicySets == {none, monitor, block}
MCBlocking == {block}

MCSymmetry == Permutations(MCRequests)

=============================================================================
