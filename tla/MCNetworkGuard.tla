--------------------------- MODULE MCNetworkGuard ---------------------------
(* Small instances of NetworkGuard for TLC.                                 *)
EXTENDS NetworkGuard, TLC

CONSTANTS p1, f1, f2, i1, guard

MCOneProcess == {p1}
MCFiles == {f1, f2}
MCOneInspector == {i1}

=============================================================================
