--------------------------- MODULE MCSubmitGuard ---------------------------
(* A small instance of SubmitGuard for TLC.                                 *)
EXTENDS SubmitGuard, TLC

CONSTANTS f1, text

MCFiles == {f1}

=============================================================================
