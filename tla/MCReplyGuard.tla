---------------------------- MODULE MCReplyGuard ----------------------------
(* Small instances of ReplyGuard for TLC.                                   *)
EXTENDS ReplyGuard, TLC

CONSTANTS r1, r2

MCReplies == {r1, r2}

=============================================================================
