---------------------------- MODULE MCReadGuard ----------------------------
(* Small instances of ReadGuard for TLC.                                    *)
EXTENDS ReadGuard, TLC

CONSTANTS f1, s1, h1, r1, reporter

MCFiles == {f1}
MCSweepers == {s1}
MCHandlers == {h1}
MCReaders == {r1}

=============================================================================
