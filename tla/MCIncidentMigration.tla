------------------------- MODULE MCIncidentMigration -------------------------
\* Three events, spread over at most two windows.
EXTENDS IncidentMigration

MCTimes == {0, 1, 2}

=============================================================================
