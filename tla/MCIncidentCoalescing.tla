------------------------ MODULE MCIncidentCoalescing ------------------------
\* Three events of two users, raised within a window of one another or not.
EXTENDS IncidentCoalescing, TLC

MCTimes == {0, 1, 2}
MCSeverities == {3, 4}
Symmetry == Permutations(Events) \cup Permutations(Keys)

=============================================================================
