------------------------- MODULE MCIncidentLifecycle -------------------------
EXTENDS IncidentLifecycle, TLC

CONSTANTS a1, a2, a3, i1, i2, i3, f1, f2, f3, o1

Symmetry == Permutations(Alerts) \cup Permutations(Incidents) \cup Permutations(Fingerprints)

=============================================================================
