--------------------------- MODULE MCAnalysisWorker ---------------------------
EXTENDS AnalysisWorker, TLC

CONSTANTS i1, i2

Symmetry == Permutations(Incidents)

=============================================================================
