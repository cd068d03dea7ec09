--------------------------- MODULE MCRepoMetadata ---------------------------
EXTENDS RepoMetadata, TLC

ProcSymmetry == Permutations(Proc)
=============================================================================
