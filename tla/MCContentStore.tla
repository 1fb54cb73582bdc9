--------------------------- MODULE MCContentStore ---------------------------
EXTENDS ContentStore, TLC

\* Writers are interchangeable; inodes carry their names.
Symmetry == Permutations(Writers)
=============================================================================
