---------------------------- MODULE MCTreeReuse ----------------------------
EXTENDS TreeReuse, TLC
CONSTANTS n1, n2, n3, n4
MCNodes == {n1, n2, n3, n4}
NodeSymmetry == Permutations(MCNodes)
============================================================================
