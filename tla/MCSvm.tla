------------------------------- MODULE MCSvm -------------------------------
EXTENDS Svm, TLC
CONSTANTS c1, c2, f1, f2
Symmetry == Permutations(Cores) \cup Permutations(Frames)
=============================================================================
