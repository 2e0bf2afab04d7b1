---------------------------- MODULE MCSmpKernel ----------------------------
EXTENDS SmpKernel, TLC

\* The application processors run the same code.
ApSymmetry == Permutations(AP)
=============================================================================
