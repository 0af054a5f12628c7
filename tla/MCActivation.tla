---------------------------- MODULE MCActivation ----------------------------
EXTENDS Activation, TLC
ActivationSymmetry == Permutations(Children) \cup Permutations(PCs)
=============================================================================
