--------------------------- MODULE MCAuthSession ---------------------------
EXTENDS AuthSession, TLC
CONSTANTS a1, a2, b1, a, b
TwoTabs == a1 :> a @@ a2 :> a @@ b1 :> b
AuthSymmetry == Permutations({a1, a2})
=============================================================================
