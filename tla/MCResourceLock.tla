--------------------------- MODULE MCResourceLock ---------------------------
(* ResourceLock on a small instance.                                       *)
EXTENDS ResourceLock, TLC

CONSTANTS h1, h2, h3, k1, k2

ThreeHolders == {h1, h2, h3}
TwoHolders == {h1, h2}
OneKey == {k1}
TwoKeys == {k1, k2}

\* Holder ids and keys are compared for equality only.
HolderSymmetry == Permutations(Holders) \cup Permutations(Keys)
=============================================================================
