----------------------------- MODULE MCSettings -----------------------------
EXTENDS Settings, TLC

\* The requests are interchangeable.
CallSymmetry == Permutations(Calls)
=============================================================================
