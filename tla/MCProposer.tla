----------------------------- MODULE MCProposer -----------------------------
EXTENDS ProposerEnv, TLC

\* Nothing tells the proposed values apart.
ValueSymmetry == Permutations(Value)
=============================================================================
