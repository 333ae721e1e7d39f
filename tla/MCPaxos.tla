------------------------------ MODULE MCPaxos -------------------------------
EXTENDS Paxos, TLC

\* Nothing tells the proposed values apart.
ValueSymmetry == Permutations(Value)

OneRoundEach == [p \in {1, 2} |-> 1]
=============================================================================
