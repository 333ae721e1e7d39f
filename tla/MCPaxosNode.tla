---------------------------- MODULE MCPaxosNode -----------------------------
EXTENDS PaxosNodeEnv

\* Seen from node 2: an identifier that is lower than its own of number 1, one
\* that is higher, and one that raises its number and is lower than what results.
LowTieRaise == {[number |-> 1, uid |-> 1], [number |-> 1, uid |-> 3],
                [number |-> 2, uid |-> 1]}

\* Another node asks node 2 for a promise.
Low == {[number |-> 1, uid |-> 1]}
=============================================================================
