----------------------------- MODULE MCAcceptor -----------------------------
EXTENDS AcceptorEnv

\* Two rounds of number 1, told apart by their UIDs, and one of number 2.
ThreeIDs == {[number |-> 1, uid |-> 1], [number |-> 1, uid |-> 2],
             [number |-> 2, uid |-> 1]}
=============================================================================
