---------------------------- MODULE MCMembership ----------------------------
EXTENDS Membership

\* As in reset.sh: node i listens at address i, the first two nodes are each
\* other's stable peer, and the first is that of everybody else.
OwnHome == [n \in Node |-> n]
FirstStable == [n \in Node |-> IF n = 1 THEN 2 ELSE 1]
=============================================================================
