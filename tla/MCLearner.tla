----------------------------- MODULE MCLearner ------------------------------
EXTENDS LearnerEnv

\* Two rounds of number 1 and one of number 2.
ThreeIDs == {[number |-> 1, uid |-> 1], [number |-> 1, uid |-> 2],
             [number |-> 2, uid |-> 1]}

\* What an uninitialised int may read as.
AnyInt == {-1, 0, 1, 2}
=============================================================================
