SPECIFICATION Spec
CONSTANTS
  Node = {1, 2, 3}
  Value = {v1, v2}
  NoValue = NoValue
  ActiveAtStart = {FALSE}
  QuorumSize = 2
  Garbage <- AnyInt
  Learners = {1}
  Approved <- ThreeIDs
  Revotes = TRUE
  InOrder = TRUE
INVARIANT LearnedHasQuorum
