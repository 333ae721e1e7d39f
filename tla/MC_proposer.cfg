SPECIFICATION Spec
CONSTANTS
  Node = {1, 2, 3, 4}
  Value = {v1, v2}
  NoValue = NoValue
  ActiveAtStart = {FALSE}
  LeaderAtStart = {TRUE}
  QuorumSize = 2
  Proposers = {2}
  PeersAtStart = {3}
  MaxNumber = 2
  Careful = TRUE
SYMMETRY ValueSymmetry
INVARIANTS TypeOK AcceptHasQuorum OneValuePerID ValueFollowsHighestReport
