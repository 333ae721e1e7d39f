SPECIFICATION Spec
CONSTANTS
  Node = {1, 2, 3}
  Value = {v1, v2}
  NoValue = NoValue
  ActiveAtStart = {FALSE}
  LeaderAtStart = {FALSE}
  QuorumSize = 2
  Proposers = {2}
  PeersAtStart = {1, 2, 3}
  MaxNumber = 2
  Careful = FALSE
INVARIANT AcceptHasQuorum
