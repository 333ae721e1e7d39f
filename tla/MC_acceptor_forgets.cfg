SPECIFICATION SpecWithRestarts
CONSTANTS
  Node = {1, 2, 3}
  Value = {v1, v2}
  NoValue = NoValue
  QuorumSize = 1
  ActiveAtStart = {FALSE}
  Acceptors = {3}
  RequestIDs <- ThreeIDs
  MaxMessages = 3
  Once = TRUE
PROPERTY NoVoteBelowBound
