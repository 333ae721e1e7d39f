SPECIFICATION SpecWithRestarts
CONSTANTS
  Node = {1, 2, 3}
  Value = {v1}
  NoValue = NoValue
  QuorumSize = 2
  ActiveAtStart = {TRUE}
  LeaderAtStart = {FALSE}
  Observers = {2}
  ForeignIDs <- LowTieRaise
  PrepareIDs <- Low
  MaxNumber = 2
  MaxRestarts = 1
PROPERTY AnnouncesIfElected
