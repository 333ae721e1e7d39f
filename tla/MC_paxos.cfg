SPECIFICATION Spec
CONSTANTS
  Node = {1, 2, 3}
  Value = {v1, v2}
  NoValue = NoValue
  QuorumSize = 2
  ActiveAtStart = {TRUE}
  LeaderAtStart = {FALSE}
  Proposers = {1, 2}
  MaxNumber <- OneRoundEach
  Careful = TRUE
SYMMETRY ValueSymmetry
INVARIANT TypeOK
PROPERTY ImplementsConsensus
