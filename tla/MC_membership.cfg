SPECIFICATION Spec
CONSTANTS
  Node = {1, 2, 3}
  Addr = {1, 2, 3, 4}
  Socket = {1, 2, 3, 4}
  FirstHome <- OwnHome
  StableAddr <- FirstStable
  MaxFaults = 1
  MaxRestarts = 1
INVARIANTS TypeOK MapsMatchSockets StablePeerIsNamed
PROPERTIES ImplementsRoster EventuallyComplete
