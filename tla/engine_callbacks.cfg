SPECIFICATION Spec
CONSTANTS
  Peer = {a, b, c}
  Slots = {1}
  LastId = 4
  Xs = {0, 5}
  Obj <- MCObj
  IdOf <- MCIdOf
  NoObj = NoObj
  Pos <- MCPos
  JoinDistance = 2
  LeaveDistance = 3
  MaxIslandSize = 2
  IslandId <- MCIslandId
  Preference <- NoPreference
  Keep = Keep
  Bannable = {a, b, c}
  TransportFails = {"createNew"}
  Interleaved = TRUE
SYMMETRY Symmetry
VIEW View
CHECK_DEADLOCK FALSE
INVARIANTS TypeOK MembersAreKnown EveryPeerPlaced Capacity NoEmptyIsland
PROPERTY MovesAreNoticed
