SPECIFICATION Spec
CONSTANTS
  Peer = {a, b}
  Slots = {1, 2, 3}
  LastId = 5
  Xs = {0, 5}
  Obj <- MCObj
  IdOf <- MCIdOf
  NoObj = NoObj
  Pos <- MCPos
  JoinDistance = 2
  LeaveDistance = 3
  MaxIslandSize = 2
  IslandId <- MCIslandId
  Preference <- EverybodyPrefers
  Keep = Keep
  Bannable = {a, b}
  TransportFails = {"createNew", "createSplit", "mergeInto"}
  Interleaved = TRUE
SYMMETRY Symmetry
VIEW View
CHECK_DEADLOCK FALSE
INVARIANTS Capacity ListsAgreeWithHomes
PROPERTIES FlushAdvances MovesAreNoticed ImplementsAssignment
