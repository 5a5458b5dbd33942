SPECIFICATION Spec
CONSTANTS
  Peer = {a, b, c, d}
  Slots = {1}
  LastId = 4
  Xs = {0, 2, 4}
  Obj <- MCObj
  IdOf <- MCIdOf
  NoObj = NoObj
  Pos <- MCPos
  JoinDistance = 2
  LeaveDistance = 3
  MaxIslandSize = 2
  IslandId <- MCIslandId
  Preference <- NoPreference
  Keep = Keep
  Bannable = {}
  TransportFails = {}
  Interleaved = FALSE
SYMMETRY Symmetry
VIEW View
CHECK_DEADLOCK FALSE
INVARIANT CleanIslandsTogether
