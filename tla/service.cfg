SPECIFICATION FairServiceSpec
CONSTANTS
  Peer = {a, b}
  Slots = {1}
  LastId = 3
  Xs = {0, 5}
  Obj <- MCObj
  IdOf <- MCIdOf
  NoObj = NoObj
  Pos <- MCPos
  JoinDistance = 2
  LeaveDistance = 3
  MaxIslandSize = 2
  IslandId <- MCIslandId
  Preference <- NoPreference
  Keep = Keep
  Bannable = {a}
  TransportFails = {"mergeInto"}
  Interleaved = TRUE
  PublishFails = TRUE
CHECK_DEADLOCK FALSE
INVARIANTS ServiceTypeOK KnownCanExpire ToldTheirIsland ReceiverIsListed
PROPERTIES NoHeartbeatDropped SilentPeersExpire ImplementsFeed
