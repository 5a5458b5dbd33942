SPECIFICATION FairSpec
CONSTANTS
  Ws = {u, v}
  Address = {a, b, c}
  None = None
  Task = {t1, t2}
  Patient = {u}
  Denied = {c}
  Bannable = {a}
  FetchFails = FALSE
  BanCheckFails = FALSE
CHECK_DEADLOCK FALSE
INVARIANTS TypeOK LiveSessionsRegistered ActiveHasSession PatientIsLive DeniedStaysOut
PROPERTIES TimerSparesSessions ImplementsSessions HandshakeEnds BannedSessionsEnd
