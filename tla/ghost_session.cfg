SPECIFICATION Spec
CONSTANTS
  Ws = {u, v}
  Address = {a}
  None = None
  Task = {t1}
  Patient = {}
  Denied = {}
  Bannable = {a}
  FetchFails = TRUE
  BanCheckFails = FALSE
SYMMETRY Symmetry
CHECK_DEADLOCK FALSE
INVARIANT RegistryIsLive
