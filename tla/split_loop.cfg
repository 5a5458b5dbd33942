SPECIFICATION Spec
CONSTANTS
  Peer = {a, b, c, d, e}
  Xs = {0, 2, 4}
  Zs = {0, 2}
  Pos <- MCPos
  LeaveDistance = 2
SYMMETRY Symmetry
CHECK_DEADLOCK FALSE
INVARIANT GroupsAreComponents
