SPECIFICATION AnswersSpec
CONSTANTS
  Peer = {a, b, c, d}
  NoPosition = NoPosition
  Position <- MCPosition
  Scene <- MCScene
  ParcelsOf <- MCParcelsOf
  Incomplete = {"broken"}
  HotScenesLimit = 2
SYMMETRY Symmetry
INVARIANTS ParcelsCountEverybody HotScenesCount HotScenesAreHottest
