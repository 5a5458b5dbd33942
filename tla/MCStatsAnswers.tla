--------------------------- MODULE MCStatsAnswers ---------------------------
(***************************************************************************)
(* Constants for StatsAnswers: positions around the origin and in the next *)
(* parcels to the west, east and south; one scene of two parcels across    *)
(* the origin, two of one parcel, and one without metadata.                *)
(***************************************************************************)
EXTENDS StatsAnswers

Symmetry == Permutations(Peer)

At(x, z) == [x |-> x, z |-> z]
MCPosition == {At(-1, 0), At(0, 0), At(16, 15), At(0, -16)}
MCScene == {"plaza", "east", "south", "broken"}
MCParcelsOf ==
  [s \in MCScene |-> CASE s = "plaza" -> {<<-1, 0>>, <<0, 0>>}
                       [] s = "east" -> {<<1, 0>>}
                       [] s = "south" -> {<<0, -1>>}
                       [] OTHER -> {<<0, 0>>, <<1, 0>>}]

============================================================================
