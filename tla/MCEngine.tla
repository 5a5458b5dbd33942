------------------------------ MODULE MCEngine ------------------------------
(***************************************************************************)
(* Constants for the model checking of Engine: peers on a line.  With a    *)
(* join distance of 2 and a leave distance of 3, 0 and 5 are apart, and so *)
(* are 0 and 4, but 2 is within the join distance of both.                 *)
(***************************************************************************)
EXTENDS Engine, TLC

CONSTANTS Slots, LastId, Xs

MCObj == Peer \X Slots
MCIdOf == [o \in MCObj |-> o[1]]
At(x) == [x |-> x, z |-> 0]
MCPos == {At(x) : x \in Xs}
MCIslandId == 1..LastId
NoPreference == {Keep}
EverybodyPrefers == {2}

\* What the objects that something refers to look like; the others are free.
InUse == Obj \ UNION {Unreferenced(p) \ {pendingNew[p]} : p \in Peer}
Attributes == [o \in InUse |-> <<pos[o], home[o], pref[o]>>]
View == <<mapVars, islandVars, Attributes, updates, nextId, flushVars>>

\* The peers that may be refused are alike, and so are the others.
Symmetry ==
  {f @@ g : f \in Permutations(Bannable), g \in Permutations(Peer \ Bannable)}

============================================================================
