--------------------------- MODULE MCWsConnector ---------------------------
(***************************************************************************)
(* Constants for the model checking of WsConnector.                        *)
(***************************************************************************)
EXTENDS WsImplements, TLC

Symmetry ==
  UNION {Permutations(S) : S \in {Patient, Ws \ Patient, Address, Task}}

============================================================================
