------------------------- MODULE MCEngineImplements -------------------------
(***************************************************************************)
(* The constants of MCEngine for the refinement.                           *)
(***************************************************************************)
EXTENDS EngineImplements, MCEngine

============================================================================
