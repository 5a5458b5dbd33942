--------------------------- MODULE MCCoreService ---------------------------
(***************************************************************************)
(* The constants of MCEngine for the core service.                         *)
(***************************************************************************)
EXTENDS ServiceImplements, MCEngine

============================================================================
