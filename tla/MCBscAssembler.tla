-------------------------- MODULE MCBscAssembler --------------------------
(* Two relayer processes taking turns on Greenfield. *)
EXTENDS BscAssemblerRefinement

CONSTANTS r1, r2

MCRelayers == {r1, r2}
MCTurns == <<r1, r2>>
=============================================================================
