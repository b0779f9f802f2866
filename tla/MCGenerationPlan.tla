-------------------------- MODULE MCGenerationPlan --------------------------
(***************************************************************************)
(* GenerationPlan on the projects of MCSessionResults.                     *)
(***************************************************************************)
EXTENDS GenerationPlan, MCSessionResults

ClippedOnly == {Clipped}
=============================================================================
