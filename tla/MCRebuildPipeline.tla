-------------------------- MODULE MCRebuildPipeline --------------------------
(***************************************************************************)
(* Model checking RebuildPipeline on a small instance.                     *)
(***************************************************************************)
EXTENDS RebuildPipelineInvariant, TLC

(* Slots for calls are interchangeable (for safety only). *)
Symmetric == Permutations(Runs)
=============================================================================
