-------------------------- MODULE MCPoolSupervisor --------------------------
(***************************************************************************)
(* Model checking PoolSupervisor on a small instance.                      *)
(***************************************************************************)
EXTENDS PoolSupervisor, TLC
=============================================================================
