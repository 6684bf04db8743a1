---------------------------- MODULE MCLiveSession ----------------------------
(***************************************************************************)
(* Model checking LiveSession on a small instance.                         *)
(***************************************************************************)
EXTENDS LiveSession, TLC
=============================================================================
