--------------------------- MODULE MCEditHistory ---------------------------
(***************************************************************************)
(* Model checking EditHistory on a small instance.                         *)
(***************************************************************************)
EXTENDS EditHistory, TLC
=============================================================================
