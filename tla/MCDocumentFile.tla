---------------------------- MODULE MCDocumentFile ----------------------------
(***************************************************************************)
(* Model checking DocumentFile on a small instance.                        *)
(***************************************************************************)
EXTENDS DocumentFile, TLC

(* Files are interchangeable, and so are calls. *)
Symmetric == Permutations(Paths) \cup Permutations(Ops)
=============================================================================
