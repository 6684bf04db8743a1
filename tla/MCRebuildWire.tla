---------------------------- MODULE MCRebuildWire ----------------------------
(***************************************************************************)
(* Model checking RebuildWire on a small instance.                         *)
(***************************************************************************)
EXTENDS RebuildWireInvariant, TLC

CONSTANTS f1, f2, x, y

(* Two feature objects that keep their contents ... *)
SmallObjects == {[ref |-> f1, val |-> x], [ref |-> f2, val |-> y]}

(* ... or one with any contents, for edits in place. *)
OneObject == [ref : {f1}, val : {x, y}]

(* Parameter tables and request ids are interchangeable (for safety only). *)
Symmetric == Permutations(Params) \cup Permutations(Ids)
=============================================================================
