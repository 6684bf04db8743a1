---------------------------- MODULE MCBodyStream ----------------------------
(***************************************************************************)
(* Model checking BodyStream on a small instance.                          *)
(***************************************************************************)
EXTENDS BodyStream, TLC

CONSTANTS b1, b2, s1, s2

(* One body, another shape of it beside another body, that one alone, none. *)
FewBuilds ==
    {b1 :> s1, (b1 :> s2) @@ (b2 :> s1), b2 :> s1, [b \in {} |-> s1]}
=============================================================================
