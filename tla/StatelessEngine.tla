--------------------------- MODULE StatelessEngine ---------------------------
(***************************************************************************)
(* What the rest of FundaCAD is entitled to believe about the geometry     *)
(* engine (src/docs/ARCHITECTURE.md, invariant 2): it is a function of the *)
(* document.  A caller asks for one document at a time, and its call ends  *)
(* with the build of exactly that document, or with an error.  Deltas,     *)
(* revisions, resyncs, reconnects and worker restarts are invisible.       *)
(***************************************************************************)

CONSTANTS Documents,  \* the documents that can be asked for
          NoDocument  \* none: not one of them

VARIABLES request,  \* the document being asked for, or NoDocument
          answer    \* what the last call built, or NoDocument

absVars == <<request, answer>>

AbsInit == request = NoDocument /\ answer = NoDocument

(* A caller asks for the build of d. *)
Ask(d) ==
    /\ request = NoDocument
    /\ request' = d
    /\ answer' = NoDocument

(* The engine answers with the build of the document that was asked for. *)
Answer ==
    /\ request # NoDocument
    /\ answer' = request
    /\ request' = NoDocument

(* The request fails: cancelled, crashed, or the link dropped. *)
Refuse ==
    /\ request # NoDocument
    /\ request' = NoDocument
    /\ UNCHANGED answer

AbsNext == (\E d \in Documents : Ask(d)) \/ Answer \/ Refuse

AbsSpec == AbsInit /\ [][AbsNext]_absVars
=============================================================================
