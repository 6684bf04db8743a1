---------------------- MODULE RebuildPipelineInvariant ----------------------
(***************************************************************************)
(* Why the pipeline is correct as long as no two builds overlap and no     *)
(* request is left to Compute All: the inductive invariant behind          *)
(* RestMeansBuilt and AwaitMeansPublished.  RebuildPipelineProofs proves   *)
(* it inductive.                                                           *)
(***************************************************************************)
EXTENDS RebuildPipeline

(* The flag, and the sign on the screen, are up only while something is    *)
(* built: also when two builds overlap, each of which lowers them.         *)
FlagHasBuild == rebuilding \/ building => Builds # {}

(* The busy state is shown only for a call that will still clear it. *)
BusyHasOwner ==
    busy.active => \E r \in Runs : /\ runs[r].kind # "all"
                                   /\ runs[r].pc \in {"call", "failed", "teardown"}

(* One build at a time; and while the flag is up, a drain that builds is   *)
(* the one that late callers await.  (The flag may be down: the drain      *)
(* before it has lowered it.)                                              *)
OneBuild ==
    /\ \A r, s \in Builds : r = s
    /\ rebuilding => Drains \subseteq {drain}

(* The document as it is now is built, being built, or going to be. *)
BuildIsDue ==
    \/ timer
    \/ ~connected
    \/ Drains # {} /\ queued
    \/ \E r \in Builds : runs[r].age = "now"
    \/ Builds = {} /\ settled = "now"

(* What is awaited has been shown, or the drain that is awaited has it in  *)
(* hand or asked for.                                                      *)
WaiterIsServed ==
    waiter # None =>
        \/ waiter.met
        \/ waiter.on \in Drains /\ (queued \/ runs[waiter.on].covers)

Inv ==
    /\ FlagHasBuild
    /\ BusyHasOwner
    /\ astray \/ (OneBuild /\ BuildIsDue /\ WaiterIsServed)

IInv == TypeOK /\ Inv
=============================================================================
