-------------------------- MODULE RebuildPipeline --------------------------
(***************************************************************************)
(* The rebuild pipeline of the document store (src/src/document/store.ts): *)
(* one build at a time, requests made meanwhile coalesced into one more    *)
(* pass of the running drain, Compute All beside it, the projection        *)
(* refresh that a build can provoke, and the busy state Cancel works from. *)
(*                                                                         *)
(* One action is one turn of the webview's event loop as far as the next   *)
(* await.  A run is an async call in progress: a drain of rebuildNow(), a  *)
(* computeAllNow(), or another heavy operation (import, export) under      *)
(* runBusy().  The engine is the queue of their requests, served in order; *)
(* what goes on below a request is RebuildWire.                            *)
(*                                                                         *)
(* A version of the document is only ever compared with the current one,   *)
(* so it is kept as its age: the document "now", an "old" version of it,   *)
(* or "alien", a version of a document that New or Open has replaced.      *)
(*                                                                         *)
(* Two things the code's own comments rule out do happen: a refresh lands  *)
(* while a drain tears down, whose outer finally then clears the flag of   *)
(* the drain it started, and a request made during Compute All is left to  *)
(* a drain there is none of.  astray says so, for as long as it matters.   *)
(***************************************************************************)
EXTENDS Integers, Sequences, FiniteSets

CONSTANTS Runs,          \* slots for async calls in progress (a bound)
          None,          \* absent
          RefreshLimit,  \* refreshes in a row before the valve shuts: 5
          MaxRefreshes,  \* refreshes waiting at one time (a bound)
          MaxEvents      \* what the user and the network do (a bound)

ASSUME PipelineAssumption ==
    /\ None \notin Runs
    /\ None \notin [on : Runs \cup {None}, met : BOOLEAN]
    /\ RefreshLimit \in Nat \ {0}
    /\ MaxRefreshes \in Nat \ {0}
    /\ MaxEvents \in Nat

VARIABLES
    connected,   \* the socket is open
    runs,        \* the async calls in progress
    engine,      \* the runs whose requests are at the engine, in order
    rebuilding,  \* a rebuild is in flight
    queued,      \* rebuildQueued: another pass was asked for
    drain,       \* rebuildDrain: the run a late caller awaits
    timer,       \* the debounced rebuild is pending
    building,    \* build.building
    settled,     \* the age of the document of the last build to settle
    preview,     \* hasPreview
    refreshes,   \* projection refreshes on paramChain
    streak,      \* projStreak
    busy,        \* the busy state: whether it is shown, and the id it names
    waiter,      \* somebody awaiting rebuildNow(), and what it has been shown
    astray,      \* a build began beside another, or a request was left to
                 \* Compute All, and no build has begun alone since (history)
    events       \* events left to happen

flags   == <<rebuilding, queued, drain>>
screen  == <<building, settled>>
refresh == <<refreshes, streak>>
vars == <<connected, runs, engine, flags, timer, screen, preview, refresh,
          busy, waiter, astray, events>>

Ages  == {"now", "old", "alien"}
Kinds == {"rebuild", "all", "op"}
-----------------------------------------------------------------------------
(* Runs.  covers: the run builds a document no older than the waiter's.    *)

NoRun == [kind |-> None, pc |-> "idle", age |-> "now", covers |-> FALSE,
          resent |-> FALSE]

(* A run whose request is for the document as it is now; it is sent, or    *)
(* refused at once for being too large.                                    *)
Run(kind, sent) ==
    [kind |-> kind, pc |-> IF sent THEN "call" ELSE "failed", age |-> "now",
     covers |-> TRUE, resent |-> FALSE]

Free == {r \in Runs : runs[r] = NoRun}

(* The runs with a build at the engine, and those of them that loop for as *)
(* long as another pass is asked for.                                      *)
Builds == {r \in Runs : runs[r].kind \in {"rebuild", "all"}
                        /\ runs[r].pc \in {"call", "failed"}}
Drains == {r \in Builds : runs[r].kind = "rebuild"}

(* The drains that have built what they had to and are yet to tear down.   *)
(* They do so in microtasks, before any timer, message or user event.      *)
Leaving == {r \in Runs : runs[r].pc \in {"teardown", "leaving"}}

(* Continuations that run before the event loop takes another event: those *)
(* of runs that have an answer, and that of the waiter.                    *)
Microtasks ==
    \/ Leaving # {}
    \/ \E r \in Runs : runs[r].pc = "failed"
    \/ waiter # None /\ waiter.on = None

(* The user, or the network, does something. *)
Event ==
    /\ ~Microtasks
    /\ events > 0
    /\ events' = events - 1

(* Every version grows older when the document changes, and belongs to     *)
(* nothing any more when it is replaced.                                   *)
Aged(age, by) == IF by = "alien" \/ age = "now" THEN by ELSE age
AgedRuns(by) ==
    [r \in Runs |-> IF runs[r] = NoRun THEN NoRun
                    ELSE [runs[r] EXCEPT !.age = Aged(@, by)]]
-----------------------------------------------------------------------------
(* A request for run r.  One made as the socket opens goes ahead of those  *)
(* that were waiting for it.                                               *)
Request(rs, r, kind, sent, opening) ==
    /\ runs' = [rs EXCEPT ![r] = Run(kind, sent)]
    /\ engine' = IF ~sent THEN engine
                 ELSE IF opening THEN <<r>> \o engine
                 ELSE Append(engine, r)

ForgetToAsk == UNCHANGED queued   \* mutant: the other pass is not asked for
AskAgain == queued' = TRUE

(* A build that begins alone is as good as the first, but for somebody who *)
(* has been waiting.                                                       *)
Alone == astray' = (Builds # {} \/ (astray /\ waiter # None))

(* rebuildNow(), with the runs aged to rs.  While a rebuild is in flight   *)
(* it only asks for another pass; show is the indicator then.              *)
RebuildNow(rs, show, opening) ==
    IF rebuilding
      THEN /\ AskAgain
           /\ building' = show
           /\ runs' = rs
           /\ astray' = (astray \/ Drains = {})
           /\ UNCHANGED <<rebuilding, drain, engine, busy>>
      ELSE /\ \E r \in Free, sent \in BOOLEAN :
                 /\ Request(rs, r, "rebuild", sent, opening)
                 /\ drain' = r
           /\ rebuilding' = TRUE
           /\ queued' = FALSE
           /\ busy' = [active |-> TRUE, id |-> None]
           /\ building' = TRUE
           /\ Alone

(* The document changes, and scheduleRebuild(immediate). *)
Change(immediate) ==
    /\ settled' = Aged(settled, "old")
    /\ IF immediate
         THEN timer' = FALSE /\ RebuildNow(AgedRuns("old"), building, FALSE)
         ELSE /\ timer' = TRUE
              /\ runs' = AgedRuns("old")
              /\ UNCHANGED <<flags, engine, busy, building, astray>>
-----------------------------------------------------------------------------
Init ==
    /\ connected = FALSE
    /\ runs = [r \in Runs |-> NoRun]
    /\ engine = <<>>
    /\ rebuilding = FALSE
    /\ queued = FALSE
    /\ drain = None
    /\ timer = FALSE
    /\ building = FALSE
    /\ settled = "old"
    /\ preview = FALSE
    /\ refreshes = 0
    /\ streak = 0
    /\ busy = [active |-> FALSE, id |-> None]
    /\ waiter = None
    /\ astray = FALSE
    /\ events = MaxEvents

(* The document, or what of it is built, changes: an edit, undo and redo   *)
(* (which rearm the valve), the rollback marker, suppression.  The edit    *)
(* that a tool commits ends its preview.                                   *)
Edit ==
    /\ Event
    /\ \E immediate \in BOOLEAN : Change(immediate)
    /\ streak' \in {0, streak}
    /\ preview' \in {FALSE, preview}
    /\ UNCHANGED <<connected, refreshes, waiter>>

(* setPreview(), beginEditPreview(), setEditPreview(), endEditPreview(). *)
Preview ==
    /\ Event
    /\ preview' \in BOOLEAN
    /\ Change(TRUE)
    /\ UNCHANGED <<connected, refresh, waiter>>

(* newDocument() and load(): the model on screen is discarded, what is     *)
(* being built is cancelled, and the new document is built.  A cancel ends *)
(* the job in an error unless its answer has left, as any job may end.     *)
Replace ==
    /\ Event
    /\ settled' = "alien"
    /\ timer' = FALSE
    /\ RebuildNow(AgedRuns("alien"), FALSE, FALSE)
    /\ streak' = 0
    /\ UNCHANGED <<connected, preview, refreshes, waiter>>

(* The debounced rebuild. *)
TimerFires ==
    /\ ~Microtasks
    /\ timer
    /\ timer' = FALSE
    /\ RebuildNow(runs, building, FALSE)
    /\ UNCHANGED <<connected, settled, preview, refresh, waiter, events>>

NothingAwaited == None   \* mutant: a late caller is not held back
Awaited == drain'

(* Somebody calls rebuildNow() to read what it publishes. *)
AwaitRebuild ==
    /\ Event
    /\ waiter = None
    /\ RebuildNow([r \in Runs |->
                     IF runs[r] = NoRun THEN NoRun
                     ELSE [runs[r] EXCEPT !.covers = runs[r].age = "now"]],
                  building, FALSE)
    /\ waiter' = [on |-> Awaited, met |-> settled = "now"]
    /\ UNCHANGED <<connected, timer, settled, preview, refresh>>

(* computeAllNow(): a rebuild in flight is asked for another pass;         *)
(* otherwise a run that is nobody's drain, and is not busy.                *)
ComputeAll ==
    /\ Event
    /\ IF rebuilding
         THEN /\ queued' = TRUE
              /\ UNCHANGED <<rebuilding, runs, engine, building, astray>>
         ELSE /\ \E r \in Free, sent \in BOOLEAN : Request(runs, r, "all", sent, FALSE)
              /\ rebuilding' = TRUE
              /\ building' = TRUE
              /\ Alone
              /\ UNCHANGED queued
    /\ UNCHANGED <<connected, drain, timer, settled, preview, refresh, busy, waiter>>

(* An import or an export, under runBusy(). *)
HeavyOp ==
    /\ Event
    /\ \A r \in Runs : runs[r].kind # "op"
    /\ \E r \in Free, sent \in BOOLEAN :
          /\ Request(runs, r, "op", sent, FALSE)
          /\ busy' = [active |-> TRUE, id |-> IF sent THEN r ELSE None]
    /\ UNCHANGED <<connected, flags, timer, screen, preview, refresh, waiter, astray>>

(* The socket closes, or cannot be opened: every request fails. *)
Drop ==
    /\ Event
    /\ connected' = FALSE
    /\ engine' = <<>>
    /\ runs' = [r \in Runs |-> IF runs[r].pc = "call"
                               THEN [runs[r] EXCEPT !.pc = "failed"]
                               ELSE runs[r]]
    /\ UNCHANGED <<flags, timer, screen, preview, refresh, busy, waiter, astray>>

(* It opens, and the status listener rebuilds. *)
Connect ==
    /\ ~Microtasks
    /\ ~connected
    /\ connected' = TRUE
    /\ RebuildNow(runs, building, TRUE)
    /\ UNCHANGED <<timer, settled, preview, refresh, waiter, events>>
-----------------------------------------------------------------------------
(* Answers.                                                                *)

ShutOneLate(s) == s > RefreshLimit   \* mutant
Shut(s) == s >= RefreshLimit

(* maybeQueueProjectionRefresh() on an answer with or without updates, s   *)
(* refreshes having been applied in a row.                                 *)
Valve(updates, s) ==
    \/ preview /\ streak' = s /\ UNCHANGED refreshes
    \/ ~preview /\ ~updates /\ streak' = 0 /\ UNCHANGED refreshes
    \/ /\ ~preview /\ updates
       /\ streak' = s
       /\ IF Shut(s)
            THEN UNCHANGED refreshes
            ELSE refreshes < MaxRefreshes /\ refreshes' = refreshes + 1

(* settledBuild(), of a build that failed too. *)
Publish(r) ==
    /\ settled' = runs[r].age
    /\ waiter' = IF waiter = None THEN None
                 ELSE [waiter EXCEPT !.met = @ \/ runs[r].covers]

(* A drain's pass ends: with another if one was asked for, or else with    *)
(* the flag released.                                                      *)
EndPass(r, left) ==
    IF queued
      THEN /\ queued' = FALSE
           /\ building' = TRUE
           /\ \E sent \in BOOLEAN :
                 /\ runs' = [runs EXCEPT ![r] = Run("rebuild", sent)]
                 /\ engine' = IF sent THEN Append(left, r) ELSE left
           /\ UNCHANGED rebuilding
      ELSE /\ runs' = [runs EXCEPT ![r].pc = "teardown"]
           /\ building' = FALSE
           /\ rebuilding' = FALSE
           /\ engine' = left
           /\ UNCHANGED queued

(* What run r does with its answer, the engine being left with the rest.   *)
(* (What an import then adds to the document is an Edit.)                  *)
Continue(r, ok, updates, left) ==
    \/ /\ runs[r].kind = "rebuild"
       /\ Publish(r)
       /\ IF ok THEN Valve(updates, streak) ELSE UNCHANGED refresh
       /\ EndPass(r, left)
       /\ UNCHANGED <<drain, timer, busy>>
    \/ /\ runs[r].kind = "all"
       /\ Publish(r)
       /\ IF ok THEN Valve(updates, 0) ELSE UNCHANGED refresh
       /\ runs' = [runs EXCEPT ![r] = NoRun]
       /\ rebuilding' = FALSE
       /\ building' = FALSE
       /\ engine' = left
       /\ UNCHANGED <<queued, drain, timer, busy>>
    \/ /\ runs[r].kind = "op"
       /\ runs' = [runs EXCEPT ![r] = NoRun]
       /\ busy' = [active |-> FALSE, id |-> None]
       /\ engine' = left
       /\ UNCHANGED <<flags, timer, screen, refresh, waiter>>

(* The engine answers the request it is serving. *)
Answer ==
    /\ ~Microtasks
    /\ connected
    /\ engine # <<>>
    /\ \E ok, updates \in BOOLEAN :
          Continue(Head(engine), ok, updates, Tail(engine))
    /\ UNCHANGED <<connected, preview, astray, events>>

(* ... or sends for the whole document, once: the request goes to the end  *)
(* of the queue.                                                           *)
Resync ==
    /\ ~Microtasks
    /\ connected
    /\ engine # <<>>
    /\ LET r == Head(engine)
       IN  /\ runs[r].kind = "rebuild"
           /\ ~runs[r].resent
           /\ runs' = [runs EXCEPT ![r].resent = TRUE]
           /\ engine' = Append(Tail(engine), r)
    /\ UNCHANGED <<connected, flags, timer, screen, preview, refresh, busy,
                   waiter, astray, events>>

(* A request that was refused, or failed with its connection. *)
Failed ==
    /\ \E r \in Runs : runs[r].pc = "failed" /\ Continue(r, FALSE, FALSE, engine)
    /\ UNCHANGED <<connected, preview, astray, events>>

(* runBusy()'s finally. *)
Teardown ==
    /\ \E r \in Runs :
          /\ runs[r].pc = "teardown"
          /\ runs' = [runs EXCEPT ![r].pc = "leaving"]
    /\ busy' = [active |-> FALSE, id |-> None]
    /\ UNCHANGED <<connected, engine, flags, timer, screen, preview, refresh,
                   waiter, astray, events>>

(* rebuildNow()'s finally, and the callers that awaited this drain. *)
Leave ==
    /\ \E r \in Runs :
          /\ runs[r].pc = "leaving"
          /\ runs' = [runs EXCEPT ![r] = NoRun]
          /\ waiter' = IF waiter # None /\ waiter.on = r THEN None ELSE waiter
    /\ rebuilding' = FALSE
    /\ drain' = None
    /\ UNCHANGED <<connected, engine, queued, timer, screen, preview, refresh,
                   busy, astray, events>>

(* A caller with no drain to await goes on at once. *)
NothingToAwait ==
    /\ waiter # None /\ waiter.on = None
    /\ waiter' = None
    /\ UNCHANGED <<connected, runs, engine, flags, timer, screen, preview,
                   refresh, busy, astray, events>>

(* commitProjectionRefresh(): the sketches that have changed since, or are *)
(* open, are left alone; the rest are replaced and built.  With nothing to *)
(* solve it lands as the drain that found it out leaves runBusy(), two     *)
(* microtasks before that drain's own finally.                             *)
NotCounted == UNCHANGED streak   \* mutant: the valve never shuts
CountRefresh == streak' = streak + 1

Refresh ==
    /\ ~Microtasks \/ \E r \in Runs : runs[r].pc = "leaving"
    /\ refreshes > 0
    /\ refreshes' = refreshes - 1
    /\ \/ UNCHANGED <<runs, engine, flags, timer, screen, streak, busy, astray>>
       \/ CountRefresh /\ Change(TRUE)
    /\ UNCHANGED <<connected, preview, waiter, events>>
-----------------------------------------------------------------------------
Next ==
    \/ Edit
    \/ Preview
    \/ Replace
    \/ TimerFires
    \/ AwaitRebuild
    \/ ComputeAll
    \/ HeavyOp
    \/ Drop
    \/ Connect
    \/ Answer
    \/ Resync
    \/ Failed
    \/ Teardown
    \/ Leave
    \/ NothingToAwait
    \/ Refresh

Spec == Init /\ [][Next]_vars

(* The event loop runs what is due, the engine answers (CallSettles in     *)
(* RebuildWire), and the socket is redialled.                              *)
Fairness ==
    /\ WF_vars(TimerFires)
    /\ WF_vars(Connect)
    /\ WF_vars(Answer)
    /\ WF_vars(Failed)
    /\ WF_vars(Teardown)
    /\ WF_vars(Leave)
    /\ WF_vars(NothingToAwait)
    /\ WF_vars(Refresh)

FairSpec == Spec /\ Fairness
-----------------------------------------------------------------------------
(* Properties.                                                             *)

RunRecords ==
    [kind : Kinds, pc : {"call", "failed", "teardown", "leaving"},
     age : Ages, covers : BOOLEAN, resent : BOOLEAN]

TypeOK ==
    /\ connected \in BOOLEAN
    /\ runs \in [Runs -> RunRecords \cup {NoRun}]
    /\ engine \in Seq(Runs)
    /\ {engine[i] : i \in DOMAIN engine} = {r \in Runs : runs[r].pc = "call"}
    /\ \A i, j \in DOMAIN engine : engine[i] = engine[j] => i = j
    /\ rebuilding \in BOOLEAN /\ queued \in BOOLEAN
    /\ drain \in Runs \cup {None}
    /\ timer \in BOOLEAN /\ building \in BOOLEAN /\ preview \in BOOLEAN
    /\ settled \in Ages
    /\ refreshes \in 0 .. MaxRefreshes
    /\ streak \in Nat /\ streak + refreshes < RefreshLimit + MaxRefreshes
    /\ busy \in [active : BOOLEAN, id : Runs \cup {None}]
    /\ waiter \in [on : Runs \cup {None}, met : BOOLEAN] \cup {None}
    /\ astray \in BOOLEAN
    /\ events \in 0 .. MaxEvents

(* Rebuilds are serialized: never are two builds in flight.  The code does *)
(* not keep this.                                                          *)
Serialized == Cardinality(Builds) <= 1

(* Nothing is under way and nothing is due. *)
AtRest ==
    /\ connected
    /\ \A r \in Runs : runs[r] = NoRun
    /\ ~timer
    /\ refreshes = 0

(* No edit is lost: once the pipeline has come to rest nothing is shown as *)
(* still being built or cancellable, and the last build to settle was of   *)
(* the document as it now is, unless builds overlapped or the edit fell    *)
(* into Compute All.                                                       *)
RestMeansBuilt ==
    AtRest => /\ ~building /\ ~rebuilding /\ ~busy.active
              /\ settled = "now" \/ astray

(* Whoever awaits rebuildNow() goes on only after a build of the document  *)
(* as it was when they asked, or of a later one, has settled, with the     *)
(* same exception.                                                         *)
AwaitMeansPublished ==
    [][waiter # None /\ waiter' = None => waiter.met \/ astray]_waiter

(* An import or export that the engine is serving can be stopped: Cancel   *)
(* is offered, and names it.                                               *)
CancelNamesTheOp ==
    engine # <<>> /\ runs[Head(engine)].kind = "op"
        => busy.active /\ busy.id = Head(engine)

(* After the user and the network have done what they do, the pipeline     *)
(* comes to rest, even if every build finds a projection to refresh.       *)
ComesToRest == <>[]AtRest
=============================================================================
