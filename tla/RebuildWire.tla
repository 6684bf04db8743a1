---------------------------- MODULE RebuildWire ----------------------------
(***************************************************************************)
(* The delta wire protocol between the frontend's Geometry client          *)
(* (src/src/geometry/client.ts) and the document the sidecar's worker      *)
(* holds (_DOC_STATE in src/sidecar/server.py).                            *)
(*                                                                         *)
(* The client remembers the last document it knows the worker adopted      *)
(* (lastSent) and its revision.  A rebuild sends only the features whose   *)
(* OBJECT changed since, with the revision they apply to; the worker       *)
(* patches its held document, or asks for a resync.  The socket can drop   *)
(* at any time, the worker can be killed at any time, and a job whose      *)
(* client has gone still runs to its end in the worker pool.               *)
(*                                                                         *)
(* A feature is an object: a reference, which is what the client compares, *)
(* and a value, which is what travels.  The document sent is any document  *)
(* (edits, undo, load, rollback and previews can change all of it between  *)
(* two rebuilds).                                                          *)
(*                                                                         *)
(* Admits names the environment behaviours that the code does not exclude  *)
(* and that break the protocol; the empty set is the protocol as meant:    *)
(*   "connectFails"    a connection attempt fails with requests waiting    *)
(*   "clearVisibility" the document's visibility map goes from set to none *)
(*   "inPlaceEdits"    a feature object is changed without being replaced  *)
(*   "secondClient"    another client rebuilds through the same worker     *)
(***************************************************************************)
EXTENDS Integers, Sequences, FiniteSets

CONSTANTS Refs,         \* identities of feature objects
          Vals,         \* contents of features
          Objects,      \* feature objects: their reference and contents
          Params,       \* parameter tables
          Vis,          \* body visibility maps
          Ids,          \* request ids in use at one time (a bound)
          None,         \* absent
          MaxFeatures,  \* longest timeline (a bound)
          MaxRevision,  \* highest revision (a bound)
          DeltaFloor,   \* changes always small enough for a delta: 8
          Admits        \* environment behaviours admitted, see above

Behaviours == {"connectFails", "clearVisibility", "inPlaceEdits",
               "secondClient"}

ASSUME BoundsAssumption ==
    /\ MaxFeatures \in Nat
    /\ MaxRevision \in Nat \ {0}
    /\ DeltaFloor \in Nat
    /\ Objects \subseteq [ref : Refs, val : Vals]
    /\ Admits \subseteq Behaviours

ASSUME NoneAssumption ==
    None \notin Vals \cup Params \cup Vis \cup Ids

VARIABLES
    conn,      \* the socket: "up" or "down"
    outbox,    \* requests made while the socket was down
    call,      \* the client call in progress, and where rebuild() awaits
    lastSent,  \* the document the client believes the worker holds
    revision,  \* the client's revision of it
    queue,     \* requests at the engine, in the order the worker runs them
    replies,   \* replies on their way to the client
    docState,  \* the worker's _DOC_STATE
    answer     \* the document the last call's answer was built from, if good

client == <<outbox, call, lastSent, revision, answer>>
engine == <<queue, replies, docState>>
vars   == <<conn, outbox, call, lastSent, revision, queue, replies, docState,
            answer>>
-----------------------------------------------------------------------------
(* Documents and what travels of them.                                     *)

Revisions == 0 .. MaxRevision
Timelines(S) == UNION {[1 .. n -> S] : n \in 0 .. MaxFeatures}

(* The documents of the client, made of objects, none in two places ... *)
Documents ==
    [feats : {t \in Timelines(Objects) :
                \A i, j \in DOMAIN t : t[i].ref = t[j].ref => i = j},
     params : Params, vis : Vis \cup {None}]
(* ... and what they are on the wire and in the worker, made of values. *)
WireDocs == [feats : Timelines(Vals), params : Params, vis : Vis \cup {None}]

Wire(d) == [feats  |-> [i \in DOMAIN d.feats |-> d.feats[i].val],
            params |-> d.params,
            vis    |-> d.vis]

(* Two documents of one heap: a reference names one object, so equal       *)
(* references have equal contents.                                         *)
Coherent(d, e) ==
    \A i \in DOMAIN d.feats, j \in DOMAIN e.feats :
        d.feats[i].ref = e.feats[j].ref => d.feats[i].val = e.feats[j].val

(* Positions whose object differs from the one last sent there. *)
ChangedAt(last, d) ==
    {i \in DOMAIN d.feats :
        i \in DOMAIN last.feats => last.feats[i].ref # d.feats[i].ref}

DeltaFits(last, d) ==
    LET n    == Cardinality(ChangedAt(last, d))
        half == Len(d.feats) \div 2
    IN  n <= DeltaFloor \/ n <= half

(* mutant: a delta that forgets the parameters *)
OpsWithoutParams(last, d) ==
    [len    |-> Len(d.feats),
     set    |-> [i \in ChangedAt(last, d) |-> d.feats[i].val],
     params |-> None,
     vis    |-> IF d.vis = last.vis THEN None ELSE d.vis]

(* A delta: the length, the changed features, and the parameters and the   *)
(* visibility map when they differ.  A visibility map of None is dropped   *)
(* by the JSON encoding of the request, so it looks like "not changed".    *)
Ops(last, d) ==
    [len    |-> Len(d.feats),
     set    |-> [i \in ChangedAt(last, d) |-> d.feats[i].val],
     params |-> IF d.params = last.params THEN None ELSE d.params,
     vis    |-> IF d.vis = last.vis THEN None ELSE d.vis]

OpsSet == [len : 0 .. MaxFeatures,
           set : UNION {[S -> Vals] : S \in SUBSET (1 .. MaxFeatures)},
           params : Params \cup {None}, vis : Vis \cup {None}]

ASSUME NoDocumentAssumption ==
    /\ None \notin Documents
    /\ None \notin WireDocs
    /\ None \notin OpsSet

(* What the worker makes of a held document and a delta: cut or lengthened *)
(* with placeholders to the new length, then the changed features set.     *)
Patched(held, ops) ==
    [feats  |-> [i \in 1 .. ops.len |->
                   IF i \in DOMAIN ops.set THEN ops.set[i]
                   ELSE IF i \in DOMAIN held.feats THEN held.feats[i]
                   ELSE None],
     params |-> IF ops.params = None THEN held.params ELSE ops.params,
     vis    |-> IF ops.vis = None THEN held.vis ELSE ops.vis]

(* A placeholder that no changed feature covers. *)
Hole(doc) == \E i \in DOMAIN doc.feats : doc.feats[i] = None

NoState == [rev |-> 0, doc |-> None]

Messages ==
    {m \in [id : Ids, delta : BOOLEAN, base : Revisions, rev : Revisions,
            doc : WireDocs, ops : OpsSet \cup {None}, alive : BOOLEAN] :
        m.delta => m.ops # None}

(* A delta against a document the worker does not hold. *)
AnyRevision(held, m) == held.doc = None   \* mutant: the base is not compared
NotHeld(held, m) == held.doc = None \/ held.rev # m.base

(* _apply_doc_ops: the held document after the request m, and whether the  *)
(* worker asks for the whole document instead of building.                 *)
Adopted(held, m) ==
    IF ~m.delta
      THEN [rev |-> m.rev, doc |-> m.doc]
    ELSE IF NotHeld(held, m)
      THEN held
    ELSE IF Hole(Patched(held.doc, m.ops))
      THEN [held EXCEPT !.doc = None]
    ELSE [rev |-> m.rev, doc |-> Patched(held.doc, m.ops)]

AsksResync(held, m) ==
    m.delta /\ (NotHeld(held, m) \/ Hole(Patched(held.doc, m.ops)))
-----------------------------------------------------------------------------
(* The client's requests.  In a delta, doc is not sent: it is kept here as *)
(* the document the delta is meant to produce.                             *)

Full(id, d, rev) ==
    [id |-> id, delta |-> FALSE, base |-> 0, rev |-> rev, doc |-> Wire(d),
     ops |-> None, alive |-> TRUE]

Delta(id, d) ==
    [id |-> id, delta |-> TRUE, base |-> revision, rev |-> revision + 1,
     doc |-> Wire(d), ops |-> Ops(lastSent, d), alive |-> TRUE]

FirstRequest(id, d) ==
    IF lastSent # None /\ DeltaFits(lastSent, d)
      THEN Delta(id, d)
      ELSE Full(id, d, revision + 1)

(* No call in progress; and one, with the document it is for. *)
Idle == [phase |-> "idle", id |-> None, doc |-> None, rev |-> 0,
         want |-> None]

Calling(phase, id, d, rev) ==
    [phase |-> phase, id |-> id, doc |-> d, rev |-> rev, want |-> Wire(d)]

SeqRange(s) == {s[i] : i \in DOMAIN s}

(* A request id that nothing in flight carries (a fresh UUID). *)
Fresh(id) ==
    /\ \A m \in SeqRange(queue) \cup SeqRange(outbox) : m.id # id
    /\ \A r \in SeqRange(replies) : r.id # id

(* The documents the store may ask for next. *)
Askable(d) ==
    lastSent # None =>
        /\ Coherent(d, lastSent)
        /\ lastSent.vis # None /\ d.vis = None => "clearVisibility" \in Admits

Send(m) ==
    IF conn = "up"
      THEN queue' = Append(queue, m) /\ UNCHANGED outbox
      ELSE outbox' = Append(outbox, m) /\ UNCHANGED queue
-----------------------------------------------------------------------------
Init ==
    /\ conn = "down"
    /\ outbox = <<>>
    /\ call = Idle
    /\ lastSent = None
    /\ revision = 0
    /\ queue = <<>>
    /\ replies = <<>>
    /\ docState = NoState
    /\ answer = None

(* rebuild(d), as far as its first await. *)
StartRebuild(id, d) ==
    /\ call = Idle
    /\ revision < MaxRevision
    /\ Fresh(id)
    /\ Askable(d)
    /\ call' = Calling("first", id, d, revision + 1)
    /\ Send(FirstRequest(id, d))
    /\ answer' = None
    /\ UNCHANGED <<conn, lastSent, revision, replies, docState>>

(* computeAll(d): the revision and lastSent go before the request does,    *)
(* and a request too large to send is refused after they have.             *)
ComputeAll(id, d) ==
    /\ call = Idle
    /\ revision < MaxRevision
    /\ Fresh(id)
    /\ Askable(d)
    /\ lastSent' = None
    /\ revision' = revision + 1
    /\ \/ /\ call' = Calling("all", id, d, revision + 1)
          /\ Send(Full(id, d, revision + 1))
          /\ answer' = None
       \/ UNCHANGED <<call, queue, outbox, answer>>
    /\ UNCHANGED <<conn, replies, docState>>

(* onopen.  The status listeners run first, so an idle store's rebuild is  *)
(* sent before the requests that were waiting in the outbox; with a call   *)
(* in progress the store only notes that another pass is wanted.           *)
Connect(id, d) ==
    /\ conn = "down"
    /\ conn' = "up"
    /\ outbox' = <<>>
    /\ \/ /\ call # Idle
          /\ queue' = queue \o outbox
          /\ UNCHANGED <<call, answer>>
       \/ /\ call = Idle
          /\ revision < MaxRevision
          /\ Fresh(id)
          /\ Askable(d)
          /\ call' = Calling("first", id, d, revision + 1)
          /\ queue' = Append(queue, FirstRequest(id, d)) \o outbox
          /\ answer' = None
    /\ UNCHANGED <<lastSent, revision, replies, docState>>

(* onclose: what a call in flight becomes once its socket has closed.      *)
LeftPending == call   \* mutant: nothing settles it
AfterClose == Idle

(* onclose of an attempt that never opened: the call is settled with an    *)
(* error, its request stays in the outbox.                                 *)
ConnectFail ==
    /\ "connectFails" \in Admits
    /\ conn = "down"
    /\ call # Idle
    /\ call' = AfterClose
    /\ UNCHANGED <<conn, outbox, lastSent, revision, engine, answer>>

(* The first k requests have been handed to the worker pool: all those of  *)
(* closed connections and at most one of the open one, the job lock's      *)
(* holder.                                                                 *)
InPool(k) ==
    /\ \A i \in DOMAIN queue : ~queue[i].alive => i <= k
    /\ \A i \in 1 .. k - 1 : ~queue[i].alive

(* onclose, and handle()'s finally on the other side: every call in flight *)
(* is settled with an error; requests waiting for the job lock are         *)
(* cancelled, but a job already in the pool still runs.                    *)
Drop ==
    /\ conn = "up"
    /\ conn' = "down"
    /\ call' = AfterClose
    /\ replies' = <<>>
    /\ \E k \in 0 .. Len(queue) :
          /\ InPool(k)
          /\ queue' = [i \in 1 .. k |-> [queue[i] EXCEPT !.alive = FALSE]]
    /\ UNCHANGED <<outbox, lastSent, revision, docState, answer>>

(* The sidecar process dies.  The shell reports it and starts no other, but *)
(* a socket that is redialled may find one all the same.                   *)
EngineDies ==
    /\ conn' = "down"
    /\ call' = IF conn = "up" THEN AfterClose ELSE call
    /\ replies' = <<>>
    /\ queue' = <<>>
    /\ docState' = NoState
    /\ UNCHANGED <<outbox, lastSent, revision, answer>>
-----------------------------------------------------------------------------
(* The worker.                                                             *)

Reply(m, kind) == [id |-> m.id, kind |-> kind, built |-> docState'.doc]

Reported(m, kind) ==
    replies' = IF m.alive THEN Append(replies, Reply(m, kind)) ELSE replies

(* A job runs to its end: adopt or patch the document, then build it.  A   *)
(* build in which nothing survives is an error, and leaves the document    *)
(* adopted.                                                                *)
Process ==
    /\ queue # <<>>
    /\ LET m == Head(queue)
       IN  /\ docState' = Adopted(docState, m)
           /\ queue' = Tail(queue)
           /\ IF AsksResync(docState, m)
                THEN Reported(m, "resync")
                ELSE \E kind \in {"ok", "error"} : Reported(m, kind)
    /\ UNCHANGED <<conn, client>>

(* The worker is killed (a crash, a cancel, a stall): every job in the     *)
(* pool dies with it and a fresh worker holds no document.                 *)
WorkerLost ==
    /\ \E k \in 0 .. Len(queue) :
          /\ InPool(k)
          /\ queue' = SubSeq(queue, k + 1, Len(queue))
          /\ docState' = NoState
          /\ replies' = IF k > 0 /\ queue[k].alive
                          THEN Append(replies, Reply(queue[k], "error"))
                          ELSE replies
    /\ UNCHANGED <<conn, client>>

(* No worker can be had: the job is answered with an error and never runs. *)
Refuse ==
    /\ queue # <<>>
    /\ Head(queue).alive
    /\ queue' = Tail(queue)
    /\ UNCHANGED docState
    /\ replies' = Append(replies, Reply(Head(queue), "error"))
    /\ UNCHANGED <<conn, client>>

(* An agent's own rebuild through the app's engine: the whole document,    *)
(* always with revision 1.                                                 *)
AgentRebuild(d) ==
    /\ "secondClient" \in Admits
    /\ queue = <<>>
    /\ docState' = [rev |-> 1, doc |-> d]
    /\ UNCHANGED <<conn, client, queue, replies>>
-----------------------------------------------------------------------------
(* The client's continuations: what rebuild() and computeAll() do with the *)
(* reply they await.  A reply nobody awaits is dropped.                    *)

Arrived(r) == replies # <<>> /\ r = Head(replies) /\ replies' = Tail(replies)

(* mutant: the settled call is not forgotten *)
SettleHalf == call' = [call EXCEPT !.phase = "idle"]
Settle == call' = Idle

IgnoreReply ==
    /\ \E r \in SeqRange(replies) : Arrived(r) /\ r.id # call.id
    /\ UNCHANGED <<conn, client, queue, docState>>

ReplyError ==
    /\ \E r \in SeqRange(replies) :
          Arrived(r) /\ r.id = call.id /\ r.kind = "error"
    /\ Settle
    /\ UNCHANGED <<conn, outbox, lastSent, revision, queue, docState, answer>>

(* A build that can be shown: the first request of rebuild() and its       *)
(* resync adopt the document, the others only hand on the result.          *)
ReplyOk ==
    /\ \E r \in SeqRange(replies) :
          /\ Arrived(r) /\ r.id = call.id /\ r.kind = "ok"
          /\ answer' = r.built
    /\ Settle
    /\ IF call.phase \in {"first", "resync"}
         THEN revision' = call.rev /\ lastSent' = call.doc
         ELSE UNCHANGED <<revision, lastSent>>
    /\ UNCHANGED <<conn, outbox, queue, docState>>

(* A request for a resync, from the worker or because the head of a        *)
(* chunked reply names a mesh the client no longer holds: one full resend. *)
(* A resync of anything but the first request is an error.                 *)
ReplyResync(id) ==
    /\ \E r \in SeqRange(replies) :
          /\ Arrived(r) /\ r.id = call.id
          /\ \/ r.kind = "resync"
             \/ r.kind = "ok" /\ call.phase = "first"
    /\ IF call.phase = "first"
         THEN /\ Fresh(id) \/ id = call.id
              /\ lastSent' = None
              /\ call' = Calling("resync", id, call.doc, revision + 1)
              /\ Send(Full(id, call.doc, revision + 1))
         ELSE Settle /\ UNCHANGED <<lastSent, queue, outbox>>
    /\ UNCHANGED <<conn, revision, docState, answer>>

(* A whole reply names a mesh the client no longer holds: the document is  *)
(* adopted, then every mesh is fetched again.                              *)
ReplyUnbacked(id) ==
    /\ call.phase = "first"
    /\ call.rev < MaxRevision
    /\ Fresh(id) \/ id = call.id
    /\ \E r \in SeqRange(replies) :
          Arrived(r) /\ r.id = call.id /\ r.kind = "ok"
    /\ lastSent' = call.doc
    /\ revision' = call.rev + 1
    /\ call' = Calling("refetch", id, call.doc, call.rev + 1)
    /\ Send(Full(id, call.doc, call.rev + 1))
    /\ UNCHANGED <<conn, docState, answer>>

(* A feature object changes its contents in place: every document that     *)
(* holds the object sees it, and no reference changes.                     *)
Rewritten(d, ref, val) ==
    [d EXCEPT !.feats =
       [i \in DOMAIN d.feats |->
          IF d.feats[i].ref = ref THEN [ref |-> ref, val |-> val]
                                  ELSE d.feats[i]]]

EditInPlace(ref, val) ==
    /\ "inPlaceEdits" \in Admits
    /\ [ref |-> ref, val |-> val] \in Objects
    /\ lastSent # None
    /\ lastSent' = Rewritten(lastSent, ref, val)
    /\ call' = IF call = Idle THEN call
               ELSE [call EXCEPT !.doc = Rewritten(call.doc, ref, val)]
    /\ UNCHANGED <<conn, outbox, revision, engine, answer>>
-----------------------------------------------------------------------------
HandleReply ==
    \/ IgnoreReply
    \/ ReplyError
    \/ ReplyOk
    \/ \E id \in Ids : ReplyResync(id) \/ ReplyUnbacked(id)

Reconnect == \E id \in Ids, d \in Documents : Connect(id, d)

(* scheduleReconnect's timer: an attempt that opens, or does not. *)
Redial == Reconnect \/ ConnectFail

Next ==
    \/ \E id \in Ids, d \in Documents : StartRebuild(id, d) \/ ComputeAll(id, d)
    \/ Redial
    \/ Drop
    \/ EngineDies
    \/ Process
    \/ WorkerLost
    \/ Refuse
    \/ \E d \in WireDocs : AgentRebuild(d)
    \/ HandleReply
    \/ \E ref \in Refs, val \in Vals : EditInPlace(ref, val)

Spec == Init /\ [][Next]_vars

(* The worker runs what it is given or its supervisor reaps it, the        *)
(* webview's event loop delivers replies, and a closed socket is redialled *)
(* on a timer, with or without success.  Nothing obliges the user, the     *)
(* network or the kernel.                                                  *)
Fairness ==
    /\ WF_vars(Process)
    /\ WF_vars(HandleReply)
    /\ WF_vars(Redial)

FairSpec == Spec /\ Fairness
-----------------------------------------------------------------------------
(* Properties.                                                             *)

Phases == {"first", "resync", "refetch", "all"}
Calls == [phase : Phases, id : Ids, doc : Documents, rev : Revisions,
          want : WireDocs]

TypeOK ==
    /\ conn \in {"up", "down"}
    /\ outbox \in Seq(Messages)
    /\ call \in Calls \cup {Idle}
    /\ call.phase = "first" => call.rev = revision + 1
    /\ lastSent \in Documents \cup {None}
    /\ revision \in Revisions
    /\ queue \in Seq(Messages)
    /\ replies \in Seq([id : Ids, kind : {"ok", "error", "resync"},
                         built : WireDocs \cup {None}])
    /\ docState \in [rev : Revisions, doc : WireDocs \cup {None}]
    /\ answer \in WireDocs \cup {None}

(* The client and the worker never disagree in silence: whenever the       *)
(* worker holds a document under the very revision the client would base   *)
(* its next delta on, it is the document the client believes it holds.     *)
EngineInStep ==
    lastSent # None /\ docState.doc # None /\ docState.rev = revision
        => docState.doc = Wire(lastSent)

(* The worker never comes to hold a document nobody asked for: after every *)
(* request it adopts, be it of a client long gone, it holds the document   *)
(* that request was made for.                                              *)
WorkerHoldsWhatWasMeant ==
    [][ \/ docState' = docState
        \/ docState'.doc = None
        \/ queue # <<>> /\ docState'.doc = Head(queue).doc ]_docState

(* Seen by its callers the engine is stateless: every good answer is the   *)
(* build of the very document that was asked for.                          *)
Stateless == INSTANCE StatelessEngine
             WITH Documents <- WireDocs, NoDocument <- None,
                  request <- call.want, answer <- answer
AnswersAsStateless == Stateless!AbsSpec

(* Every call ends, whatever the network and the worker do: rebuildNow()   *)
(* holds the store's rebuilding flag until it does.                        *)
CallSettles == call # Idle ~> call = Idle
=============================================================================
