------------------------- MODULE RebuildWireProofs -------------------------
(***************************************************************************)
(* RebuildWire is type correct whatever is admitted, and when nothing is,  *)
(* the client and the worker are never in silent disagreement, the worker  *)
(* holds only what was meant, and the engine its callers see is stateless. *)
(***************************************************************************)
EXTENDS RebuildWireInvariant, SequenceTheorems, TLAPS

-----------------------------------------------------------------------------
(* Documents and deltas.                                                   *)

(* A timeline is a sequence, of a length within the bound. *)
LEMMA TimelineFacts ==
    ASSUME NEW S, NEW t \in Timelines(S)
    PROVE  /\ t \in Seq(S)
           /\ Len(t) \in 0 .. MaxFeatures
           /\ DOMAIN t = 1 .. Len(t)
           /\ t \in [1 .. Len(t) -> S]
<1>1. PICK n \in 0 .. MaxFeatures : t \in [1 .. n -> S]
  BY DEF Timelines
<1>2. n \in Nat
  BY BoundsAssumption
<1>3. t \in Seq(S) /\ Len(t) = n
  BY <1>1, <1>2
<1> QED
  BY <1>1, <1>2, <1>3

(* A function on 1 .. n within the bound is a timeline. *)
LEMMA TimelineIntro ==
    ASSUME NEW S, NEW n \in 0 .. MaxFeatures, NEW t \in [1 .. n -> S]
    PROVE  t \in Timelines(S)
BY DEF Timelines

(* What travels of a document is a document of values, position for        *)
(* position.                                                               *)
LEMMA WireFacts ==
    ASSUME NEW d \in Documents
    PROVE  /\ Wire(d) \in WireDocs
           /\ DOMAIN Wire(d).feats = DOMAIN d.feats
           /\ \A i \in DOMAIN d.feats : Wire(d).feats[i] = d.feats[i].val
           /\ Wire(d).params = d.params
           /\ Wire(d).vis = d.vis
<1>1. /\ d.feats \in Timelines(Objects)
      /\ d.params \in Params
      /\ d.vis \in Vis \cup {None}
  BY DEF Documents
<1>2. /\ Len(d.feats) \in 0 .. MaxFeatures
      /\ DOMAIN d.feats = 1 .. Len(d.feats)
      /\ d.feats \in [1 .. Len(d.feats) -> Objects]
  BY <1>1, TimelineFacts
<1>3. \A i \in DOMAIN d.feats : d.feats[i].val \in Vals
  BY <1>2, BoundsAssumption
<1>4. [i \in DOMAIN d.feats |-> d.feats[i].val] \in [1 .. Len(d.feats) -> Vals]
  BY <1>2, <1>3
<1>5. [i \in DOMAIN d.feats |-> d.feats[i].val] \in Timelines(Vals)
  BY <1>2, <1>4, TimelineIntro
<1> QED
  BY <1>1, <1>5 DEF Wire, WireDocs

(* The delta between two documents is well formed. *)
LEMMA OpsType ==
    ASSUME NEW last \in Documents, NEW d \in Documents
    PROVE  Ops(last, d) \in OpsSet
<1>1. /\ d.feats \in Timelines(Objects)
      /\ d.params \in Params
      /\ d.vis \in Vis \cup {None}
  BY DEF Documents
<1>2. /\ Len(d.feats) \in 0 .. MaxFeatures
      /\ DOMAIN d.feats = 1 .. Len(d.feats)
      /\ d.feats \in [1 .. Len(d.feats) -> Objects]
  BY <1>1, TimelineFacts
<1>3. ChangedAt(last, d) \subseteq 1 .. Len(d.feats)
  BY <1>2 DEF ChangedAt
<1>4. \A i \in ChangedAt(last, d) : d.feats[i].val \in Vals
  BY <1>2, <1>3, BoundsAssumption
<1>5. ChangedAt(last, d) \in SUBSET (1 .. MaxFeatures)
  BY <1>2, <1>3, BoundsAssumption
<1>6. [i \in ChangedAt(last, d) |-> d.feats[i].val]
         \in UNION {[S -> Vals] : S \in SUBSET (1 .. MaxFeatures)}
  BY <1>4, <1>5
<1> QED
  BY <1>1, <1>2, <1>6 DEF Ops, OpsSet

(* A patched document without placeholders is a document. *)
LEMMA PatchedType ==
    ASSUME NEW held \in WireDocs, NEW ops \in OpsSet, ~Hole(Patched(held, ops))
    PROVE  Patched(held, ops) \in WireDocs
<1> DEFINE p == Patched(held, ops)
<1>1. /\ ops.len \in 0 .. MaxFeatures
      /\ ops.params \in Params \cup {None}
      /\ ops.vis \in Vis \cup {None}
  BY DEF OpsSet
<1>2. PICK S \in SUBSET (1 .. MaxFeatures) : ops.set \in [S -> Vals]
  BY DEF OpsSet
<1>3. /\ held.feats \in Timelines(Vals)
      /\ held.params \in Params
      /\ held.vis \in Vis \cup {None}
  BY DEF WireDocs
<1>4. held.feats \in [1 .. Len(held.feats) -> Vals]
  BY <1>3, TimelineFacts
<1>5. \A i \in 1 .. ops.len : p.feats[i] \in Vals \cup {None}
  BY <1>2, <1>4 DEF Patched
<1>6. DOMAIN p.feats = 1 .. ops.len
  BY DEF Patched
<1>7. \A i \in 1 .. ops.len : p.feats[i] # None
  BY <1>6 DEF Hole
<1>8. p.feats \in [1 .. ops.len -> Vals]
  BY <1>5, <1>7 DEF Patched
<1>9. p.feats \in Timelines(Vals)
  BY <1>1, <1>8, TimelineIntro
<1> QED
  BY <1>1, <1>3, <1>9 DEF Patched, WireDocs

(* The heart of the protocol: patching the document last sent with the     *)
(* delta computed against it gives the document asked for, as long as one  *)
(* reference means one content and the visibility map is not taken away.   *)
LEMMA PatchMeansDocument ==
    ASSUME NEW last \in Documents, NEW d \in Documents,
           Coherent(d, last),
           last.vis # None => d.vis # None
    PROVE  Patched(Wire(last), Ops(last, d)) = Wire(d)
<1> DEFINE ops == Ops(last, d)
           p == Patched(Wire(last), ops)
<1>1. /\ d.feats \in Timelines(Objects)
      /\ d.params \in Params
      /\ d.vis \in Vis \cup {None}
      /\ last.feats \in Timelines(Objects)
      /\ last.vis \in Vis \cup {None}
  BY DEF Documents
<1>2. /\ DOMAIN d.feats = 1 .. Len(d.feats)
  BY <1>1, TimelineFacts
<1>3. /\ ops.len = Len(d.feats)
      /\ DOMAIN ops.set = ChangedAt(last, d)
      /\ \A i \in ChangedAt(last, d) : ops.set[i] = d.feats[i].val
      /\ ops.params = IF d.params = last.params THEN None ELSE d.params
      /\ ops.vis = IF d.vis = last.vis THEN None ELSE d.vis
  BY DEF Ops
<1>4. \A i \in DOMAIN d.feats : p.feats[i] = d.feats[i].val
  <2> SUFFICES ASSUME NEW i \in DOMAIN d.feats
               PROVE  p.feats[i] = d.feats[i].val
    OBVIOUS
  <2>1. CASE i \in ChangedAt(last, d)
    BY <2>1, <1>2, <1>3 DEF Patched
  <2>2. CASE i \notin ChangedAt(last, d)
    <3>1. i \in DOMAIN last.feats /\ last.feats[i].ref = d.feats[i].ref
      BY <2>2 DEF ChangedAt
    <3>2. last.feats[i].val = d.feats[i].val
      BY <3>1 DEF Coherent
    <3>3. p.feats[i] = Wire(last).feats[i]
      BY <2>2, <3>1, <1>2, <1>3, WireFacts DEF Patched
    <3> QED
      BY <3>1, <3>2, <3>3, WireFacts
  <2> QED
    BY <2>1, <2>2
<1>5. p.feats = Wire(d).feats
  BY <1>2, <1>3, <1>4 DEF Patched, Wire
<1>6. p.params = d.params
  BY <1>1, <1>3, WireFacts, NoneAssumption DEF Patched
<1>7. p.vis = d.vis
  BY <1>1, <1>3, WireFacts, NoneAssumption DEF Patched
<1> QED
  BY <1>5, <1>6, <1>7 DEF Patched, Wire

-----------------------------------------------------------------------------
(* Type correctness.                                                       *)

ReplySet == [id : Ids, kind : {"ok", "error", "resync"},
             built : WireDocs \cup {None}]
StateSet == [rev : Revisions, doc : WireDocs \cup {None}]

(* A request for the whole document is a message. *)
LEMMA FullType ==
    ASSUME NEW id \in Ids, NEW d \in Documents, NEW rev \in Revisions
    PROVE  Full(id, d, rev) \in Messages
BY WireFacts, BoundsAssumption DEF Full, Messages, Revisions

(* So is the first request of rebuild(), whole or a delta. *)
LEMMA FirstRequestType ==
    ASSUME NEW id \in Ids, NEW d \in Documents,
           revision \in Revisions, revision < MaxRevision,
           lastSent \in Documents \cup {None}
    PROVE  FirstRequest(id, d) \in Messages
<1>1. revision + 1 \in Revisions
  BY BoundsAssumption DEF Revisions
<1>2. CASE lastSent # None /\ DeltaFits(lastSent, d)
  <2>1. Ops(lastSent, d) \in OpsSet
    BY <1>2, OpsType
  <2>2. Wire(d) \in WireDocs
    BY WireFacts
  <2> QED
    BY <1>1, <1>2, <2>1, <2>2, NoDocumentAssumption
    DEF FirstRequest, Delta, Messages
<1>3. CASE ~(lastSent # None /\ DeltaFits(lastSent, d))
  BY <1>1, <1>3, FullType DEF FirstRequest
<1> QED
  BY <1>2, <1>3

(* A call in progress is one of Calls. *)
LEMMA CallingType ==
    ASSUME NEW phase \in Phases, NEW id \in Ids, NEW d \in Documents,
           NEW rev \in Revisions
    PROVE  Calling(phase, id, d, rev) \in Calls
BY WireFacts DEF Calling, Calls

(* Sending a message keeps the outbox and the queue sequences of messages. *)
LEMMA SendType ==
    ASSUME outbox \in Seq(Messages), queue \in Seq(Messages),
           NEW m \in Messages, Send(m)
    PROVE  outbox' \in Seq(Messages) /\ queue' \in Seq(Messages)
<1>1. Append(queue, m) \in Seq(Messages) /\ Append(outbox, m) \in Seq(Messages)
  BY AppendProperties
<1> QED
  BY <1>1 DEF Send

(* What _apply_doc_ops leaves behind is a worker state. *)
LEMMA AdoptedType ==
    ASSUME NEW held \in StateSet, NEW m \in Messages
    PROVE  Adopted(held, m) \in StateSet
<1>1. CASE ~m.delta
  BY <1>1 DEF Adopted, Messages, StateSet
<1>2. CASE m.delta /\ NotHeld(held, m)
  BY <1>2 DEF Adopted
<1>3. CASE m.delta /\ ~NotHeld(held, m) /\ Hole(Patched(held.doc, m.ops))
  BY <1>3 DEF Adopted, StateSet
<1>4. CASE m.delta /\ ~NotHeld(held, m) /\ ~Hole(Patched(held.doc, m.ops))
  <2>1. held.doc \in WireDocs
    BY <1>4 DEF NotHeld, StateSet
  <2>2. m.ops \in OpsSet
    BY <1>4 DEF Messages
  <2>3. Patched(held.doc, m.ops) \in WireDocs
    BY <1>4, <2>1, <2>2, PatchedType
  <2> QED
    BY <1>4, <2>3 DEF Adopted, StateSet, Messages
<1> QED
  BY <1>1, <1>2, <1>3, <1>4

(* A reply is well formed once the worker's new state is. *)
LEMMA ReplyType ==
    ASSUME NEW m \in Messages, NEW kind \in {"ok", "error", "resync"},
           docState' \in StateSet
    PROVE  Reply(m, kind) \in ReplySet
BY DEF Reply, ReplySet, StateSet, Messages

(* Every action keeps the types. *)
LEMMA TypeStep == TypeOK /\ [Next]_vars => TypeOK'
<1> USE DEF ReplySet, StateSet
<1> SUFFICES ASSUME TypeOK, [Next]_vars
             PROVE  TypeOK'
  OBVIOUS
<1> USE DEF TypeOK
<1>a. /\ Idle.phase # "first"
      /\ NoState \in StateSet
      /\ <<>> \in Seq(Messages)
      /\ <<>> \in Seq(ReplySet)
  BY BoundsAssumption, EmptySeq DEF NoState, Idle, Revisions
<1>1. ASSUME NEW id \in Ids, NEW d \in Documents, StartRebuild(id, d)
      PROVE  TypeOK'
  <2>1. FirstRequest(id, d) \in Messages
    BY <1>1, FirstRequestType DEF StartRebuild
  <2>2. revision + 1 \in Revisions
    BY <1>1, BoundsAssumption DEF StartRebuild, Revisions
  <2>3. call' \in Calls
    BY <1>1, <2>2, CallingType DEF StartRebuild, Phases
  <2>4. outbox' \in Seq(Messages) /\ queue' \in Seq(Messages)
    BY <1>1, <2>1, SendType DEF StartRebuild
  <2> QED
    BY <1>1, <2>3, <2>4 DEF StartRebuild, Calling
<1>2. ASSUME NEW id \in Ids, NEW d \in Documents, ComputeAll(id, d)
      PROVE  TypeOK'
  <2>1. revision + 1 \in Revisions
    BY <1>2, BoundsAssumption DEF ComputeAll, Revisions
  <2>2. Full(id, d, revision + 1) \in Messages
    BY <2>1, FullType
  <2>3. call' \in Calls \cup {Idle}
    BY <1>2, <2>1, CallingType DEF ComputeAll, Phases
  <2>4. outbox' \in Seq(Messages) /\ queue' \in Seq(Messages)
    BY <1>2, <2>2, SendType DEF ComputeAll
  <2>5. answer' \in WireDocs \cup {None}
    BY <1>2 DEF ComputeAll
  <2> QED
    <3>1. call'.phase # "first"
      BY <1>2, <1>a DEF ComputeAll, Calling
    <3> QED
      BY <1>2, <2>1, <2>3, <2>4, <2>5, <3>1 DEF ComputeAll
<1>3. ASSUME NEW id \in Ids, NEW d \in Documents, Connect(id, d)
      PROVE  TypeOK'
  <2>1. CASE call # Idle
    <3>1. queue' = queue \o outbox /\ UNCHANGED <<call, answer>>
      BY <1>3, <2>1 DEF Connect
    <3>2. queue' \in Seq(Messages)
      BY <3>1, ConcatProperties
    <3> QED
      BY <1>3, <3>1, <3>2, <1>a DEF Connect
  <2>2. CASE call = Idle
    <3>1. /\ revision < MaxRevision
          /\ call' = Calling("first", id, d, revision + 1)
          /\ queue' = Append(queue, FirstRequest(id, d)) \o outbox
          /\ answer' = None
      BY <1>3, <2>2 DEF Connect
    <3>2. revision + 1 \in Revisions
      BY <3>1, BoundsAssumption DEF Revisions
    <3>3. FirstRequest(id, d) \in Messages
      BY <3>1, FirstRequestType
    <3>4. Append(queue, FirstRequest(id, d)) \in Seq(Messages)
      BY <3>3, AppendProperties
    <3>5. queue' \in Seq(Messages)
      BY <3>1, <3>4, ConcatProperties
    <3>6. call' \in Calls
      BY <3>1, <3>2, CallingType DEF Phases
    <3> QED
      BY <1>3, <3>1, <3>5, <3>6, <1>a DEF Connect, Calling
  <2> QED
    BY <2>1, <2>2
<1>4. CASE ConnectFail
  BY <1>4, <1>a DEF ConnectFail, AfterClose, engine
<1>5. CASE Drop
  <2>1. PICK k \in 0 .. Len(queue) :
          queue' = [i \in 1 .. k |-> [queue[i] EXCEPT !.alive = FALSE]]
    BY <1>5 DEF Drop
  <2>2. k \in Nat /\ \A i \in 1 .. k : queue[i] \in Messages
    BY <2>1, ElementOfSeq, LenProperties
  <2>3. \A i \in 1 .. k : [queue[i] EXCEPT !.alive = FALSE] \in Messages
    BY <2>2 DEF Messages
  <2>4. queue' \in [1 .. k -> Messages]
    BY <2>1, <2>3
  <2>5. queue' \in Seq(Messages)
    BY <2>2, <2>4
  <2> QED
    BY <1>5, <1>a, <2>5 DEF Drop, AfterClose
<1>6. CASE EngineDies
  BY <1>6, <1>a DEF EngineDies, AfterClose
<1>7. CASE Process
  <2> DEFINE m == Head(queue)
  <2>1. m \in Messages /\ queue' \in Seq(Messages)
    BY <1>7, HeadTailProperties DEF Process
  <2>2. docState' \in StateSet
    BY <1>7, <2>1, AdoptedType DEF Process
  <2>3. \A kind \in {"ok", "error", "resync"} :
           Reported(m, kind) => replies' \in Seq(ReplySet)
    <3> SUFFICES ASSUME NEW kind \in {"ok", "error", "resync"},
                        Reported(m, kind)
                 PROVE  replies' \in Seq(ReplySet)
      OBVIOUS
    <3>1. Reply(m, kind) \in ReplySet
      BY <2>1, <2>2, ReplyType
    <3>2. Append(replies, Reply(m, kind)) \in Seq(ReplySet)
      BY <3>1, AppendProperties
    <3> QED
      BY <3>2 DEF Reported
  <2>4. replies' \in Seq(ReplySet)
    BY <1>7, <2>3 DEF Process
  <2> QED
    BY <1>7, <2>1, <2>2, <2>4 DEF Process, client
<1>8. CASE WorkerLost
  <2>1. PICK k \in 0 .. Len(queue) :
          /\ queue' = SubSeq(queue, k + 1, Len(queue))
          /\ docState' = NoState
          /\ replies' = IF k > 0 /\ queue[k].alive
                          THEN Append(replies, Reply(queue[k], "error"))
                          ELSE replies
    BY <1>8 DEF WorkerLost
  <2>2. Len(queue) \in Nat /\ \A i \in 1 .. Len(queue) : queue[i] \in Messages
    BY ElementOfSeq, LenProperties
  <2>3. queue' \in Seq(Messages)
    BY <2>1, <2>2, SubSeqProperties
  <2>4. ASSUME k > 0
        PROVE  Reply(queue[k], "error") \in ReplySet
    BY <2>1, <2>2, <2>4, <1>a, ReplyType
  <2>5. replies' \in Seq(ReplySet)
    BY <2>1, <2>4, AppendProperties
  <2> QED
    BY <1>8, <1>a, <2>1, <2>3, <2>5 DEF WorkerLost, client
<1>9. CASE Refuse
  <2>1. Head(queue) \in Messages /\ queue' \in Seq(Messages)
    BY <1>9, HeadTailProperties DEF Refuse
  <2>2. Reply(Head(queue), "error") \in ReplySet
    BY <1>9, <2>1, ReplyType DEF Refuse
  <2> QED
    BY <1>9, <2>1, <2>2, AppendProperties DEF Refuse, client
<1>10. ASSUME NEW d \in WireDocs, AgentRebuild(d)
       PROVE  TypeOK'
  <2> QED
    BY <1>10, BoundsAssumption DEF AgentRebuild, client, Revisions
<1>11. CASE HandleReply
  <2>1. ASSUME NEW r \in SeqRange(replies), Arrived(r)
        PROVE  r \in ReplySet /\ replies' \in Seq(ReplySet)
    BY <2>1, HeadTailProperties DEF Arrived
  <2>2. CASE IgnoreReply
    BY <2>1, <2>2 DEF IgnoreReply, client
  <2>3. CASE ReplyError
    BY <1>a, <2>1, <2>3 DEF ReplyError, Settle
  <2>4. CASE ReplyOk
    <3>1. replies' \in Seq(ReplySet) /\ answer' \in WireDocs \cup {None}
      BY <2>1, <2>4 DEF ReplyOk
    <3>2. call \in Calls \/ call = Idle
      OBVIOUS
    <3>3. /\ revision' \in Revisions
          /\ lastSent' \in Documents \cup {None}
      BY <2>4, <3>2 DEF ReplyOk, Calls, Idle
    <3> QED
      BY <1>a, <2>4, <3>1, <3>3 DEF ReplyOk, Settle
  <2>5. ASSUME NEW id \in Ids, ReplyResync(id)
        PROVE  TypeOK'
    <3>1. replies' \in Seq(ReplySet)
      BY <2>1, <2>5 DEF ReplyResync
    <3>2. CASE call.phase = "first"
      <4>1. /\ call \in Calls
            /\ call.doc \in Documents
        BY <3>2 DEF Calls, Idle
      <4>2. revision + 1 \in Revisions
        BY <3>2, <4>1 DEF Calls
      <4>3. Full(id, call.doc, revision + 1) \in Messages
        BY <4>1, <4>2, FullType
      <4>4. call' \in Calls
        BY <2>5, <3>2, <4>1, <4>2, CallingType DEF ReplyResync, Phases
      <4>5. outbox' \in Seq(Messages) /\ queue' \in Seq(Messages)
        BY <2>5, <3>2, <4>3, SendType DEF ReplyResync
      <4>6. call'.phase # "first"
        BY <2>5, <3>2 DEF ReplyResync, Calling
      <4> QED
        BY <2>5, <3>1, <3>2, <4>4, <4>5, <4>6 DEF ReplyResync
    <3>3. CASE call.phase # "first"
      BY <1>a, <2>5, <3>1, <3>3 DEF ReplyResync, Settle
    <3> QED
      BY <3>2, <3>3
  <2>6. ASSUME NEW id \in Ids, ReplyUnbacked(id)
        PROVE  TypeOK'
    <3>1. replies' \in Seq(ReplySet)
      BY <2>1, <2>6 DEF ReplyUnbacked
    <3>2. /\ call \in Calls
          /\ call.doc \in Documents
          /\ call.rev \in Revisions
      BY <2>6 DEF ReplyUnbacked, Calls, Idle
    <3>3. call.rev + 1 \in Revisions
      BY <2>6, <3>2, BoundsAssumption DEF ReplyUnbacked, Revisions
    <3>4. Full(id, call.doc, call.rev + 1) \in Messages
      BY <3>2, <3>3, FullType
    <3>5. call' \in Calls
      BY <2>6, <3>2, <3>3, CallingType DEF ReplyUnbacked, Phases
    <3>6. outbox' \in Seq(Messages) /\ queue' \in Seq(Messages)
      BY <2>6, <3>4, SendType DEF ReplyUnbacked
    <3>7. call'.phase # "first"
      BY <2>6 DEF ReplyUnbacked, Calling
    <3> QED
      BY <2>6, <3>1, <3>2, <3>3, <3>5, <3>6, <3>7 DEF ReplyUnbacked
  <2> QED
    BY <1>11, <2>2, <2>3, <2>4, <2>5, <2>6 DEF HandleReply
<1>12. ASSUME NEW ref \in Refs, NEW val \in Vals, EditInPlace(ref, val)
       PROVE  TypeOK'
  <2>1. ASSUME NEW d \in Documents
        PROVE  Rewritten(d, ref, val) \in Documents
    <3>1. [ref |-> ref, val |-> val] \in Objects
      BY <1>12 DEF EditInPlace
    <3>2. /\ d.feats \in Timelines(Objects)
          /\ \A i, j \in DOMAIN d.feats :
                d.feats[i].ref = d.feats[j].ref => i = j
      BY DEF Documents
    <3>3. /\ Len(d.feats) \in 0 .. MaxFeatures
          /\ d.feats \in [1 .. Len(d.feats) -> Objects]
      BY <3>2, TimelineFacts
    <3> DEFINE t == [i \in DOMAIN d.feats |->
                       IF d.feats[i].ref = ref THEN [ref |-> ref, val |-> val]
                                               ELSE d.feats[i]]
    <3>4. t \in [1 .. Len(d.feats) -> Objects]
      BY <3>1, <3>3
    <3>5. t \in Timelines(Objects)
      BY <3>3, <3>4, TimelineIntro
    <3>6. \A i \in DOMAIN d.feats : t[i].ref = d.feats[i].ref
      OBVIOUS
    <3>7. \A i, j \in DOMAIN t : t[i].ref = t[j].ref => i = j
      BY <3>2, <3>6
    <3>8. Rewritten(d, ref, val) = [d EXCEPT !.feats = t]
      BY DEF Rewritten
    <3> HIDE DEF t
    <3> QED
      BY <3>5, <3>7, <3>8 DEF Documents
  <2>2. lastSent' \in Documents
    BY <1>12, <2>1 DEF EditInPlace
  <2>3. call' \in Calls \cup {Idle}
    BY <1>12, <2>1 DEF EditInPlace, Calls
  <2> QED
    BY <1>12, <2>2, <2>3 DEF EditInPlace, engine
<1>13. CASE UNCHANGED vars
  BY <1>13 DEF vars
<1> QED
  BY <1>1, <1>2, <1>3, <1>4, <1>5, <1>6, <1>7, <1>8, <1>9, <1>10, <1>11,
     <1>12, <1>13 DEF Next, Redial, Reconnect

(* The initial state is type correct. *)
LEMMA TypeInit == Init => TypeOK
<1>1. <<>> \in Seq(Messages) /\ <<>> \in Seq(ReplySet)
  BY EmptySeq
<1> QED
  BY <1>1, BoundsAssumption
  DEF Init, TypeOK, Idle, NoState, Revisions, ReplySet

(* The state always has the shape the code expects, whatever the network,  *)
(* the worker, the agent and the editing tools do.                         *)
THEOREM TypeCorrect == Spec => []TypeOK
BY TypeInit, TypeStep, PTL DEF Spec
-----------------------------------------------------------------------------
(* The client and the worker stay in step.                                 *)

(* What a first request promises: it leads to the document asked for, and  *)
(* if it is a delta, it does so from the document last sent.               *)
LEMMA FirstRequestMeans ==
    ASSUME NEW id \in Ids, NEW d \in Documents,
           lastSent \in Documents \cup {None},
           Admits = {}, Askable(d)
    PROVE  LET m == FirstRequest(id, d)
           IN  /\ m.alive
               /\ m.id = id
               /\ m.doc = Wire(d)
               /\ m.rev = revision + 1
               /\ m.delta =>
                     /\ lastSent # None
                     /\ m.base = revision
                     /\ Patched(Wire(lastSent), m.ops) = m.doc
<1>1. CASE lastSent # None /\ DeltaFits(lastSent, d)
  <2>1. /\ Coherent(d, lastSent)
        /\ lastSent.vis # None => d.vis # None
    BY <1>1 DEF Askable
  <2>2. Patched(Wire(lastSent), Ops(lastSent, d)) = Wire(d)
    BY <1>1, <2>1, PatchMeansDocument
  <2> QED
    BY <1>1, <2>2 DEF FirstRequest, Delta
<1>2. CASE ~(lastSent # None /\ DeltaFits(lastSent, d))
  BY <1>2 DEF FirstRequest, Full
<1> QED
  BY <1>1, <1>2

(* A request for the whole document carries that document. *)
LEMMA FullMeans ==
    ASSUME NEW id \in Ids, NEW d \in Documents, NEW rev
    PROVE  LET m == Full(id, d, rev)
           IN  /\ m.alive
               /\ m.id = id
               /\ m.doc = Wire(d)
               /\ m.rev = rev
               /\ ~m.delta
BY DEF Full

(* With no call in progress nothing is waited for anywhere. *)
LEMMA IdleMeans ==
    ASSUME TypeOK, Inv, call = Idle
    PROVE  /\ outbox = <<>>
           /\ replies = <<>>
           /\ \A i \in 1 .. Len(queue) : ~queue[i].alive
<1>1. DOMAIN queue = 1 .. Len(queue)
  BY LenProperties DEF TypeOK
<1> QED
  BY <1>1 DEF Inv, OutboxInv, RepliesInv, QueueInv, OfTheCall

(* A request sent when nothing else is waited for. *)
LEMMA SendInv ==
    ASSUME TypeOK, Inv,
           outbox = <<>>,
           \A i \in 1 .. Len(queue) : ~queue[i].alive,
           \A x \in Messages : NotStale(x) => NotStale(x)',
           NEW m \in Messages, Send(m), conn' = conn,
           m.alive, NotStale(m)', OfTheCall(m)'
    PROVE  QueueInv' /\ OutboxInv'
<1>1. /\ queue \in Seq(Messages)
      /\ DOMAIN queue = 1 .. Len(queue)
      /\ Len(queue) \in Nat
      /\ \A i \in 1 .. Len(queue) : queue[i] \in Messages
  BY LenProperties, ElementOfSeq DEF TypeOK
<1>2. \A i \in 1 .. Len(queue) : NotStale(queue[i])
  BY <1>1 DEF Inv, QueueInv
<1>3. CASE conn = "up"
  <2>1. queue' = Append(queue, m) /\ outbox' = <<>>
    BY <1>3 DEF Send
  <2>2. /\ queue' \in Seq(Messages)
        /\ Len(queue') = Len(queue) + 1
        /\ \A i \in 1 .. Len(queue) : queue'[i] = queue[i]
        /\ queue'[Len(queue) + 1] = m
    BY <1>1, <2>1, AppendProperties
  <2>3. DOMAIN queue' = 1 .. Len(queue) + 1
    BY <2>2, LenProperties
  <2>4. ASSUME NEW i \in 1 .. Len(queue)
        PROVE  NotStale(queue[i])'
    <3>1. PICK x \in Messages : x = queue[i]
      BY <1>1
    <3>2. NotStale(x)'
      BY <1>2, <3>1
    <3>3. queue'[i] = x
      BY <2>2, <3>1
    <3> QED
      BY <3>2, <3>3 DEF NotStale
  <2>5. ASSUME NEW i \in DOMAIN queue'
        PROVE  /\ NotStale(queue[i])'
               /\ queue'[i].alive =>
                     conn' = "up" /\ i = Len(queue') /\ OfTheCall(queue[i])'
    <3>1. CASE i \in 1 .. Len(queue)
      BY <2>2, <2>4, <3>1
    <3>2. CASE i = Len(queue) + 1
      BY <1>3, <2>2, <3>2 DEF NotStale, OfTheCall
    <3> QED
      BY <1>1, <2>3, <3>1, <3>2
  <2> QED
    BY <2>1, <2>5 DEF QueueInv, OutboxInv
<1>4. CASE conn # "up"
  <2>1. queue' = queue /\ outbox' = Append(<<>>, m)
    BY <1>4 DEF Send
  <2>2. Len(outbox') = 1 /\ outbox'[1] = m
    BY <2>1
  <2>3. ASSUME NEW i \in DOMAIN queue'
        PROVE  NotStale(queue[i])' /\ ~queue'[i].alive
    <3>1. PICK x \in Messages : x = queue[i]
      BY <1>1, <2>1
    <3>2. NotStale(x)'
      BY <1>1, <1>2, <2>1, <3>1
    <3> QED
      BY <1>1, <2>1, <3>1, <3>2 DEF NotStale
  <2>4. conn' = "down"
    BY <1>4 DEF TypeOK
  <2> QED
    BY <2>2, <2>3, <2>4 DEF QueueInv, OutboxInv, NotStale, OfTheCall
<1> QED
  BY <1>3, <1>4
(* Requests that were waited for no longer are: what stays at the engine   *)
(* is only what was there, with nobody waiting.                            *)
LEMMA DropInv ==
    ASSUME TypeOK, Inv, Drop, TypeOK'
    PROVE  QueueInv'
<1>1. PICK k \in 0 .. Len(queue) :
        queue' = [i \in 1 .. k |-> [queue[i] EXCEPT !.alive = FALSE]]
  BY DEF Drop
<1>2. /\ Len(queue) \in Nat
      /\ DOMAIN queue = 1 .. Len(queue)
      /\ \A i \in 1 .. Len(queue) : queue[i] \in Messages
  BY LenProperties, ElementOfSeq DEF TypeOK
<1>3. DOMAIN queue' = 1 .. k /\ \A i \in 1 .. k : i \in DOMAIN queue
  BY <1>1, <1>2
<1>4. ASSUME NEW i \in DOMAIN queue'
      PROVE  NotStale(queue[i])' /\ ~queue'[i].alive
  <2>1. NotStale(queue[i]) /\ queue[i] \in Messages
    BY <1>2, <1>3 DEF Inv, QueueInv
  <2>2. queue'[i] = [queue[i] EXCEPT !.alive = FALSE]
    BY <1>1, <1>3
  <2>3. /\ ~queue'[i].alive
        /\ queue'[i].rev = queue[i].rev
        /\ queue'[i].doc = queue[i].doc
        /\ queue'[i].delta = queue[i].delta
    BY <2>1, <2>2 DEF Messages
  <2> QED
    BY <2>1, <2>3 DEF NotStale, Drop
<1> QED
  BY <1>4 DEF QueueInv

(* The worker runs the oldest request: whatever it adopts, it is never     *)
(* another document under the client's revision, and a build somebody      *)
(* waits for is the build of the document asked for.                       *)
LEMMA ProcessInv ==
    ASSUME TypeOK, Inv, Process, TypeOK'
    PROVE  Inv'
<1> DEFINE m == Head(queue)
<1>1. /\ queue \in Seq(Messages)
      /\ queue # <<>>
      /\ Len(queue) \in Nat \ {0}
      /\ DOMAIN queue = 1 .. Len(queue)
      /\ m = queue[1]
      /\ m \in Messages
      /\ Tail(queue) \in Seq(Messages)
      /\ Len(Tail(queue)) = Len(queue) - 1
      /\ \A i \in 1 .. Len(Tail(queue)) : Tail(queue)[i] = queue[i + 1]
  BY HeadTailProperties, LenProperties, EmptySeq DEF TypeOK, Process
<1>2. /\ queue' = Tail(queue)
      /\ docState' = Adopted(docState, m)
      /\ conn' = conn
      /\ UNCHANGED <<outbox, call, lastSent, revision, answer>>
  BY DEF Process, client
<1>3. /\ replies = <<>>
      /\ NotStale(m)
      /\ m.alive => conn = "up" /\ Len(queue) = 1 /\ OfTheCall(m)
  BY <1>1 DEF Inv, RepliesInv, QueueInv
<1>4. EngineInStep'
  <2> SUFFICES ASSUME lastSent # None, docState'.doc # None,
                      docState'.rev = revision
               PROVE  docState'.doc = Wire(lastSent)
    BY <1>2 DEF EngineInStep
  <2>1. CASE ~m.delta
    BY <1>2, <1>3, <2>1 DEF Adopted, NotStale, TypeOK, Revisions
  <2>2. CASE m.delta /\ NotHeld(docState, m)
    BY <1>2, <2>2 DEF Adopted, Inv, EngineInStep
  <2>3. CASE m.delta /\ ~NotHeld(docState, m)
    <3>1. m.rev = revision + 1
      BY <1>3, <2>3 DEF NotStale
    <3>2. docState'.rev = m.rev
      <4>1. CASE Hole(Patched(docState.doc, m.ops))
        BY <1>2, <2>3, <4>1 DEF Adopted, TypeOK
      <4>2. CASE ~Hole(Patched(docState.doc, m.ops))
        BY <1>2, <2>3, <4>2 DEF Adopted
      <4> QED
        BY <4>1, <4>2
    <3> QED
      BY <3>1, <3>2 DEF TypeOK, Revisions
  <2> QED
    BY <2>1, <2>2, <2>3
<1>5. QueueInv'
  <2>1. DOMAIN queue' = 1 .. Len(queue')
    BY LenProperties DEF TypeOK
  <2>2. ASSUME NEW i \in DOMAIN queue'
        PROVE  /\ queue'[i] = queue[i + 1]
               /\ i + 1 \in DOMAIN queue
               /\ i + 1 = Len(queue) => i = Len(queue')
    BY <1>1, <1>2, <2>1, <2>2
  <2>3. ASSUME NEW i \in DOMAIN queue'
        PROVE  /\ NotStale(queue[i])'
               /\ queue'[i].alive =>
                     conn' = "up" /\ i = Len(queue') /\ OfTheCall(queue[i])'
    <3>1. /\ NotStale(queue[i + 1])
          /\ queue[i + 1].alive =>
               conn = "up" /\ i + 1 = Len(queue) /\ OfTheCall(queue[i + 1])
      BY <2>2 DEF Inv, QueueInv
    <3> QED
      BY <1>2, <2>2, <3>1 DEF NotStale, OfTheCall
  <2> QED
    BY <2>3 DEF QueueInv
<1>6. CallInv'
  BY <1>2 DEF Inv, CallInv
<1>7. OutboxInv'
  BY <1>2 DEF Inv, OutboxInv, NotStale, OfTheCall
<1>8. RepliesInv'
  <2>1. CASE ~m.alive
    <3>1. replies' = <<>>
      BY <1>3, <2>1 DEF Process, Reported
    <3> QED
      BY <3>1 DEF RepliesInv
  <2>2. CASE m.alive
    <3>1. PICK kind \in {"ok", "error", "resync"} :
            /\ replies' = Append(<<>>, Reply(m, kind))
            /\ kind = "ok" => ~AsksResync(docState, m)
      BY <1>3, <2>2 DEF Process, Reported
    <3>2. Len(replies') = 1 /\ replies'[1] = Reply(m, kind)
      BY <3>1
    <3>3. queue' = <<>>
      BY <1>1, <1>2, <1>3, <2>2, EmptySeq
    <3>4. conn' = "up" /\ call' # Idle /\ replies'[1].id = call'.id
      BY <1>2, <1>3, <2>2, <3>2 DEF OfTheCall, Reply
    <3>5. ASSUME kind = "ok"
          PROVE  docState' = [rev |-> call.rev, doc |-> call.want]
      <4>1. CASE ~m.delta
        BY <1>2, <1>3, <2>2, <4>1 DEF Adopted, OfTheCall
      <4>2. CASE m.delta
        <5>1. ~NotHeld(docState, m) /\ ~Hole(Patched(docState.doc, m.ops))
          BY <3>1, <3>5, <4>2 DEF AsksResync
        <5>2. docState.doc = Wire(lastSent)
          BY <1>3, <2>2, <4>2, <5>1 DEF OfTheCall, NotHeld, Inv, EngineInStep
        <5> QED
          BY <1>2, <1>3, <2>2, <4>2, <5>1, <5>2 DEF Adopted, OfTheCall
      <4> QED
        BY <4>1, <4>2
    <3>6. replies'[1].kind = kind /\ replies'[1].built = docState'.doc
      BY <3>2 DEF Reply
    <3> QED
      BY <1>2, <3>2, <3>3, <3>4, <3>5, <3>6 DEF RepliesInv
  <2> QED
    BY <2>1, <2>2
<1> QED
  BY <1>4, <1>5, <1>6, <1>7, <1>8 DEF Inv

(* What is left of a sequence when its first k elements are gone. *)
LEMMA Remaining ==
    ASSUME NEW S, NEW q \in Seq(S), NEW k \in 0 .. Len(q)
    PROVE  LET rest == SubSeq(q, k + 1, Len(q))
           IN  /\ Len(rest) = Len(q) - k
               /\ \A i \in 1 .. Len(q) - k : rest[i] = q[i + k]
<1> DEFINE rest == SubSeq(q, k + 1, Len(q))
<1>1. /\ Len(q) \in Nat /\ k \in Nat /\ k <= Len(q)
      /\ \A i \in k + 1 .. Len(q) : q[i] \in S
  BY LenProperties, ElementOfSeq
<1>2. /\ Len(rest) = IF k + 1 <= Len(q) THEN Len(q) - (k + 1) + 1 ELSE 0
      /\ \A i \in 1 .. Len(q) - (k + 1) + 1 : rest[i] = q[(k + 1) + i - 1]
  BY <1>1, SubSeqProperties
<1> HIDE DEF rest
<1>3. Len(rest) = Len(q) - k
  BY <1>1, <1>2
<1>4. ASSUME NEW i \in 1 .. Len(q) - k
      PROVE  rest[i] = q[i + k]
  <2>1. (k + 1) + i - 1 = i + k /\ i \in 1 .. Len(q) - (k + 1) + 1
    BY <1>1
  <2> QED
    BY <1>2, <2>1
<1> QED
  BY <1>3, <1>4 DEF rest

(* The worker is lost: it holds nothing, and at most the call in progress  *)
(* hears of it.                                                            *)
LEMMA WorkerLostInv ==
    ASSUME TypeOK, Inv, WorkerLost, TypeOK'
    PROVE  Inv'
<1>1. PICK k \in 0 .. Len(queue) :
        /\ queue' = SubSeq(queue, k + 1, Len(queue))
        /\ docState' = NoState
        /\ replies' = IF k > 0 /\ queue[k].alive
                        THEN Append(replies, Reply(queue[k], "error"))
                        ELSE replies
  BY DEF WorkerLost
<1>2. /\ conn' = conn
      /\ UNCHANGED <<outbox, call, lastSent, revision, answer>>
  BY DEF WorkerLost, client
<1>3. /\ queue \in Seq(Messages)
      /\ Len(queue) \in Nat
      /\ DOMAIN queue = 1 .. Len(queue)
      /\ \A i \in 1 .. Len(queue) : queue[i] \in Messages
  BY LenProperties, ElementOfSeq DEF TypeOK
<1>4. /\ Len(queue') = Len(queue) - k
      /\ DOMAIN queue' = 1 .. Len(queue')
      /\ \A i \in 1 .. Len(queue) - k : queue'[i] = queue[i + k]
  <2>1. DOMAIN queue' = 1 .. Len(queue')
    BY LenProperties DEF TypeOK
  <2> QED
    BY <1>1, <1>3, <2>1, Remaining
<1>5. EngineInStep'
  BY <1>1 DEF EngineInStep, NoState
<1>6. QueueInv'
  <2>1. ASSUME NEW i \in DOMAIN queue'
        PROVE  /\ queue'[i] = queue[i + k]
               /\ i + k \in DOMAIN queue
               /\ i + k = Len(queue) => i = Len(queue')
    BY <1>3, <1>4, <2>1
  <2>2. ASSUME NEW i \in DOMAIN queue'
        PROVE  /\ NotStale(queue[i])'
               /\ queue'[i].alive =>
                     conn' = "up" /\ i = Len(queue') /\ OfTheCall(queue[i])'
    <3>1. /\ NotStale(queue[i + k])
          /\ queue[i + k].alive =>
               conn = "up" /\ i + k = Len(queue) /\ OfTheCall(queue[i + k])
      BY <2>1 DEF Inv, QueueInv
    <3> QED
      BY <1>2, <2>1, <3>1 DEF NotStale, OfTheCall
  <2> QED
    BY <2>2 DEF QueueInv
<1>7. CallInv' /\ OutboxInv'
  BY <1>2 DEF Inv, CallInv, OutboxInv, NotStale, OfTheCall
<1>8. RepliesInv'
  <2>1. CASE k > 0 /\ queue[k].alive
    <3>1. /\ k = Len(queue)
          /\ conn = "up"
          /\ OfTheCall(queue[k])
          /\ replies = <<>>
      <4>1. k \in DOMAIN queue
        BY <1>3, <2>1
      <4>2. queue # <<>>
        BY <4>1
      <4> QED
        BY <2>1, <4>1, <4>2 DEF Inv, QueueInv, RepliesInv
    <3>2. replies' = Append(<<>>, Reply(queue[k], "error"))
      BY <1>1, <2>1, <3>1
    <3>3. Len(replies') = 1 /\ replies'[1] = Reply(queue[k], "error")
      BY <3>2
    <3>4. queue' = <<>>
      BY <1>3, <1>4, <3>1, EmptySeq DEF TypeOK
    <3> QED
      BY <1>2, <3>1, <3>3, <3>4 DEF RepliesInv, OfTheCall, Reply
  <2>2. CASE ~(k > 0 /\ queue[k].alive)
    <3>1. replies' = replies
      BY <1>1, <2>2
    <3>2. SUFFICES ASSUME replies # <<>>
                   PROVE  RepliesInv'
      BY <3>1 DEF RepliesInv
    <3>3. queue' = <<>>
      <4>1. Len(queue) = 0
        BY <3>2, EmptySeq DEF Inv, RepliesInv
      <4> QED
        BY <1>4, <4>1, <1>3, EmptySeq DEF TypeOK
    <3> QED
      BY <1>1, <1>2, <3>1, <3>2, <3>3 DEF Inv, RepliesInv, NoState
  <2> QED
    BY <2>1, <2>2
<1> QED
  BY <1>5, <1>6, <1>7, <1>8 DEF Inv

(* A job refused for want of a worker keeps the invariant. *)
LEMMA RefuseInv ==
    ASSUME TypeOK, Inv, Refuse, TypeOK'
    PROVE  Inv'
<1> DEFINE m == Head(queue)
<1>1. /\ queue \in Seq(Messages)
      /\ Len(queue) \in Nat \ {0}
      /\ DOMAIN queue = 1 .. Len(queue)
      /\ m = queue[1]
      /\ m.alive
      /\ Tail(queue) \in Seq(Messages)
      /\ Len(Tail(queue)) = Len(queue) - 1
  BY HeadTailProperties, LenProperties, EmptySeq DEF TypeOK, Refuse
<1>2. /\ Len(queue) = 1
      /\ conn = "up"
      /\ OfTheCall(m)
      /\ replies = <<>>
  BY <1>1 DEF Inv, QueueInv, RepliesInv, Refuse
<1>3. queue' = <<>>
  BY <1>1, <1>2, EmptySeq DEF Refuse
<1>4. /\ replies' = Append(<<>>, Reply(m, "error"))
      /\ conn' = conn
      /\ UNCHANGED <<outbox, call, lastSent, revision, answer, docState>>
  BY <1>2 DEF Refuse, client
<1>5. Len(replies') = 1 /\ replies'[1] = Reply(m, "error")
  BY <1>4
<1>6. CallInv' /\ OutboxInv' /\ EngineInStep'
  BY <1>4 DEF Inv, CallInv, OutboxInv, NotStale, OfTheCall, EngineInStep
<1>7. QueueInv'
  BY <1>3 DEF QueueInv
<1>8. RepliesInv'
  BY <1>2, <1>3, <1>4, <1>5 DEF RepliesInv, OfTheCall, Reply
<1> QED
  BY <1>6, <1>7, <1>8 DEF Inv

(* The reply of the call in progress: nothing else is under way.           *)
LEMMA ArrivedMeans ==
    ASSUME TypeOK, Inv, NEW r \in SeqRange(replies), Arrived(r)
    PROVE  /\ conn = "up"
           /\ call # Idle
           /\ r.id = call.id
           /\ queue = <<>>
           /\ outbox = <<>>
           /\ replies' = <<>>
           /\ r = replies[1]
<1>1. /\ Len(replies) = 1
      /\ conn = "up"
      /\ queue = <<>>
      /\ call # Idle
      /\ replies[1].id = call.id
  BY DEF Inv, RepliesInv, Arrived
<1>2. /\ r = replies[1]
      /\ Tail(replies) \in Seq(ReplySet)
      /\ Len(Tail(replies)) = 0
  BY <1>1, HeadTailProperties DEF Arrived, TypeOK, ReplySet
<1>3. replies' = <<>>
  BY <1>2, EmptySeq DEF Arrived
<1>4. outbox = <<>>
  BY <1>1 DEF Inv, OutboxInv
<1> QED
  BY <1>1, <1>2, <1>3, <1>4

(* So does everything the client does with a reply: in each case the reply *)
(* is of the call in progress and was built from what it asked for.        *)
LEMMA HandleReplyInv ==
    ASSUME TypeOK, Inv, HandleReply, TypeOK'
    PROVE  Inv'
<1>1. CASE IgnoreReply
  BY <1>1, ArrivedMeans DEF IgnoreReply
<1>2. CASE ReplyError
  <2>1. queue' = <<>> /\ outbox' = <<>> /\ replies' = <<>> /\ call' = Idle
    BY <1>2, ArrivedMeans DEF ReplyError, Settle
  <2>2. EngineInStep'
    BY <1>2 DEF ReplyError, Inv, EngineInStep
  <2> QED
    BY <2>1, <2>2 DEF Inv, CallInv, QueueInv, OutboxInv, RepliesInv
<1>3. CASE ReplyOk
  <2>1. PICK r \in SeqRange(replies) : Arrived(r) /\ r.kind = "ok"
    BY <1>3 DEF ReplyOk
  <2>2. /\ queue' = <<>> /\ outbox' = <<>> /\ replies' = <<>>
        /\ call # Idle
        /\ call' = Idle
        /\ docState' = docState
    BY <1>3, <2>1, ArrivedMeans DEF ReplyOk, Settle
  <2>3. docState.doc # None =>
          docState.rev = call.rev /\ docState.doc = call.want
    BY <2>1, ArrivedMeans DEF Inv, RepliesInv, Arrived
  <2>4. EngineInStep'
    <3>1. CASE call.phase \in {"first", "resync"}
      BY <1>3, <2>2, <2>3, <3>1
      DEF ReplyOk, EngineInStep, Inv, CallInv
    <3>2. CASE call.phase \notin {"first", "resync"}
      BY <1>3, <2>2, <3>2 DEF ReplyOk, EngineInStep, Inv
    <3> QED
      BY <3>1, <3>2
  <2> QED
    BY <2>2, <2>4 DEF Inv, CallInv, QueueInv, OutboxInv, RepliesInv
<1>4. ASSUME NEW id \in Ids, ReplyResync(id)
      PROVE  Inv'
  <2>1. PICK r \in SeqRange(replies) : Arrived(r)
    BY <1>4 DEF ReplyResync
  <2>2. /\ conn = "up" /\ call # Idle
        /\ queue = <<>> /\ outbox = <<>> /\ replies' = <<>>
    BY <2>1, ArrivedMeans
  <2>3. RepliesInv'
    BY <2>2 DEF RepliesInv
  <2>4. CASE call.phase = "first"
    <3>1. /\ call.doc \in Documents
          /\ revision + 1 \in Revisions
      BY <2>2, <2>4 DEF TypeOK, Calls
    <3>2. PICK m \in Messages : m = Full(id, call.doc, revision + 1)
      BY <3>1, FullType
    <3>3. /\ lastSent' = None
          /\ revision' = revision
          /\ conn' = conn
          /\ call' = Calling("resync", id, call.doc, revision + 1)
          /\ Send(m)
      BY <1>4, <2>4, <3>2 DEF ReplyResync
    <3>4. call' # Idle
      BY <3>3 DEF Calling, Idle
    <3>5. NotStale(m)' /\ OfTheCall(m)' /\ m.alive
      BY <3>1, <3>2, <3>3, <3>4, FullMeans DEF NotStale, OfTheCall, Calling
    <3>6. QueueInv' /\ OutboxInv'
      <4>1. \A i \in 1 .. Len(queue) : ~queue[i].alive
        BY <2>2
      <4>2. \A x \in Messages : NotStale(x) => NotStale(x)'
        BY <3>3 DEF NotStale
      <4> QED
        BY <2>2, <3>3, <3>5, <4>1, <4>2, SendInv
    <3>7. CallInv'
      BY <3>3 DEF CallInv, Calling
    <3> QED
      BY <2>3, <3>3, <3>6, <3>7 DEF Inv, EngineInStep
  <2>5. CASE call.phase # "first"
    <3>1. /\ queue' = <<>> /\ outbox' = <<>> /\ call' = Idle
          /\ UNCHANGED <<lastSent, revision, docState>>
      BY <1>4, <2>2, <2>5 DEF ReplyResync, Settle
    <3> QED
      BY <2>3, <3>1 DEF Inv, CallInv, QueueInv, OutboxInv, EngineInStep
  <2> QED
    BY <2>4, <2>5
<1>5. ASSUME NEW id \in Ids, ReplyUnbacked(id)
      PROVE  Inv'
  <2>1. PICK r \in SeqRange(replies) : Arrived(r) /\ r.kind = "ok"
    BY <1>5 DEF ReplyUnbacked
  <2>2. /\ conn = "up" /\ call # Idle
        /\ queue = <<>> /\ outbox = <<>> /\ replies' = <<>>
        /\ r = replies[1]
    BY <2>1, ArrivedMeans
  <2>3. docState.doc # None => docState.rev = call.rev
    BY <2>1, <2>2 DEF Inv, RepliesInv, Arrived
  <2>4. /\ call.doc \in Documents
        /\ call.rev \in Revisions
        /\ call.rev + 1 \in Revisions
    <3>1. call \in Calls
      BY <2>2 DEF TypeOK
    <3>2. call.doc \in Documents /\ call.rev \in Revisions
      BY <3>1 DEF Calls
    <3> QED
      BY <1>5, <3>2, BoundsAssumption DEF ReplyUnbacked, Revisions
  <2>5. PICK m \in Messages : m = Full(id, call.doc, call.rev + 1)
    BY <2>4, FullType
  <2>6. /\ lastSent' = call.doc
        /\ revision' = call.rev + 1
        /\ conn' = conn
        /\ docState' = docState
        /\ call' = Calling("refetch", id, call.doc, call.rev + 1)
        /\ Send(m)
    BY <1>5, <2>5 DEF ReplyUnbacked
  <2>7. call' # Idle /\ lastSent' # None
    BY <2>4, <2>6, NoDocumentAssumption DEF Calling, Idle
  <2>8. NotStale(m)' /\ OfTheCall(m)' /\ m.alive
    BY <2>4, <2>5, <2>6, <2>7, FullMeans DEF NotStale, OfTheCall, Calling
  <2>9. queue' = <<m>> /\ outbox' = <<>>
    BY <2>2, <2>6 DEF Send
  <2>10. QueueInv' /\ OutboxInv'
    <3>1. DOMAIN queue' = {1} /\ queue'[1] = m /\ Len(queue') = 1
      BY <2>9
    <3>2. conn' = "up"
      BY <2>2, <2>6
    <3>3. NotStale(queue[1])' /\ OfTheCall(queue[1])'
      BY <2>8, <3>1 DEF NotStale, OfTheCall
    <3> QED
      BY <2>9, <3>1, <3>2, <3>3 DEF QueueInv, OutboxInv
  <2>11. CallInv'
    BY <2>6, <2>7 DEF CallInv, Calling
  <2>12. EngineInStep'
    BY <2>3, <2>4, <2>6 DEF EngineInStep, Revisions
  <2>13. RepliesInv'
    BY <2>2 DEF RepliesInv
  <2> QED
    BY <2>10, <2>11, <2>12, <2>13 DEF Inv
<1> QED
  BY <1>1, <1>2, <1>3, <1>4, <1>5 DEF HandleReply
(* No action of the protocol, the network or the worker breaks it.         *)
LEMMA InvStep ==
    ASSUME TypeOK, Inv, [Next]_vars, Admits = {}, TypeOK'
    PROVE  Inv'
<1>1. ASSUME NEW id \in Ids, NEW d \in Documents, StartRebuild(id, d)
      PROVE  Inv'
  <2>1. /\ outbox = <<>> /\ replies = <<>>
        /\ \A i \in 1 .. Len(queue) : ~queue[i].alive
    BY <1>1, IdleMeans DEF StartRebuild
  <2>2. FirstRequest(id, d) \in Messages
    BY <1>1, FirstRequestType DEF StartRebuild, TypeOK
  <2>3. PICK m \in Messages : m = FirstRequest(id, d)
    BY <2>2
  <2>4. /\ call' = Calling("first", id, d, revision + 1)
        /\ Send(m)
        /\ UNCHANGED <<conn, lastSent, revision, replies, docState>>
    BY <1>1, <2>3 DEF StartRebuild
  <2>5. /\ m.alive /\ m.id = id /\ m.doc = Wire(d) /\ m.rev = revision + 1
        /\ m.delta => /\ lastSent # None
                      /\ m.base = revision
                      /\ Patched(Wire(lastSent), m.ops) = m.doc
    BY <1>1, <2>3, FirstRequestMeans DEF StartRebuild, TypeOK
  <2>6. call' # Idle
    BY <2>4 DEF Calling, Idle
  <2>7. NotStale(m)' /\ OfTheCall(m)'
    BY <2>4, <2>5, <2>6 DEF NotStale, OfTheCall, Calling
  <2>8. \A x \in Messages : NotStale(x) => NotStale(x)'
    BY <2>4 DEF NotStale
  <2>9. QueueInv' /\ OutboxInv'
    BY <2>1, <2>4, <2>5, <2>7, <2>8, SendInv
  <2>10. CallInv' /\ RepliesInv' /\ EngineInStep'
    BY <2>1, <2>4 DEF CallInv, Calling, RepliesInv, EngineInStep, Inv
  <2> QED
    BY <2>9, <2>10 DEF Inv
<1>2. ASSUME NEW id \in Ids, NEW d \in Documents, ComputeAll(id, d)
      PROVE  Inv'
  <2>1. /\ outbox = <<>> /\ replies = <<>> /\ call = Idle
        /\ \A i \in 1 .. Len(queue) : ~queue[i].alive
    BY <1>2, IdleMeans DEF ComputeAll
  <2>2. /\ lastSent' = None
        /\ revision' = revision + 1
        /\ UNCHANGED <<conn, replies, docState>>
    BY <1>2 DEF ComputeAll
  <2>3. \A x \in Messages : NotStale(x) => NotStale(x)'
    BY <2>2 DEF NotStale
  <2>4. EngineInStep' /\ RepliesInv'
    BY <2>1, <2>2 DEF EngineInStep, RepliesInv
  <2>5. CASE call' = Calling("all", id, d, revision + 1)
             /\ Send(Full(id, d, revision + 1))
    <3>1. revision + 1 \in Revisions
      BY <2>2 DEF TypeOK
    <3>2. PICK m \in Messages : m = Full(id, d, revision + 1)
      BY <3>1, FullType
    <3>3. call' # Idle
      BY <2>5 DEF Calling, Idle
    <3>4. NotStale(m)' /\ OfTheCall(m)' /\ m.alive
      BY <2>2, <2>5, <3>1, <3>2, <3>3, FullMeans
      DEF NotStale, OfTheCall, Calling
    <3>5. QueueInv' /\ OutboxInv'
      BY <2>1, <2>2, <2>3, <2>5, <3>2, <3>4, SendInv
    <3>6. CallInv'
      BY <2>2, <2>5 DEF CallInv, Calling
    <3> QED
      BY <2>4, <3>5, <3>6 DEF Inv
  <2>6. CASE UNCHANGED <<call, queue, outbox, answer>>
    <3>1. QueueInv'
      <4>1. DOMAIN queue = 1 .. Len(queue)
        BY LenProperties DEF TypeOK
      <4> QED
        BY <2>1, <2>2, <2>6, <4>1 DEF QueueInv, NotStale
    <3>2. CallInv' /\ OutboxInv'
      BY <2>1, <2>6 DEF CallInv, OutboxInv
    <3> QED
      BY <2>4, <3>1, <3>2 DEF Inv
  <2> QED
    BY <1>2, <2>5, <2>6 DEF ComputeAll
<1>3. ASSUME NEW id \in Ids, NEW d \in Documents, Connect(id, d)
      PROVE  Inv'
  <2>1. /\ conn = "down" /\ conn' = "up" /\ outbox' = <<>>
        /\ UNCHANGED <<lastSent, revision, replies, docState>>
    BY <1>3 DEF Connect
  <2>2. replies = <<>> /\ RepliesInv' /\ OutboxInv' /\ EngineInStep'
    BY <2>1 DEF Inv, RepliesInv, OutboxInv, EngineInStep
  <2>3. /\ Len(queue) \in Nat /\ queue \in Seq(Messages)
        /\ DOMAIN queue = 1 .. Len(queue)
        /\ \A i \in 1 .. Len(queue) : queue[i] \in Messages
        /\ outbox \in Seq(Messages)
    BY LenProperties, ElementOfSeq DEF TypeOK
  <2>4. \A i \in 1 .. Len(queue) : NotStale(queue[i]) /\ ~queue[i].alive
    BY <2>1, <2>3 DEF Inv, QueueInv
  <2>5. ASSUME NEW m \in Messages, queue' = Append(queue, m),
               NotStale(m)', OfTheCall(m)'
        PROVE  QueueInv'
    <3>1. /\ Len(queue') = Len(queue) + 1
          /\ DOMAIN queue' = 1 .. Len(queue) + 1
          /\ \A i \in 1 .. Len(queue) : queue'[i] = queue[i]
          /\ queue'[Len(queue) + 1] = m
      BY <2>3, <2>5, AppendProperties, LenProperties DEF TypeOK
    <3>2. ASSUME NEW i \in DOMAIN queue'
          PROVE  /\ NotStale(queue[i])'
                 /\ queue'[i].alive =>
                      conn' = "up" /\ i = Len(queue') /\ OfTheCall(queue[i])'
      <4>1. CASE i \in 1 .. Len(queue)
        BY <2>1, <2>4, <3>1, <4>1 DEF NotStale
      <4>2. CASE i = Len(queue) + 1
        BY <2>1, <2>5, <3>1, <4>2 DEF NotStale, OfTheCall
      <4> QED
        BY <2>3, <3>1, <4>1, <4>2
    <3> QED
      BY <3>2 DEF QueueInv
  <2>6. CASE call # Idle
    <3>1. queue' = queue \o outbox /\ call' = call
      BY <1>3, <2>6 DEF Connect
    <3>2. CallInv'
      BY <2>1, <3>1 DEF Inv, CallInv
    <3>3. CASE outbox = <<>>
      <4>1. queue' = queue
        BY <2>3, <3>1, <3>3, ConcatEmptySeq
      <4>2. QueueInv'
        BY <2>1, <2>3, <2>4, <4>1 DEF QueueInv, NotStale
      <4> QED
        BY <2>2, <3>2, <4>2 DEF Inv
    <3>4. CASE outbox # <<>>
      <4>1. /\ Len(outbox) = 1
            /\ NotStale(outbox[1])
            /\ OfTheCall(outbox[1])
        BY <3>4 DEF Inv, OutboxInv
      <4>2. PICK m \in Messages : m = outbox[1]
        <5>1. 1 \in 1 .. Len(outbox)
          BY <4>1
        <5> QED
          BY <2>3, <5>1, ElementOfSeq
      <4>3. outbox = <<m>>
        BY <2>3, <4>1, <4>2
      <4>4. queue' = Append(queue, m)
        BY <2>3, <3>1, <4>3, AppendIsConcat
      <4>5. NotStale(m)' /\ OfTheCall(m)'
        BY <2>1, <3>1, <4>1, <4>2 DEF NotStale, OfTheCall
      <4> QED
        BY <2>2, <2>5, <3>2, <4>4, <4>5 DEF Inv
    <3> QED
      BY <3>3, <3>4
  <2>7. CASE call = Idle
    <3>1. /\ revision < MaxRevision
          /\ Askable(d)
          /\ call' = Calling("first", id, d, revision + 1)
          /\ queue' = Append(queue, FirstRequest(id, d)) \o outbox
      BY <1>3, <2>7 DEF Connect
    <3>2. FirstRequest(id, d) \in Messages
      BY <3>1, FirstRequestType DEF TypeOK
    <3>3. PICK m \in Messages : m = FirstRequest(id, d)
      BY <3>2
    <3>4. queue' = Append(queue, m)
      BY <2>3, <2>7, <3>1, <3>3, IdleMeans, AppendProperties, ConcatEmptySeq
    <3>5. /\ m.id = id /\ m.doc = Wire(d) /\ m.rev = revision + 1
          /\ m.delta => /\ lastSent # None
                        /\ m.base = revision
                        /\ Patched(Wire(lastSent), m.ops) = m.doc
      BY <3>1, <3>3, FirstRequestMeans DEF TypeOK
    <3>6. call' # Idle
      BY <3>1 DEF Calling, Idle
    <3>7. NotStale(m)' /\ OfTheCall(m)'
      BY <2>1, <3>1, <3>5, <3>6 DEF NotStale, OfTheCall, Calling
    <3>8. CallInv'
      BY <2>1, <3>1 DEF CallInv, Calling
    <3> QED
      BY <2>2, <2>5, <3>4, <3>7, <3>8 DEF Inv
  <2> QED
    BY <2>6, <2>7
<1>4. CASE ConnectFail
  BY <1>4 DEF ConnectFail
<1>5. CASE Drop
  <2>1. QueueInv'
    BY <1>5, DropInv
  <2>2. /\ conn' = "down" /\ call' = Idle /\ replies' = <<>>
        /\ outbox' = outbox
        /\ conn = "up"
        /\ UNCHANGED <<lastSent, revision, docState>>
    BY <1>5 DEF Drop, AfterClose
  <2>3. outbox = <<>>
    BY <2>2 DEF Inv, OutboxInv
  <2> QED
    BY <2>1, <2>2, <2>3
    DEF Inv, CallInv, OutboxInv, RepliesInv, EngineInStep
<1>6. CASE EngineDies
  <2>1. /\ queue' = <<>> /\ replies' = <<>> /\ docState' = NoState
        /\ conn' = "down"
        /\ UNCHANGED <<outbox, lastSent, revision>>
    BY <1>6 DEF EngineDies
  <2>2. CASE conn = "up"
    <3>1. outbox = <<>> /\ call' = Idle
      BY <1>6, <2>2 DEF Inv, OutboxInv, EngineDies, AfterClose
    <3> QED
      BY <2>1, <3>1
      DEF Inv, CallInv, QueueInv, OutboxInv, RepliesInv, EngineInStep, NoState
  <2>3. CASE conn # "up"
    <3>1. call' = call
      BY <1>6, <2>3 DEF EngineDies
    <3>2. CallInv' /\ OutboxInv'
      BY <2>1, <3>1 DEF Inv, CallInv, OutboxInv, NotStale, OfTheCall
    <3> QED
      BY <2>1, <3>2 DEF Inv, QueueInv, RepliesInv, EngineInStep, NoState
  <2> QED
    BY <2>2, <2>3
<1>7. CASE Process
  BY <1>7, ProcessInv
<1>8. CASE WorkerLost
  BY <1>8, WorkerLostInv
<1>9. CASE Refuse
  BY <1>9, RefuseInv
<1>10. ASSUME NEW d \in WireDocs, AgentRebuild(d)
       PROVE  Inv'
  BY <1>10 DEF AgentRebuild
<1>11. CASE HandleReply
  BY <1>11, HandleReplyInv
<1>12. ASSUME NEW ref \in Refs, NEW val \in Vals, EditInPlace(ref, val)
       PROVE  Inv'
  BY <1>12 DEF EditInPlace
<1>13. CASE UNCHANGED vars
  BY <1>13 DEF vars, Inv, CallInv, QueueInv, OutboxInv, RepliesInv,
     EngineInStep, NotStale, OfTheCall
<1> QED
  BY <1>1, <1>2, <1>3, <1>4, <1>5, <1>6, <1>7, <1>8, <1>9, <1>10, <1>11,
     <1>12, <1>13 DEF Next, Redial, Reconnect

(* The invariant holds at the start, when there is nothing in flight. *)
LEMMA InvInit == Init => Inv
BY DEF Init, Inv, CallInv, QueueInv, OutboxInv, RepliesInv, EngineInStep

(* With nothing else admitted, the invariant holds in every reachable      *)
(* state.                                                                  *)
THEOREM Invariance == ASSUME Admits = {} PROVE Spec => []IInv
<1>1. Init => IInv
  BY TypeInit, InvInit DEF IInv
<1>2. IInv /\ [Next]_vars => IInv'
  BY TypeStep, InvStep DEF IInv
<1> QED
  BY <1>1, <1>2, PTL DEF Spec

(* Whatever is in flight, in the outbox or on its way back, is what the    *)
(* call in progress asked for, or cannot reach the client's revision.      *)
THEOREM WireInv == ASSUME Admits = {} PROVE Spec => []Inv
<1>1. IInv => Inv
  BY DEF IInv
<1> QED
  BY <1>1, Invariance, PTL

(* The client and the worker never disagree in silence: a worker that      *)
(* holds a document under the client's revision holds the one the client   *)
(* believes it holds.                                                      *)
THEOREM InStep == ASSUME Admits = {} PROVE Spec => []EngineInStep
<1>1. IInv => EngineInStep
  BY DEF IInv, Inv
<1> QED
  BY <1>1, Invariance, PTL
-----------------------------------------------------------------------------
(* Seen by its callers the engine is stateless.                            *)

(* What the callers see of a step that only moves things along. *)
LEMMA Stutters ==
    ASSUME call' = call \/ call'.want = call.want, answer' = answer
    PROVE  [Stateless!AbsNext]_(Stateless!absVars)
BY DEF Stateless!absVars

(* A call begins, with nothing asked for before. *)
LEMMA Asks ==
    ASSUME NEW phase, NEW id, NEW rev, NEW d \in Documents,
           call = Idle, call' = Calling(phase, id, d, rev), answer' = None
    PROVE  [Stateless!AbsNext]_(Stateless!absVars)
<1>1. call.want = None /\ call'.want = Wire(d)
  BY DEF Idle, Calling
<1>2. Wire(d) \in WireDocs
  BY WireFacts
<1>3. Stateless!Ask(Wire(d))
  BY <1>1 DEF Stateless!Ask
<1> QED
  BY <1>2, <1>3 DEF Stateless!AbsNext

(* A call is settled, and without an answer that is a refusal. *)
LEMMA Refuses ==
    ASSUME TypeOK, call' = Idle, answer' = answer
    PROVE  [Stateless!AbsNext]_(Stateless!absVars)
<1>1. CASE call = Idle
  BY <1>1, Stutters
<1>2. CASE call # Idle
  <2>1. call.want \in WireDocs
    BY <1>2 DEF TypeOK, Calls
  <2>2. call.want # None /\ call'.want = None
    BY <2>1, NoDocumentAssumption DEF Idle
  <2>3. Stateless!Refuse
    BY <2>2 DEF Stateless!Refuse
  <2> QED
    BY <2>3 DEF Stateless!AbsNext
<1> QED
  BY <1>1, <1>2

(* Every step of the protocol is a step of the stateless engine or hidden  *)
(* from it: this is the refinement, one step at a time.                    *)
LEMMA StepMaps ==
    ASSUME IInv, [Next]_vars, Admits = {}
    PROVE  [Stateless!AbsNext]_(Stateless!absVars)
<1> USE DEF IInv
<1>1. ASSUME NEW id \in Ids, NEW d \in Documents, StartRebuild(id, d)
      PROVE  [Stateless!AbsNext]_(Stateless!absVars)
  BY <1>1, Asks DEF StartRebuild
<1>2. ASSUME NEW id \in Ids, NEW d \in Documents, ComputeAll(id, d)
      PROVE  [Stateless!AbsNext]_(Stateless!absVars)
  <2>1. CASE UNCHANGED <<call, queue, outbox, answer>>
    BY <2>1, Stutters
  <2>2. CASE call' = Calling("all", id, d, revision + 1) /\ answer' = None
    BY <1>2, <2>2, Asks DEF ComputeAll
  <2> QED
    BY <1>2, <2>1, <2>2 DEF ComputeAll
<1>3. ASSUME NEW id \in Ids, NEW d \in Documents, Connect(id, d)
      PROVE  [Stateless!AbsNext]_(Stateless!absVars)
  <2>1. CASE call' = call /\ answer' = answer
    BY <2>1, Stutters
  <2>2. CASE /\ call = Idle
             /\ call' = Calling("first", id, d, revision + 1)
             /\ answer' = None
    BY <2>2, Asks
  <2> QED
    BY <1>3, <2>1, <2>2 DEF Connect
<1>4. CASE ConnectFail
  BY <1>4 DEF ConnectFail
<1>5. CASE Drop
  BY <1>5, Refuses DEF Drop, AfterClose
<1>6. CASE EngineDies
  <2>1. CASE call' = Idle
    BY <1>6, <2>1, Refuses DEF EngineDies
  <2>2. CASE call' = call
    BY <1>6, <2>2, Stutters DEF EngineDies
  <2> QED
    BY <1>6, <2>1, <2>2 DEF EngineDies, AfterClose
<1>7. CASE Process
  BY <1>7, Stutters DEF Process, client
<1>8. CASE WorkerLost
  BY <1>8, Stutters DEF WorkerLost, client
<1>9. CASE Refuse
  BY <1>9, Stutters DEF Refuse, client
<1>10. ASSUME NEW d \in WireDocs, AgentRebuild(d)
       PROVE  [Stateless!AbsNext]_(Stateless!absVars)
  BY <1>10 DEF AgentRebuild
<1>11. CASE HandleReply
  <2>1. CASE IgnoreReply
    BY <2>1, Stutters DEF IgnoreReply, client
  <2>2. CASE ReplyError
    BY <2>2, Refuses DEF ReplyError, Settle
  <2>3. CASE ReplyOk
    <3>1. PICK r \in SeqRange(replies) :
            Arrived(r) /\ r.kind = "ok" /\ answer' = r.built
      BY <2>3 DEF ReplyOk
    <3>2. call # Idle /\ r = replies[1] /\ replies # <<>>
      BY <3>1, ArrivedMeans DEF Arrived
    <3>3. answer' = call.want
      BY <3>1, <3>2 DEF Inv, RepliesInv
    <3>4. call.want \in WireDocs
      BY <3>2 DEF TypeOK, Calls
    <3>5. call.want # None /\ call'.want = None
      BY <2>3, <3>4, NoDocumentAssumption DEF ReplyOk, Settle, Idle
    <3>6. Stateless!Answer
      BY <3>3, <3>5 DEF Stateless!Answer
    <3> QED
      BY <3>6 DEF Stateless!AbsNext
  <2>4. ASSUME NEW id \in Ids, ReplyResync(id)
        PROVE  [Stateless!AbsNext]_(Stateless!absVars)
    <3>1. CASE call.phase = "first"
      <4>1. call'.want = Wire(call.doc)
        BY <2>4, <3>1 DEF ReplyResync, Calling
      <4>2. call.want = Wire(call.doc)
        BY <3>1 DEF Inv, CallInv, Idle
      <4> QED
        BY <2>4, <4>1, <4>2, Stutters DEF ReplyResync
    <3>2. CASE call.phase # "first"
      BY <2>4, <3>2, Refuses DEF ReplyResync, Settle
    <3> QED
      BY <3>1, <3>2
  <2>5. ASSUME NEW id \in Ids, ReplyUnbacked(id)
        PROVE  [Stateless!AbsNext]_(Stateless!absVars)
    <3>1. call'.want = Wire(call.doc)
      BY <2>5 DEF ReplyUnbacked, Calling
    <3>2. call.want = Wire(call.doc)
      BY <2>5 DEF ReplyUnbacked, Inv, CallInv, Idle
    <3> QED
      BY <2>5, <3>1, <3>2, Stutters DEF ReplyUnbacked
  <2> QED
    BY <1>11, <2>1, <2>2, <2>3, <2>4, <2>5 DEF HandleReply
<1>12. ASSUME NEW ref \in Refs, NEW val \in Vals, EditInPlace(ref, val)
       PROVE  [Stateless!AbsNext]_(Stateless!absVars)
  BY <1>12 DEF EditInPlace
<1>13. CASE UNCHANGED vars
  BY <1>13, Stutters DEF vars
<1> QED
  BY <1>1, <1>2, <1>3, <1>4, <1>5, <1>6, <1>7, <1>8, <1>9, <1>10, <1>11,
     <1>12, <1>13 DEF Next, Redial, Reconnect

(* Every call is answered with the build of the document it asked for, or  *)
(* not at all: deltas, resyncs and crashes never show.                     *)
THEOREM ImplementsStateless ==
    ASSUME Admits = {} PROVE Spec => AnswersAsStateless
<1>1. Init => Stateless!AbsInit
  BY DEF Init, Idle, Stateless!AbsInit
<1>2. IInv /\ [Next]_vars => [Stateless!AbsNext]_(Stateless!absVars)
  BY StepMaps
<1> QED
  BY <1>1, <1>2, Invariance, PTL
  DEF Spec, AnswersAsStateless, Stateless!AbsSpec
-----------------------------------------------------------------------------
(* The worker holds what was meant.                                        *)

(* Two requests that differ at most in who waits for them. *)
Alike(m, n) ==
    /\ m.delta = n.delta /\ m.base = n.base
    /\ m.rev = n.rev /\ m.doc = n.doc /\ m.ops = n.ops

(* A line that some requests have left, at the front or at the back, is    *)
(* still in order, and also when the worker is lost.                       *)
LEMMA Shortened ==
    ASSUME NEW line, NEW rest, NEW held, NEW k \in Nat, NEW n \in Nat,
           NEW l \in Nat,
           InOrder(line, held),
           DOMAIN line = 1 .. n, DOMAIN rest = 1 .. l,
           \A i \in 1 .. l : i + k \in 1 .. n /\ Alike(rest[i], line[i + k])
    PROVE  InOrder(rest, held) /\ InOrder(rest, NoState)
<1>1. ASSUME NEW i \in 1 .. l, NEW j \in 1 .. i - 1
      PROVE  Means(rest[i], rest[j])
  <2>1. j \in 1 .. l /\ j + k \in 1 .. (i + k) - 1
    OBVIOUS
  <2>2. Means(line[i + k], line[j + k])
    BY <2>1 DEF InOrder
  <2> QED
    BY <2>1, <2>2 DEF Means, Alike
<1>2. ASSUME NEW i \in 1 .. l, held.doc # None
      PROVE  Means(rest[i], held)
  <2>1. Means(line[i + k], held)
    BY <1>2 DEF InOrder
  <2> QED
    BY <2>1 DEF Means, Alike
<1> QED
  BY <1>1, <1>2 DEF InOrder, NoState

(* A request joins the end of the line. *)
LEMMA Lengthened ==
    ASSUME NEW line \in Seq(Messages), NEW held, NEW m \in Messages,
           InOrder(line, held),
           held.doc # None => Means(m, held),
           \A j \in 1 .. Len(line) : Means(m, line[j])
    PROVE  InOrder(Append(line, m), held)
<1> DEFINE longer == Append(line, m)
<1>1. /\ Len(line) \in Nat
      /\ DOMAIN line = 1 .. Len(line)
      /\ DOMAIN longer = 1 .. Len(line) + 1
      /\ \A i \in 1 .. Len(line) : longer[i] = line[i]
      /\ longer[Len(line) + 1] = m
  BY AppendProperties, LenProperties
<1> HIDE DEF longer
<1>2. ASSUME NEW i \in DOMAIN longer, i # Len(line) + 1
      PROVE  /\ held.doc # None => Means(longer[i], held)
             /\ \A j \in 1 .. i - 1 : Means(longer[i], longer[j])
  <2>1. i \in 1 .. Len(line) /\ \A j \in 1 .. i - 1 : j \in 1 .. Len(line)
    BY <1>1, <1>2
  <2> QED
    BY <1>1, <2>1 DEF InOrder
<1>3. \A j \in 1 .. (Len(line) + 1) - 1 :
          Means(longer[Len(line) + 1], longer[j])
  BY <1>1
<1>4. InOrder(longer, held)
  BY <1>1, <1>2, <1>3 DEF InOrder
<1> QED
  BY <1>4 DEF longer

(* The head of a line in order leaves the worker with what it held, with   *)
(* nothing, or with the document it was made for.                          *)
LEMMA AdoptedIsMeant ==
    ASSUME NEW held \in StateSet, NEW m \in Messages,
           held.doc # None => Means(m, held)
    PROVE  \/ Adopted(held, m) = held
           \/ Adopted(held, m).doc = None
           \/ Adopted(held, m) = [rev |-> m.rev, doc |-> m.doc]
<1>1. CASE ~m.delta
  BY <1>1 DEF Adopted
<1>2. CASE m.delta /\ NotHeld(held, m)
  BY <1>2 DEF Adopted
<1>3. CASE m.delta /\ ~NotHeld(held, m)
  <2>1. Patched(held.doc, m.ops) = m.doc
    BY <1>3 DEF NotHeld, Means
  <2> QED
    BY <1>3, <2>1 DEF Adopted, StateSet
<1> QED
  BY <1>1, <1>2, <1>3

(* The line, read at the queue and then at the outbox. *)
LEMMA LineFacts ==
    ASSUME NEW q \in Seq(Messages), NEW o \in Seq(Messages)
    PROVE  /\ q \o o \in Seq(Messages)
           /\ Len(q) \in Nat /\ Len(o) \in Nat
           /\ Len(q \o o) = Len(q) + Len(o)
           /\ DOMAIN (q \o o) = 1 .. Len(q) + Len(o)
           /\ \A i \in 1 .. Len(q) : (q \o o)[i] = q[i]
           /\ \A i \in 1 .. Len(o) : (q \o o)[Len(q) + i] = o[i]
<1>1. q \o o \in Seq(Messages)
  BY ConcatProperties
<1>2. /\ Len(q) \in Nat /\ Len(o) \in Nat
      /\ Len(q \o o) = Len(q) + Len(o)
      /\ \A i \in 1 .. Len(q) + Len(o) :
            (q \o o)[i] = IF i <= Len(q) THEN q[i] ELSE o[i - Len(q)]
  BY ConcatProperties, LenProperties
<1>3. DOMAIN (q \o o) = 1 .. Len(q) + Len(o)
  BY <1>1, <1>2, LenProperties
<1>4. ASSUME NEW i \in 1 .. Len(o)
      PROVE  (q \o o)[Len(q) + i] = o[i]
  <2>1. /\ Len(q) + i \in 1 .. Len(q) + Len(o)
        /\ ~(Len(q) + i <= Len(q))
        /\ (Len(q) + i) - Len(q) = i
    BY <1>2
  <2> QED
    BY <1>2, <2>1
<1>5. \A i \in 1 .. Len(q) : (q \o o)[i] = q[i]
  BY <1>2
<1> QED
  BY <1>1, <1>2, <1>3, <1>4, <1>5

(* A delta the client sends now suits whatever may be held when it runs:   *)
(* everything of the client's revision is the document last sent.          *)
LEMMA NewDeltaMeans ==
    ASSUME TypeOK, Inv, NEW m \in Messages,
           m.delta => /\ lastSent # None
                      /\ m.base = revision
                      /\ Patched(Wire(lastSent), m.ops) = m.doc
    PROVE  /\ docState.doc # None => Means(m, docState)
           /\ \A j \in 1 .. Len(Line) : Means(m, Line[j])
<1>1. docState.doc # None => Means(m, docState)
  BY DEF Means, Inv, EngineInStep
<1>2. ASSUME NEW x \in Messages, NotStale(x)
      PROVE  Means(m, x)
  BY <1>2 DEF NotStale, Means, TypeOK, Revisions
<1>3. ASSUME NEW j \in 1 .. Len(Line)
      PROVE  Line[j] \in Messages /\ NotStale(Line[j])
  <2>1. queue \in Seq(Messages) /\ outbox \in Seq(Messages)
    BY DEF TypeOK
  <2>2. /\ Len(queue) \in Nat /\ Len(outbox) \in Nat
        /\ Len(Line) = Len(queue) + Len(outbox)
        /\ \A i \in 1 .. Len(queue) : Line[i] = queue[i]
        /\ \A i \in 1 .. Len(outbox) : Line[Len(queue) + i] = outbox[i]
    BY <2>1, LineFacts DEF Line
  <2>3. CASE j \in 1 .. Len(queue)
    <3>1. j \in DOMAIN queue /\ queue[j] \in Messages
      BY <2>1, <2>3, LenProperties, ElementOfSeq
    <3>2. NotStale(queue[j])
      BY <3>1 DEF Inv, QueueInv
    <3> QED
      BY <2>2, <2>3, <3>1, <3>2
  <2>4. CASE j \notin 1 .. Len(queue)
    <3>1. PICK i \in 1 .. Len(outbox) : j = Len(queue) + i
      <4>1. j - Len(queue) \in 1 .. Len(outbox)
            /\ j = Len(queue) + (j - Len(queue))
        BY <2>2, <2>4
      <4> QED
        BY <4>1
    <3>2. outbox # <<>>
      BY <3>1, <2>2
    <3>3. i = 1 /\ outbox[i] \in Messages
      BY <2>1, <3>1, <3>2, ElementOfSeq DEF Inv, OutboxInv
    <3>4. NotStale(outbox[i])
      BY <3>2, <3>3 DEF Inv, OutboxInv
    <3> QED
      BY <2>2, <3>1, <3>3, <3>4
  <2> QED
    BY <2>3, <2>4
<1> QED
  BY <1>1, <1>2, <1>3

(* A request sent while nothing waits for a socket is the end of the line. *)
LEMMA SendMeant ==
    ASSUME TypeOK, Inv, DeltasInv, outbox = <<>>, docState' = docState,
           NEW m \in Messages, Send(m),
           m.delta => /\ lastSent # None
                      /\ m.base = revision
                      /\ Patched(Wire(lastSent), m.ops) = m.doc
    PROVE  DeltasInv'
<1>1. queue \in Seq(Messages) /\ <<>> \in Seq(Messages)
  BY EmptySeq DEF TypeOK
<1>2. Append(queue, m) \in Seq(Messages) /\ Append(queue, m) = queue \o <<m>>
  BY <1>1, AppendProperties, AppendIsConcat
<1>3. Line = queue
  BY <1>1, ConcatEmptySeq DEF Line
<1>4. Line' = Append(queue, m)
  <2>1. CASE conn = "up"
    <3>1. queue' = Append(queue, m) /\ outbox' = <<>>
      BY <2>1 DEF Send
    <3> QED
      BY <1>2, <3>1, ConcatEmptySeq DEF Line
  <2>2. CASE conn # "up"
    <3>1. queue' = queue /\ outbox' = Append(<<>>, m)
      BY <2>2 DEF Send
    <3>2. outbox' = <<m>>
      BY <3>1
    <3> QED
      BY <1>2, <3>1, <3>2 DEF Line
  <2> QED
    BY <2>1, <2>2
<1>5. InOrder(queue, docState)
  BY <1>3 DEF DeltasInv
<1>6. /\ docState.doc # None => Means(m, docState)
      /\ \A j \in 1 .. Len(queue) : Means(m, queue[j])
  BY <1>3, NewDeltaMeans
<1>7. InOrder(Append(queue, m), docState)
  BY <1>1, <1>5, <1>6, Lengthened
<1> QED
  BY <1>4, <1>7 DEF DeltasInv

(* The front of the line has left and the rest has moved up.               *)
LEMMA Front ==
    ASSUME TypeOK, DeltasInv, outbox' = outbox, queue' \in Seq(Messages),
           NEW k \in 0 .. Len(queue),
           Len(queue') = Len(queue) - k,
           \A i \in 1 .. Len(queue) - k : queue'[i] = queue[i + k]
    PROVE  /\ InOrder(Line', docState) /\ InOrder(Line', NoState)
           /\ \A i \in DOMAIN Line' : i + k \in DOMAIN Line
                                      /\ Line'[i] = Line[i + k]
<1>1. queue \in Seq(Messages) /\ outbox \in Seq(Messages)
  BY DEF TypeOK
<1>2. /\ Len(queue) \in Nat /\ Len(outbox) \in Nat
      /\ DOMAIN Line = 1 .. Len(queue) + Len(outbox)
      /\ \A i \in 1 .. Len(queue) : Line[i] = queue[i]
      /\ \A i \in 1 .. Len(outbox) : Line[Len(queue) + i] = outbox[i]
  BY <1>1, LineFacts DEF Line
<1> DEFINE rest == queue' \o outbox
           l == Len(queue) - k
<1>3. /\ l \in Nat
      /\ DOMAIN rest = 1 .. l + Len(outbox)
      /\ \A i \in 1 .. l : rest[i] = queue'[i]
      /\ \A i \in 1 .. Len(outbox) : rest[l + i] = outbox[i]
  <2>1. PICK q \in Seq(Messages) : q = queue'
    OBVIOUS
  <2>2. Len(q) = l /\ rest = q \o outbox
    BY <2>1
  <2> HIDE DEF rest, l
  <2>3. /\ Len(q) \in Nat
        /\ DOMAIN rest = 1 .. Len(q) + Len(outbox)
        /\ \A i \in 1 .. Len(q) : rest[i] = q[i]
        /\ \A i \in 1 .. Len(outbox) : rest[Len(q) + i] = outbox[i]
    BY <1>1, <2>2, LineFacts
  <2> QED
    BY <2>1, <2>2, <2>3
<1>4. Line' = rest
  BY DEF Line
<1> HIDE DEF rest
<1>5. ASSUME NEW i \in 1 .. l + Len(outbox)
      PROVE  /\ i + k \in 1 .. Len(queue) + Len(outbox)
             /\ rest[i] = Line[i + k]
  <2>1. i + k \in 1 .. Len(queue) + Len(outbox)
    BY <1>2
  <2>2. CASE i \in 1 .. l
    <3>1. i + k \in 1 .. Len(queue)
      BY <1>2, <2>2
    <3> QED
      BY <1>2, <1>3, <2>1, <2>2, <3>1
  <2>3. CASE i \notin 1 .. l
    <3>1. /\ i - l \in 1 .. Len(outbox)
          /\ l + (i - l) = i
          /\ Len(queue) + (i - l) = i + k
      BY <1>2, <1>3, <2>3
    <3>2. rest[l + (i - l)] = outbox[i - l]
          /\ Line[Len(queue) + (i - l)] = outbox[i - l]
      BY <1>2, <1>3, <3>1
    <3> QED
      BY <2>1, <3>1, <3>2
  <2> QED
    BY <2>2, <2>3
<1>6. \A i \in 1 .. l + Len(outbox) : Alike(rest[i], Line[i + k])
  BY <1>5 DEF Alike
<1>7. /\ k \in Nat /\ l + Len(outbox) \in Nat
      /\ Len(queue) + Len(outbox) \in Nat
  BY <1>2, <1>3
<1>8. InOrder(rest, docState) /\ InOrder(rest, NoState)
  <2> DEFINE n == Len(queue) + Len(outbox)
             r == l + Len(outbox)
  <2>1. /\ n \in Nat /\ r \in Nat /\ k \in Nat
        /\ DOMAIN Line = 1 .. n /\ DOMAIN rest = 1 .. r
        /\ \A i \in 1 .. r : i + k \in 1 .. n /\ Alike(rest[i], Line[i + k])
        /\ InOrder(Line, docState)
    BY <1>2, <1>3, <1>5, <1>6, <1>7 DEF DeltasInv
  <2> HIDE DEF n, r, l
  <2> QED
    BY <2>1, Shortened
<1> QED
  BY <1>2, <1>3, <1>4, <1>5, <1>8

(* Every step keeps the line in order. *)
LEMMA DeltasStep ==
    ASSUME TypeOK, Inv, DeltasInv, [Next]_vars, Admits = {}, TypeOK'
    PROVE  DeltasInv'
<1>a. /\ queue \in Seq(Messages) /\ outbox \in Seq(Messages)
      /\ Len(queue) \in Nat
      /\ DOMAIN queue = 1 .. Len(queue)
      /\ \A i \in 1 .. Len(queue) : queue[i] \in Messages
      /\ queue' \in Seq(Messages)
  BY LenProperties, ElementOfSeq DEF TypeOK
<1>b. ASSUME replies # <<>>
      PROVE  outbox = <<>>
  BY <1>b DEF Inv, RepliesInv, OutboxInv
<1>c. ASSUME UNCHANGED <<queue, outbox, docState>>
      PROVE  DeltasInv'
  BY <1>c DEF DeltasInv, Line
<1>1. ASSUME NEW id \in Ids, NEW d \in Documents, StartRebuild(id, d)
      PROVE  DeltasInv'
  <2>1. outbox = <<>>
    BY <1>1, IdleMeans DEF StartRebuild
  <2>2. PICK m \in Messages : m = FirstRequest(id, d)
    BY <1>1, FirstRequestType DEF StartRebuild, TypeOK
  <2>3. Send(m) /\ docState' = docState
    BY <1>1, <2>2 DEF StartRebuild
  <2>4. m.delta => /\ lastSent # None
                   /\ m.base = revision
                   /\ Patched(Wire(lastSent), m.ops) = m.doc
    BY <1>1, <2>2, FirstRequestMeans DEF StartRebuild, TypeOK
  <2> QED
    BY <2>1, <2>3, <2>4, SendMeant
<1>2. ASSUME NEW id \in Ids, NEW d \in Documents, ComputeAll(id, d)
      PROVE  DeltasInv'
  <2>1. outbox = <<>> /\ docState' = docState
    BY <1>2, IdleMeans DEF ComputeAll
  <2>2. CASE Send(Full(id, d, revision + 1))
    <3>1. revision + 1 \in Revisions
      BY <1>2 DEF ComputeAll, TypeOK
    <3>2. PICK m \in Messages : m = Full(id, d, revision + 1)
      BY <3>1, FullType
    <3>3. ~m.delta
      BY <3>1, <3>2, FullMeans
    <3> QED
      BY <2>1, <2>2, <3>2, <3>3, SendMeant
  <2>3. CASE UNCHANGED <<call, queue, outbox, answer>>
    BY <2>1, <2>3, <1>c
  <2> QED
    BY <1>2, <2>2, <2>3 DEF ComputeAll
<1>3. ASSUME NEW id \in Ids, NEW d \in Documents, Connect(id, d)
      PROVE  DeltasInv'
  <2>1. outbox' = <<>> /\ docState' = docState
    BY <1>3 DEF Connect
  <2>2. Line' = queue'
    BY <1>a, <2>1, ConcatEmptySeq DEF Line
  <2>3. CASE call # Idle
    <3>1. queue' = Line
      BY <1>3, <2>3 DEF Connect, Line
    <3> QED
      BY <2>1, <2>2, <3>1 DEF DeltasInv
  <2>4. CASE call = Idle
    <3>1. /\ revision < MaxRevision /\ Askable(d)
          /\ queue' = Append(queue, FirstRequest(id, d)) \o outbox
          /\ outbox = <<>>
      BY <1>3, <2>4, IdleMeans DEF Connect
    <3>2. PICK m \in Messages : m = FirstRequest(id, d)
      BY <3>1, FirstRequestType DEF TypeOK
    <3>3. m.delta => /\ lastSent # None
                     /\ m.base = revision
                     /\ Patched(Wire(lastSent), m.ops) = m.doc
      BY <3>1, <3>2, FirstRequestMeans DEF TypeOK
    <3>4. queue' = Append(queue, m) /\ Line = queue
      BY <1>a, <3>1, <3>2, AppendProperties, ConcatEmptySeq DEF Line
    <3>5. /\ docState.doc # None => Means(m, docState)
          /\ \A j \in 1 .. Len(queue) : Means(m, queue[j])
      BY <3>3, <3>4, NewDeltaMeans
    <3>6. InOrder(Append(queue, m), docState)
      BY <1>a, <3>4, <3>5, Lengthened DEF DeltasInv
    <3> QED
      BY <2>1, <2>2, <3>4, <3>6 DEF DeltasInv
  <2> QED
    BY <2>3, <2>4
<1>4. CASE ConnectFail
  BY <1>4 DEF ConnectFail
<1>5. CASE Drop
  <2>1. outbox = <<>> /\ outbox' = <<>> /\ docState' = docState
    BY <1>5 DEF Drop, Inv, OutboxInv
  <2>2. Line = queue /\ Line' = queue'
    BY <1>a, <2>1, ConcatEmptySeq DEF Line
  <2>3. PICK k \in 0 .. Len(queue) :
          queue' = [i \in 1 .. k |-> [queue[i] EXCEPT !.alive = FALSE]]
    BY <1>5 DEF Drop
  <2>4. ASSUME NEW i \in 1 .. k
        PROVE  i + 0 \in 1 .. Len(queue) /\ Alike(queue'[i], queue[i + 0])
    <3>1. i \in 1 .. Len(queue) /\ i + 0 = i
      BY <1>a
    <3>2. queue'[i] = [queue[i] EXCEPT !.alive = FALSE]
      BY <2>3
    <3> QED
      BY <1>a, <3>1, <3>2 DEF Alike, Messages
  <2>5. InOrder(queue, docState)
    BY <2>2 DEF DeltasInv
  <2>6. DOMAIN queue' = 1 .. k /\ k \in Nat /\ 0 \in Nat
    BY <1>a, <2>3
  <2> DEFINE rest == queue'
             zero == 0
  <2>7. /\ DOMAIN rest = 1 .. k /\ k \in Nat /\ zero \in Nat
        /\ \A i \in 1 .. k :
              /\ i + zero \in 1 .. Len(queue)
              /\ Alike(rest[i], queue[i + zero])
    BY <2>4, <2>6
  <2> HIDE DEF rest, zero
  <2>8. InOrder(rest, docState)
    BY <1>a, <2>5, <2>7, Shortened
  <2> QED
    BY <2>1, <2>2, <2>8 DEF DeltasInv, rest
<1>6. CASE EngineDies
  <2>1. queue' = <<>> /\ outbox' = outbox /\ docState' = NoState
    BY <1>6 DEF EngineDies
  <2>2. /\ Len(queue) \in 0 .. Len(queue)
        /\ Len(queue') = Len(queue) - Len(queue)
        /\ \A i \in 1 .. Len(queue) - Len(queue) :
              queue'[i] = queue[i + Len(queue)]
    BY <1>a, <2>1
  <2>3. InOrder(Line', NoState)
    BY <1>a, <2>1, <2>2, Front
  <2> QED
    BY <2>1, <2>3 DEF DeltasInv
<1>7. CASE Process
  <2> DEFINE m == Head(queue)
  <2>1. /\ queue # <<>> /\ queue' = Tail(queue)
        /\ outbox' = outbox
        /\ docState' = Adopted(docState, m)
    BY <1>7 DEF Process, client
  <2>2. /\ m = queue[1] /\ 1 \in 1 .. Len(queue)
        /\ 1 \in 0 .. Len(queue)
        /\ Len(queue') = Len(queue) - 1
        /\ \A i \in 1 .. Len(queue) - 1 : queue'[i] = queue[i + 1]
    BY <1>a, <2>1, HeadTailProperties
  <2>3. /\ InOrder(Line', docState)
        /\ \A i \in DOMAIN Line' : i + 1 \in DOMAIN Line
                                   /\ Line'[i] = Line[i + 1]
    BY <1>a, <2>1, <2>2, Front
  <2>4. Line[1] = m /\ 1 \in DOMAIN Line /\ DOMAIN Line \subseteq Nat
    BY <1>a, <2>2, LineFacts DEF Line
  <2>5. docState.doc # None => Means(m, docState)
    BY <2>4 DEF DeltasInv, InOrder
  <2>6. docState \in StateSet /\ m \in Messages
    BY <1>a, <2>2 DEF TypeOK, StateSet
  <2> HIDE DEF m
  <2>7. \/ docState' = docState
        \/ docState'.doc = None
        \/ docState' = [rev |-> m.rev, doc |-> m.doc]
    BY <2>1, <2>5, <2>6, AdoptedIsMeant
  <2>8. ASSUME NEW i \in DOMAIN Line', docState'.doc # None
        PROVE  Means(Line'[i], docState')
    <3>1. CASE docState' = docState
      BY <2>3, <2>8, <3>1 DEF InOrder
    <3>2. CASE docState' = [rev |-> m.rev, doc |-> m.doc]
      <4>1. i + 1 \in DOMAIN Line /\ 1 \in 1 .. (i + 1) - 1
        <5>1. i \in Nat \ {0}
          <6>1. DOMAIN Line' = 1 .. Len(queue') + Len(outbox')
            BY <1>a, <2>1, LineFacts DEF Line
          <6>2. Len(queue') \in Nat /\ Len(outbox') \in Nat
            BY <1>a, <2>1, LenProperties
          <6> QED
            BY <6>1, <6>2
        <5> QED
          BY <2>3, <5>1
      <4>2. Means(Line[i + 1], Line[1])
        BY <4>1 DEF DeltasInv, InOrder
      <4>3. Means(Line'[i], m)
        BY <2>3, <2>4, <4>2
      <4> QED
        BY <3>2, <4>3 DEF Means
    <3> QED
      BY <2>7, <2>8, <3>1, <3>2
  <2> QED
    BY <2>3, <2>8 DEF DeltasInv, InOrder
<1>8. CASE WorkerLost
  <2>1. PICK k \in 0 .. Len(queue) : queue' = SubSeq(queue, k + 1, Len(queue))
    BY <1>8 DEF WorkerLost
  <2>2. docState' = NoState /\ outbox' = outbox
    BY <1>8 DEF WorkerLost, client
  <2>3. /\ Len(queue') = Len(queue) - k
        /\ \A i \in 1 .. Len(queue) - k : queue'[i] = queue[i + k]
    BY <1>a, <2>1, Remaining
  <2>4. InOrder(Line', NoState)
    BY <1>a, <2>2, <2>3, Front
  <2> QED
    BY <2>2, <2>4 DEF DeltasInv
<1>9. CASE Refuse
  <2>1. /\ queue # <<>> /\ queue' = Tail(queue)
        /\ outbox' = outbox
        /\ docState' = docState
    BY <1>9 DEF Refuse, client
  <2>2. /\ 1 \in 0 .. Len(queue)
        /\ Len(queue') = Len(queue) - 1
        /\ \A i \in 1 .. Len(queue) - 1 : queue'[i] = queue[i + 1]
    BY <1>a, <2>1, HeadTailProperties
  <2>3. InOrder(Line', docState)
    BY <1>a, <2>1, <2>2, Front
  <2> QED
    BY <2>1, <2>3 DEF DeltasInv
<1>10. ASSUME NEW d \in WireDocs, AgentRebuild(d)
       PROVE  DeltasInv'
  BY <1>10 DEF AgentRebuild
<1>11. CASE HandleReply
  <2>1. CASE IgnoreReply
    BY <2>1, <1>c DEF IgnoreReply, client
  <2>2. CASE ReplyError
    BY <2>2, <1>c DEF ReplyError
  <2>3. CASE ReplyOk
    BY <2>3, <1>c DEF ReplyOk
  <2>4. ASSUME NEW id \in Ids, ReplyResync(id)
        PROVE  DeltasInv'
    <3>1. outbox = <<>> /\ docState' = docState
      BY <2>4, <1>b DEF ReplyResync, Arrived
    <3>2. CASE call.phase = "first"
      <4>1. call.doc \in Documents /\ revision + 1 \in Revisions
        BY <3>2 DEF TypeOK, Calls, Idle
      <4>2. PICK m \in Messages : m = Full(id, call.doc, revision + 1)
        BY <4>1, FullType
      <4>3. ~m.delta
        BY <4>1, <4>2, FullMeans
      <4> QED
        BY <2>4, <3>1, <3>2, <4>2, <4>3, SendMeant DEF ReplyResync
    <3>3. CASE call.phase # "first"
      BY <2>4, <3>1, <3>3, <1>c DEF ReplyResync
    <3> QED
      BY <3>2, <3>3
  <2>5. ASSUME NEW id \in Ids, ReplyUnbacked(id)
        PROVE  DeltasInv'
    <3>1. outbox = <<>> /\ docState' = docState
      BY <2>5, <1>b DEF ReplyUnbacked, Arrived
    <3>2. call.doc \in Documents /\ call.rev + 1 \in Revisions
      BY <2>5, BoundsAssumption
      DEF ReplyUnbacked, TypeOK, Calls, Idle, Revisions
    <3>3. PICK m \in Messages : m = Full(id, call.doc, call.rev + 1)
      BY <3>2, FullType
    <3>4. ~m.delta
      BY <3>2, <3>3, FullMeans
    <3> QED
      BY <2>5, <3>1, <3>3, <3>4, SendMeant DEF ReplyUnbacked
  <2> QED
    BY <1>11, <2>1, <2>2, <2>3, <2>4, <2>5 DEF HandleReply
<1>12. ASSUME NEW ref \in Refs, NEW val \in Vals, EditInPlace(ref, val)
       PROVE  DeltasInv'
  BY <1>12 DEF EditInPlace
<1>13. CASE UNCHANGED vars
  BY <1>13, <1>c DEF vars
<1> QED
  BY <1>1, <1>2, <1>3, <1>4, <1>5, <1>6, <1>7, <1>8, <1>9, <1>10, <1>11,
     <1>12, <1>13 DEF Next, Redial, Reconnect

(* Each delta in flight, whoever sent it, will make of whatever the worker *)
(* holds by then the document it was made for, or be refused.              *)
THEOREM DeltasMean == ASSUME Admits = {} PROVE Spec => []MeantInv
<1>1. Init => IInv /\ DeltasInv
  <2>1. Init => Line = <<>>
    BY DEF Init, Line
  <2>2. Init => DeltasInv
    BY <2>1 DEF DeltasInv, InOrder
  <2> QED
    BY <2>2, TypeInit, InvInit DEF IInv
<1>2. (IInv /\ DeltasInv) /\ [Next]_vars => (IInv /\ DeltasInv)'
  BY TypeStep, InvStep, DeltasStep DEF IInv
<1>3. IInv /\ DeltasInv => MeantInv
  BY DEF IInv, MeantInv
<1> QED
  BY <1>1, <1>2, <1>3, PTL DEF Spec

(* The worker never comes to hold a document nobody asked for: after every *)
(* request it adopts it holds the document that request was made for.      *)
THEOREM HoldsWhatWasMeant ==
    ASSUME Admits = {}
    PROVE  Spec => WorkerHoldsWhatWasMeant
<1> DEFINE Sound == \/ docState' = docState
                    \/ docState'.doc = None
                    \/ queue # <<>> /\ docState'.doc = Head(queue).doc
<1>1. TypeOK /\ MeantInv /\ [Next]_vars => [Sound]_docState
  <2> SUFFICES ASSUME TypeOK, MeantInv, [Next]_vars
               PROVE  Sound
    OBVIOUS
  <2>1. CASE Process
    <3> DEFINE m == Head(queue)
    <3>1. queue # <<>> /\ docState' = Adopted(docState, m)
      BY <2>1 DEF Process
    <3>2. queue \in Seq(Messages) /\ outbox \in Seq(Messages)
          /\ docState \in StateSet
      BY DEF TypeOK, StateSet
    <3>3. m \in Messages /\ m = queue[1] /\ 1 \in 1 .. Len(queue)
      BY <3>1, <3>2, HeadTailProperties, ElementOfSeq
    <3>4. Line[1] = m /\ 1 \in DOMAIN Line
      BY <3>2, <3>3, LineFacts DEF Line
    <3>5. docState.doc # None => Means(m, docState)
      BY <3>4 DEF MeantInv, DeltasInv, InOrder
    <3> HIDE DEF m
    <3>6. \/ docState' = docState
          \/ docState'.doc = None
          \/ docState' = [rev |-> m.rev, doc |-> m.doc]
      BY <3>1, <3>2, <3>3, <3>5, AdoptedIsMeant
    <3> QED
      BY <3>1, <3>6 DEF m
  <2>2. CASE EngineDies \/ WorkerLost
    BY <2>2 DEF EngineDies, WorkerLost, NoState
  <2>3. CASE ~(Process \/ EngineDies \/ WorkerLost)
    <3>1. docState' = docState
      BY <2>3 DEF Next, vars, StartRebuild, ComputeAll, Redial, Reconnect,
         Connect, ConnectFail, engine, Drop, Refuse, AgentRebuild,
         HandleReply, IgnoreReply, ReplyError, ReplyOk, ReplyResync,
         ReplyUnbacked, EditInPlace
    <3> QED
      BY <3>1
  <2> QED
    BY <2>1, <2>2, <2>3
<1> HIDE DEF Sound
<1>2. Spec => [][Sound]_docState
  BY <1>1, TypeCorrect, DeltasMean, PTL DEF Spec
<1> QED
  BY <1>2 DEF WorkerHoldsWhatWasMeant, Sound
=============================================================================
