----------------------------- MODULE BodyStream -----------------------------
(***************************************************************************)
(* How the bodies of a build reach the window.                             *)
(*   src/src/geometry/client.ts    rebuild, computeAll, handleBinaryReply, *)
(*                                 routeStreamFrame and what they call     *)
(*   src/src/geometry/assembly.ts  RebuildAssembly                         *)
(*   src/sidecar/wire.py           _send_reply, _stream_binary_reply       *)
(*   src/sidecar/server.py         _rebuild_job, _body_payload             *)
(*                                                                         *)
(* The client keeps the last payload of each body with its etag and tells  *)
(* the engine which etags it holds (known).  A reply is a stream: a head   *)
(* frame that names every body of the build, then chunks with the bodies   *)
(* that changed; for the others the manifest has a stub, which the client  *)
(* fills from what it holds, or asks for everything again.                 *)
(*                                                                         *)
(* Which document the worker builds is RebuildWire's subject: here a       *)
(* request carries it.  The order of the bodies, and all of a payload but  *)
(* its etag and the shape it shows, are left out; so is a payload whose    *)
(* size is not the one the manifest gives, which the engine never sends.   *)
(***************************************************************************)
EXTENDS Integers, Sequences, SequencesExt, FiniteSets, FiniteSetsExt, Functions

CONSTANTS Bodies,      \* body ids
          Shapes,      \* what a body can look like
          Builds,      \* what documents build: a shape for some bodies
          Callers,     \* callers of the client
          None,        \* absent
          Room,        \* frames under way at one time (a bound)
          MaxMishaps   \* losses, cancels, restarts, stalls (a bound)

ASSUME StreamAssumption ==
    /\ IsFiniteSet(Bodies) /\ IsFiniteSet(Callers)
    /\ None \notin Shapes
    /\ Builds \subseteq UNION {[D -> Shapes] : D \in SUBSET Bodies}
    /\ Room \in Nat \ {0} /\ MaxMishaps \in Nat

VARIABLES
    conn,      \* the socket: "up" or "down"
    calls,     \* the call each caller waits for, or what it was told
    bodyMesh,  \* the client's payload of each body, or None
    streams,   \* replies half-received, by request id
    last,      \* the last result assembled and its signature
    queue,     \* requests at the engine (or in the outbox, while down)
    sending,   \* the reply being sent
    frames,    \* frames under way to the client
    meshes,    \* the worker's payload of each body, or None
    mishaps    \* mishaps left

client == <<calls, bodyMesh, streams, last>>
engine == <<sending, meshes>>
vars   == <<conn, calls, bodyMesh, streams, last, queue, sending, frames,
            meshes, mishaps>>

Mishap == mishaps > 0 /\ mishaps' = mishaps - 1
-----------------------------------------------------------------------------
(* Payloads and identities.                                                *)

Nothing == [b \in {} |-> None]
NoMeshes == [b \in Bodies |-> None]

Waits(k) == calls[k].stage \in {"first", "again", "whole"}
Pending == {calls[k].id : k \in {c \in Callers : Waits(c)}}

(* A number not used: for a request id, or for the etag of a body, of      *)
(* which only those of the same body are ever compared.                    *)
Unused(S) == Min((1 .. Cardinality(S) + 1) \ S)

IdsInUse ==
    Pending \cup DOMAIN streams \cup {queue[i].id : i \in DOMAIN queue}
    \cup {frames[i].id : i \in DOMAIN frames}
    \cup (IF sending = None THEN {} ELSE {sending.id})

EtagsIn(f, b) == IF b \in DOMAIN f THEN {f[b].etag} ELSE {}
EtagOf(payload) == IF payload = None THEN {} ELSE {payload.etag}
ClaimedIn(r, b) == IF b \in DOMAIN r.known THEN {r.known[b]} ELSE {}

EtagsInUse(b) ==
    EtagOf(bodyMesh[b]) \cup EtagOf(meshes[b])
    \cup (UNION {ClaimedIn(queue[i], b) : i \in DOMAIN queue})
    \cup (UNION {EtagsIn(frames[i].rows, b) : i \in DOMAIN frames})
    \cup (UNION {EtagsIn(streams[i].man, b) : i \in DOMAIN streams})
    \cup (IF sending = None THEN {} ELSE EtagsIn(sending.rows, b))
    \cup (IF last = None THEN {} ELSE EtagsIn(last.sig, b))
-----------------------------------------------------------------------------
(* What the client makes of a manifest: RebuildAssembly.begin.  A row is   *)
(* an etag and a shape, None in a stub.                                    *)

Backed(rows, mesh) ==
    \A b \in DOMAIN rows :
        rows[b].shape = None => mesh[b] # None /\ mesh[b].etag = rows[b].etag

Sig(rows) == [b \in DOMAIN rows |-> [etag |-> rows[b].etag]]

AllStubs(rows) == \A b \in DOMAIN rows : rows[b].shape = None

AnyStubs(rows) ==                    \* mutant: whatever was assembled last
    DOMAIN rows # {} /\ AllStubs(rows) /\ last # None
Unchanged(rows) ==
    /\ DOMAIN rows # {} /\ AllStubs(rows)
    /\ last # None /\ last.sig = Sig(rows)

(* The stubs filled from the cache, the rest still to come. *)
Begun(rows, mesh) ==
    [next |-> 1,
     man  |-> Sig(rows),
     got  |-> [b \in DOMAIN rows |->
                  IF rows[b].shape = None THEN mesh[b].shape ELSE None]]

Complete(s) == \A b \in DOMAIN s.got : s.got[b] # None

Copied(rows, mesh) ==                \* mutant: stubs too
    [b \in Bodies |-> IF b \in DOMAIN rows THEN rows[b] ELSE mesh[b]]
Kept(rows, mesh) ==
    [b \in Bodies |->
        IF b \in DOMAIN rows /\ rows[b].shape # None THEN rows[b] ELSE mesh[b]]

Written(rows, s) ==
    [s EXCEPT !.next = @ + 1,
              !.got = [b \in DOMAIN s.got |->
                          IF b \in DOMAIN rows /\ rows[b].shape # None
                          THEN rows[b].shape ELSE s.got[b]]]

(* finishAssembly: forget the bodies the build does not have. *)
Pruned(man, mesh) == [b \in Bodies |-> IF b \in DOMAIN man THEN mesh[b] ELSE None]
Baseline(s) == [sig |-> s.man, result |-> s.got]
-----------------------------------------------------------------------------
Init ==
    /\ conn = "down"
    /\ calls = [k \in Callers |-> [stage |-> "idle"]]
    /\ bodyMesh = NoMeshes
    /\ streams = Nothing
    /\ last = None
    /\ queue = <<>>
    /\ sending = None
    /\ frames = <<>>
    /\ meshes = NoMeshes
    /\ mishaps = MaxMishaps
-----------------------------------------------------------------------------
(* The client's calls.                                                     *)

Request(id, op, stage, doc, known) ==
    [id |-> id, op |-> op, stage |-> stage, doc |-> doc, known |-> known]

Call(op, stage, id, doc) == [stage |-> stage, op |-> op, id |-> id, doc |-> doc]
Told(k, what) == [stage |-> "done", doc |-> calls[k].doc, told |-> what]

Known == [b \in {c \in Bodies : bodyMesh[c] # None} |-> bodyMesh[b].etag]

Rebuild(k, doc) ==
    /\ ~Waits(k)
    /\ LET id == Unused(IdsInUse)
       IN  /\ calls' = [calls EXCEPT ![k] = Call("rebuild", "first", id, doc)]
           /\ queue' = Append(queue, Request(id, "rebuild", "first", doc, Known))
    /\ UNCHANGED <<conn, bodyMesh, streams, last, engine, frames, mishaps>>

ComputeAll(k, doc) ==
    /\ ~Waits(k)
    /\ bodyMesh' = NoMeshes
    /\ LET id == Unused(IdsInUse)
       IN  /\ calls' = [calls EXCEPT ![k] = Call("computeAll", "first", id, doc)]
           /\ queue' = Append(queue, Request(id, "computeAll", "first", doc, Nothing))
    /\ UNCHANGED <<conn, streams, last, engine, frames, mishaps>>

(* A reply settles a call, and the rest of rebuild() or computeAll() runs: *)
(* a rebuild that cannot use the reply asks again, for everything.  Its    *)
(* cache and baseline are mesh and base but for that.                      *)
AskAgain(k, stage) ==
    LET id == Unused(IdsInUse)
    IN  /\ calls' = [calls EXCEPT ![k] = Call("rebuild", stage, id, @.doc)]
        /\ queue' = Append(queue, Request(id, "rebuild", stage, calls[k].doc, Nothing))
        /\ bodyMesh' = NoMeshes

Outcome(reply) ==
    IF reply.kind \in {"good", "failed"} THEN reply ELSE [kind |-> "noMesh"]

Resume(k, reply, mesh, base) ==
    IF calls[k].op = "rebuild" /\ reply.kind = "resync" /\ calls[k].stage = "first"
    THEN AskAgain(k, "again") /\ last' = base
    ELSE IF calls[k].op = "rebuild" /\ reply.kind = "unbacked" /\ calls[k].stage # "whole"
    THEN AskAgain(k, "whole") /\ last' = None
    ELSE /\ calls' = [calls EXCEPT ![k] = Told(k, Outcome(reply))]
         /\ bodyMesh' = mesh /\ last' = base
         /\ UNCHANGED queue

DropOnly(id, reply, mesh, base) ==   \* mutant: nobody is told
    /\ streams' = Restrict(streams, DOMAIN streams \ {id})
    /\ bodyMesh' = mesh /\ last' = base
    /\ UNCHANGED <<calls, queue>>
Settle(id, reply, mesh, base) ==
    /\ streams' = Restrict(streams, DOMAIN streams \ {id})
    /\ IF id \in Pending
       THEN \E k \in Callers :
                Waits(k) /\ calls[k].id = id /\ Resume(k, reply, mesh, base)
       ELSE bodyMesh' = mesh /\ last' = base /\ UNCHANGED <<calls, queue>>

Abort(id, mesh) == Settle(id, [kind |-> "failed"], mesh, last)
Good(result) == [kind |-> "good", result |-> result]
-----------------------------------------------------------------------------
(* Frames arrive.                                                          *)

Arrives(kinds) ==
    /\ frames # <<>> /\ Head(frames).kind \in kinds
    /\ frames' = Tail(frames)
    /\ UNCHANGED <<conn, engine, mishaps>>

(* A text reply, or one whole frame, for a call that still waits. *)
ReceiveText ==
    /\ Arrives({"failed", "resync"})
    /\ LET f == Head(frames)
       IN  IF f.id \in Pending
           THEN Settle(f.id, [kind |-> f.kind], bodyMesh, last)
           ELSE UNCHANGED <<client, queue>>

ReceiveWhole ==
    /\ Arrives({"whole"})
    /\ LET f == Head(frames)
           s == Written(f.rows, Begun(f.rows, bodyMesh))
       IN  IF f.id \notin Pending THEN UNCHANGED <<client, queue>>
           ELSE IF ~Backed(f.rows, bodyMesh)
           THEN Settle(f.id, [kind |-> "unbacked"], bodyMesh, last)
           ELSE IF Unchanged(f.rows)
           THEN Settle(f.id, Good(last.result), bodyMesh, last)
           ELSE Settle(f.id, Good(s.got),
                       Pruned(f.rows, Kept(f.rows, bodyMesh)), Baseline(s))

ReceiveHead ==
    /\ Arrives({"head"})
    /\ LET f == Head(frames)
           s == Begun(f.rows, bodyMesh)
       IN  IF ~Backed(f.rows, bodyMesh)
           THEN Settle(f.id, [kind |-> "resync"], bodyMesh, last)
           ELSE IF Unchanged(f.rows)
           THEN Settle(f.id, Good(last.result), bodyMesh, last)
           ELSE IF f.final
           THEN Settle(f.id, Good(s.got), Pruned(f.rows, bodyMesh), Baseline(s))
           ELSE /\ streams' = [id \in DOMAIN streams \cup {f.id} |->
                                 IF id = f.id THEN s ELSE streams[id]]
                /\ UNCHANGED <<calls, bodyMesh, last, queue>>

ReceiveChunk ==
    /\ Arrives({"chunk"})
    /\ LET f == Head(frames)
           mesh == Kept(f.rows, bodyMesh)
           s == Written(f.rows, streams[f.id])
       IN  IF f.id \notin DOMAIN streams THEN UNCHANGED <<client, queue>>
           ELSE IF f.seq # streams[f.id].next THEN Abort(f.id, bodyMesh)
           ELSE IF ~f.final
           THEN /\ streams' = [streams EXCEPT ![f.id] = s]
                /\ bodyMesh' = mesh
                /\ UNCHANGED <<calls, last, queue>>
           ELSE IF Complete(s)
           THEN Settle(f.id, Good(s.got), Pruned(s.man, mesh), Baseline(s))
           ELSE Abort(f.id, mesh)

Receive == ReceiveText \/ ReceiveWhole \/ ReceiveHead \/ ReceiveChunk

(* A chunk that cannot be decoded: its id is not known either. *)
Unreadable ==
    /\ Mishap
    /\ frames # <<>> /\ Head(frames).kind = "chunk"
    /\ frames' = Tail(frames)
    /\ UNCHANGED <<conn, client, queue, engine>>

(* A stream's watchdog: nothing of it is coming, or it is only slow. *)
Stalled(id) ==
    /\ \A i \in DOMAIN frames : frames[i].id # id
    /\ sending # None => sending.id # id

Stall(id) ==
    /\ Stalled(id)
    /\ Abort(id, bodyMesh)
    /\ UNCHANGED <<conn, engine, frames, mishaps>>

Slow(id) ==
    /\ Mishap
    /\ ~Stalled(id)
    /\ Abort(id, bodyMesh)
    /\ UNCHANGED <<conn, engine, frames>>
-----------------------------------------------------------------------------
(* The engine.                                                             *)

Frame(kind, id, rows, seq, final) ==
    [kind |-> kind, id |-> id, rows |-> rows, seq |-> seq, final |-> final]

(* What the worker holds of the bodies as it begins with request r. *)
Held(r) == IF r.op = "computeAll" THEN NoMeshes ELSE meshes

(* A build of nothing ends before it forgets the bodies of the last one. *)
Rebuilt(doc, held) ==
    IF doc = Nothing THEN held
    ELSE [b \in Bodies |->
            IF b \notin DOMAIN doc THEN None
            ELSE IF held[b] # None /\ held[b].shape = doc[b] THEN held[b]
            ELSE [etag |-> Unused(EtagsInUse(b)), shape |-> doc[b]]]

(* A body the client holds under the same etag is a stub. *)
Rows(doc, built, known) ==
    [b \in DOMAIN doc |->
        [etag  |-> built[b].etag,
         shape |-> IF b \in DOMAIN known /\ known[b] = built[b].etag
                   THEN None ELSE doc[b]]]

Free == conn = "up" /\ sending = None /\ queue # <<>> /\ Len(frames) < Room

(* A build and the head of its reply.  The manifest is the rows without    *)
(* their payloads.                                                         *)
Build ==
    /\ Free
    /\ LET r     == Head(queue)
           built == Rebuilt(r.doc, Held(r))
           rows  == Rows(r.doc, built, r.known)
       IN  /\ meshes' = built
           /\ frames' = Append(frames, Frame("head", r.id, rows, 0, r.doc = Nothing))
           /\ sending' = IF r.doc = Nothing THEN None
                         ELSE [id |-> r.id, rows |-> rows, left |-> DOMAIN rows, seq |-> 1]
    /\ queue' = Tail(queue)
    /\ UNCHANGED <<conn, client, mishaps>>

(* Nothing was built, or the worker does not hold what a delta is about. *)
Refuse ==
    /\ Free
    /\ \E kind \in {"failed", "resync"} :
           /\ kind = "resync" =>
                  Head(queue).op = "rebuild" /\ Head(queue).stage = "first"
           /\ meshes' \in {meshes, Held(Head(queue))}
           /\ frames' = Append(frames, Frame(kind, Head(queue).id, Nothing, 0, TRUE))
    /\ queue' = Tail(queue)
    /\ UNCHANGED <<conn, client, sending, mishaps>>

(* Some of the bodies left. *)
SendChunk ==
    /\ sending # None /\ Len(frames) < Room
    /\ \E now \in (SUBSET sending.left) \ {{}} :
           LET left == sending.left \ now
           IN  /\ frames' = Append(frames, Frame("chunk", sending.id,
                                Restrict(sending.rows, now), sending.seq, left = {}))
               /\ sending' = IF left = {} THEN None
                             ELSE [sending EXCEPT !.left = left, !.seq = @ + 1]
    /\ UNCHANGED <<conn, client, queue, meshes, mishaps>>

(* A reply given up half-way: cancelled (and the worker killed), or a body *)
(* over the frame limit; or sent again whole, after an exception.          *)
GiveUp ==
    /\ Mishap
    /\ sending # None /\ Len(frames) < Room
    /\ \/ /\ frames' = Append(frames, Frame("failed", sending.id, Nothing, 0, TRUE))
          /\ meshes' \in {meshes, NoMeshes}
       \/ /\ frames' = Append(frames, Frame("whole", sending.id, sending.rows, 0, TRUE))
          /\ UNCHANGED meshes
    /\ sending' = None
    /\ UNCHANGED <<conn, client, queue>>

Restart ==
    /\ Mishap
    /\ meshes' = NoMeshes
    /\ UNCHANGED <<conn, client, queue, sending, frames>>
-----------------------------------------------------------------------------
(* The socket.                                                             *)

Connect ==
    /\ conn = "down"
    /\ conn' = "up"
    /\ UNCHANGED <<client, queue, engine, frames, mishaps>>

(* onclose: every call is settled and every stream dropped. *)
Closed ==
    /\ calls' = [k \in Callers |->
                    IF Waits(k) THEN Told(k, [kind |-> "failed"]) ELSE calls[k]]
    /\ streams' = Nothing
    /\ UNCHANGED <<bodyMesh, last>>

(* The connection is lost; a job the worker has runs on, to a good end or not. *)
Drop ==
    /\ Mishap
    /\ conn = "up" /\ conn' = "down"
    /\ Closed
    /\ queue' = <<>> /\ sending' = None /\ frames' = <<>>
    /\ \/ UNCHANGED meshes
       \/ /\ queue # <<>> /\ sending = None
          /\ LET r == Head(queue)
             IN  meshes' \in {Held(r), Rebuilt(r.doc, Held(r))}

(* A connection attempt fails; the outbox stays. *)
ConnectFails ==
    /\ Mishap
    /\ conn = "down"
    /\ Closed
    /\ UNCHANGED <<conn, queue, engine, frames>>
-----------------------------------------------------------------------------
Next ==
    \/ \E k \in Callers, doc \in Builds : Rebuild(k, doc) \/ ComputeAll(k, doc)
    \/ Receive \/ Unreadable
    \/ \E id \in DOMAIN streams : Stall(id) \/ Slow(id)
    \/ Build \/ Refuse \/ SendChunk \/ GiveUp \/ Restart
    \/ Connect \/ Drop \/ ConnectFails

Spec == Init /\ [][Next]_vars

(* The engine works off its queue and its replies, messages arrive, the    *)
(* client reconnects, and its timers fire.                                 *)
Fairness ==
    /\ WF_vars(Connect)
    /\ WF_vars(Build \/ Refuse)
    /\ WF_vars(SendChunk)
    /\ WF_vars(Receive)
    /\ WF_vars(\E id \in DOMAIN streams : Stall(id))

FairSpec == Spec /\ Fairness
-----------------------------------------------------------------------------
(* Types: an etag or an identity is the smallest number not in use.        *)
Payloads == [etag : Nat \ {0}, shape : Shapes]

TypeOK ==
    /\ conn \in {"up", "down"}
    /\ \A k \in Callers : Waits(k) => calls[k].doc \in Builds
    /\ \A b \in Bodies : {bodyMesh[b], meshes[b]} \subseteq Payloads \cup {None}
    /\ \A id \in DOMAIN streams :
           /\ streams[id].next \in 1 .. Cardinality(Bodies) + 1
           /\ DOMAIN streams[id].got = DOMAIN streams[id].man
           /\ Range(streams[id].got) \subseteq Shapes \cup {None}
    /\ Len(frames) <= Room
    /\ sending # None => sending.left # {} /\ sending.left \subseteq DOMAIN sending.rows
    /\ mishaps \in 0 .. MaxMishaps

(* A call that ends well ends with the build it asked for: each body once, *)
(* none missing or left from another build, whatever streams were cut,     *)
(* caches cleared and etags replaced on the way; and a rebuild that had to *)
(* ask for everything again is not left without a mesh.                    *)
AnswersAreTheBuild ==
    \A k \in Callers : calls[k].stage = "done" =>
        /\ calls[k].told.kind # "noMesh"
        /\ calls[k].told.kind = "good" => calls[k].told.result = calls[k].doc

(* Every call settles: a lost, cut, cancelled, stalled or unusable reply   *)
(* leaves nobody waiting (rebuildNow would stay "rebuilding" for ever).    *)
EveryCallSettles == \A k \in Callers : Waits(k) ~> ~Waits(k)

(* What client.ts says of its streams (lines 375-381).  Not so once a      *)
(* connection attempt failed: the call was settled and its request is      *)
(* still sent, so that its reply is a stream nobody waits for.             *)
StreamsAreAwaited == DOMAIN streams \subseteq Pending
=============================================================================
