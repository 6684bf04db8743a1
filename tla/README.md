# FundaCAD, specified

TLA+ models of the parts of FundaCAD in which several things happen at once,
TLC configurations that check them on small instances, and TLAPS proofs of what
matters most for every instance.

FundaCAD is three processes: a Tauri shell in Rust (`src/src-tauri`), a
TypeScript frontend in its webview (`src/src`) and a Python geometry engine, the
*sidecar* (`src/sidecar`), which runs OCCT in a one-worker process pool. The
frontend holds the document; the engine turns documents into meshes. The
architecture rests on one sentence (`src/docs/ARCHITECTURE.md`, invariant 2):
the engine is a stateless function of the document. For speed the code is
nothing of the sort. The worker holds the last document and the client sends
differences; requests are queued, coalesced, cancelled, resent; and either end
can be restarted. This project is about whether the sentence stays true.

## Inventory

| part | state it keeps | operations | what is hard | what makes it correct |
|---|---|---|---|---|
| Delta wire (`geometry/client.ts`, `sidecar/server.py`) | `lastSent`, `revision`, `pending`, `outbox`; `_DOC_STATE` | `rebuild`, `computeAll`, resync, connect, close, redial; adopt, patch | lost replies, jobs that outlive their client, worker restarts, an outbox | client and worker agree on the document, or know that they do not; every call ends |
| Rebuild pipeline (`document/store.ts`) | `rebuilding`, `rebuildQueued`, `rebuildDrain`, `rebuildTimer`, `build`, `busy`, projection valve | edit, preview, New/Open, `rebuildNow`, `computeAllNow`, `runBusy`, `cancelBusy`, projection refresh | interleavings of async functions at their awaits | no edit lost, awaited means published, no endless refreshing |
| Body streaming (`client.ts`, `assembly.ts`, `wire.py`) | `streams`, mesh cache by etag, unacknowledged chunks | head, chunk, ack, abort, assemble | partial replies, evicted meshes | an assembled model is the reply, or there is none |
| Pool supervisor (`server.py`) | `_pool`, `_pool_gen`, `_warm`, `_failed_gens`, `_env_broken`, heartbeat | submit, warm up, kill, cancel, reap | generations racing, clocks charged to the wrong job | one failure counts once; a cancel is not a crash |
| Live session (`live_session.py`, `liveSession.ts`, `live_link.py`) | host, revision, document, guests, proposals | publish and collect, propose, adopt, leave, release | an agent and a person editing at once | no edit of either is lost in silence |
| Agent server (`FundaCAD.MCP`) | its own document, a link to the engine or to the window | tools, build | a second client of one worker | it disturbs nobody |
| Parameters (`params/engine.ts`, `store.ts`) | `paramChain`, parameter definitions | cascade commit, recompute, refresh | solves awaited between read and write | bound field equals its parameter; no lost update |
| Undo and document replacement (`store.ts`, `sketchMode.ts`) | `undoStack`, `redoStack`, the open sketch | mutate, undo, redo, load, New, enter, finish, cancel | commits that wait while everything else is done at once | the stacks are one line of the user's edits |
| Autosave and recovery (`io/recovery.ts`, `lib.rs`) | the timer, snapshot files | schedule, flush, clear, offer at launch | crashes, a save racing a snapshot | unsaved work has its snapshot, saved work has none |
| Versions, elements, migration (`document/*`) | stored versions | branch, restore, migrate | little: sequential functions of a document | what was stored can be read |
| Container and save (`container.rs`, `io/files.ts`) | archive, blobs, path and dirty flag | save, Save As, open | crashes, edits while a save is written | the old file or the new one, never neither; what is shown as saved is saved |
| Engine caches (`rebuild_cache.py`, `blobstore.py`, `geomstore.py`) | checkpoints, blobs | look up, store, evict | stale keys, limits | a cached prefix is the prefix |
| Plugins (`plugins/*`, `src-tauri/src/plugins`) | registry, grants, running plugins | activate, grant, dispose | ordering, disposal | nothing outlives its plugin |
| Shell (`sidecar.rs`, `lib.rs`) | child process | spawn, watch, report | death of the child | it is reported once |
| Geometry kernels, sketch solver, viewport, UI, printing, devices | | | numerics, rendering, I/O | outside what a finite model can check |

The pieces meet as follows. Every change of the document calls the store's
`scheduleRebuild`, which ends in `rebuildNow`. That awaits `Geometry.rebuild`,
which sends one request and perhaps a second (resync, or refetch). The sidecar
serializes heavy requests with a job lock and hands each to the pool's worker,
which adopts or patches `_DOC_STATE` and builds. The answer comes as a stream of
bodies, settles the client's call, and the store publishes it as `build`; a
publication may refresh projected sketches, which is a change of the document. A
socket that opens also calls `rebuildNow`; one that closes settles every call with
an error. A change also arms the autosave timer, whose snapshot a save clears, and
moves the revision under which a shared document is published to the live
session. A proposal collected there is loaded like a file.

## Modules

| module | what it is |
|---|---|
| `StatelessEngine` | the promise: a caller asks for a document and gets its build, or an error |
| `RebuildWire` | the delta protocol: client, outbox, socket, queue, worker |
| `RebuildWireInvariant` | why it works: the inductive invariant |
| `RebuildWireProofs` | the proofs |
| `RebuildPipeline` | the store: drains, coalescing, Compute All, busy state, projection valve |
| `RebuildPipelineInvariant` | why it works as long as no builds overlap: the inductive invariant |
| `RebuildPipelineProofs` | the proofs |
| `BodyStream`, `BodyStreamProofs` | how the bodies of a build reach the window: etags, chunks, stall, abort, refetch |
| `PoolSupervisor`, `PoolSupervisorProofs` | the worker process: bring-up, generations, the two supervisors, cancel, departures |
| `LiveSession`, `LiveSessionProofs` | the shared document: window, agents, and the session between them |
| `DocumentFile`, `DocumentFileProofs` | the document, its file and its snapshots, across failures, crashes and power cuts |
| `EditHistory`, `EditHistoryProofs` | edits, undo, redo, parameter commits, projection refreshes, the sketch editor |
| `SequenceFilter`, `SequenceFilterProofs` | a list without some of its elements, and what is true of it |
| `MC...` | instances for TLC |

### RebuildWire and the code

| variable | code |
|---|---|
| `conn`, `outbox` | `ws`/`connected` and `outbox` of `Geometry` |
| `call` | the entry of `pending` for the store's rebuild together with the place at which `rebuild()` or `computeAll()` awaits: `"first"`, `"resync"`, `"refetch"`, `"all"` |
| `lastSent`, `revision` | the fields of the same names |
| `queue` | requests at the engine in the order the worker will run them: those in the pool (of closed connections too, `alive = FALSE`) and the one that holds, or waits for, the job lock |
| `replies` | frames on their way to the client |
| `docState` | `_DOC_STATE` in the worker process |
| `answer` | what the last good answer was built from |

A feature is an object: a reference, which `rebuild()` compares with `!==`, and
a value, which is what JSON carries. A document is a sequence of objects, a
parameter table and a visibility map or none; between two rebuilds anything in
it may change. `Patched` is `_apply_doc_ops`, placeholders included. The client
has one call at a time, which is what its caller means to keep and the protocol rests
on; `RebuildPipeline` shows that the caller can break it (`pipeline_two`). Two calls
under one revision are not in this model.
Other operations (queries, imports, exports) do not touch `_DOC_STATE` and are
left out.

`rebuild()` is cut at its awaits: `StartRebuild` runs to the first, and each
`Reply...` action from an await to the next or to the return. `Connect` is
`onopen` as a whole: the status listeners, which rebuild, then the outbox, in
that order. `Drop` is `onclose` together with what `handle()`'s `finally` does
at the other end: jobs waiting for the lock are cancelled, one in the pool is
not. `WorkerLost` is every way a worker dies: a crash, a cancel, a reaped stall.
`EngineDies` is the end of the sidecar; the shell reports it and starts no other,
but a redialled socket may find one.

`Admits` lists four things the code's environment can do and the protocol does
not survive. Left empty it is the protocol as its comments describe it, which is
what the safety runs and the proofs are about. Each of `"connectFails"` (the
run `wire_outbox`), `"clearVisibility"`, `"inPlaceEdits"` (a feature written in
place) and `"secondClient"` (an agent's rebuild, which always has revision 1)
breaks `EngineInStep` under TLC; all four are admitted in `wire_live`.

### RebuildPipeline and the code

One action is one turn of the webview's event loop up to the next await, or one
continuation. `runs` are the async calls in progress: drains of `rebuildNow`,
`computeAllNow`, and imports or exports under `runBusy`; `engine` is the queue of
their requests. `Microtasks` says which continuations must come before the next
event. The flags are the store's own; `busy` is the one record that every
`runBusy` shares.

The document's contents do not matter here; which version was built does. A
version is only compared with the current one, so it is kept as its age: `"now"`,
`"old"`, or `"alien"` when New or Open has replaced the document since.

A drain passes through `"call"` (at the engine), `"failed"` (settled with an
error, its continuation due), `"teardown"` (the loop has ended and `rebuilding`
is released, `runBusy`'s `finally` is due) and `"leaving"` (`rebuildNow`'s own
`finally` is due). The last two are microtasks, and a projection refresh may be one
too. It is queued on `paramChain` before the teardown begins and, with nothing to
solve, lands in `"leaving"`: after `runBusy`'s `finally` and before the drain's own,
which settles some microtasks later. It then begins a drain, and the old one's
`finally` lowers that drain's flag. A refresh that solves lands at any later time.

`astray` is history: it is set when a build begins beside another or when a request
is made of a flag that Compute All holds, whose pass no drain will run, and cleared
when a build begins alone and nobody waits. `RestMeansBuilt` and
`AwaitMeansPublished` except it, and nothing else. `endEditPreview(false)`, which
rebuilds nothing, is part of the edit that follows it in the same turn.

`build.streamed` and `emitBuildAbort` concern what is drawn and are left out.
What goes on under a request is `RebuildWire`.

### BodyStream and the code

| variable | code |
|---|---|
| `calls` | the entries of `pending` with the place at which `rebuild()` or `computeAll()` awaits (`"first"`, `"again"` after a resync, `"whole"` after a manifest it cannot fill), and what the caller was told |
| `bodyMesh`, `last` | the client's payload of each body with its etag; the baseline that a manifest of nothing but stubs stands for |
| `streams` | `RebuildAssembly` of each chunked reply: manifest, bodies got, next sequence number |
| `queue`, `sending`, `frames` | requests at the engine or in the outbox, the reply being sent (`_stream_binary_reply`), frames under way |
| `meshes` | the worker's payload of each body (`_body_payload`) |

`Receive...` are `handleBinaryReply` and `routeStreamFrame` with what they call, down
to the return of `rebuild()`; `Stall` is the stream's watchdog with nothing under
way, `Slow` the same timer when the rest is only late. `GiveUp` is a reply that the
engine ends early. Which document the worker builds is `RebuildWire`'s subject: here
a request carries it. An etag or a request id is the smallest number not in use,
which makes every reuse happen that could. Left out: the order of bodies, the byte
layout, acknowledgements (their window is `Room`), a payload of another size
than its row names, and a head or single frame that cannot be decoded.

### PoolSupervisor and the code

| variable | code |
|---|---|
| `pool` | `_pool`, `_pool_gen`, `_warm`, and the worker process with the jobs it was given |
| `known` | `_failed_gens`, the generations killed on purpose, whether a worker ever came up, `_env_broken` |
| `news` | done-callbacks of warm-ups that have not run yet |
| `queue`, `phase`, `fut`, `gen` | the job lock, how far each request is in `_run` or `_run_stall`, its future, its generation |
| `token`, `answer` | cancel tokens; what the request was told |
| `moved`, `age`, `beats` | the heartbeat, as the poll loop sees it |
| `truth` | what became of each job (history) |

A job under `_run_stall` ends by its progress, one in `Timed` by a plain timeout
(`_run`). The executor is modelled from its use: a worker that dies breaks every job
it was given, a kill may cancel those not handed over yet. Time is polls without
progress (`Patience`). Left out: a pool whose first submit raises, progress frames,
and the feature to which a crash is laid.

### LiveSession and the code

| variable | code |
|---|---|
| `session` | the state of `live_session.py`: host, document, revision, guests and their leases, pending proposals, numbers issued |
| `window` | `liveSession.ts`: setting, loop, revision, document, receipts, the request in flight and its answer |
| `agent` | `live_link.py`: what it has read, what it proposed, where it waits |
| `conn`, `up`, `closing`, `wire` | connections by client and number, the window's socket, handlers that have not ended, requests in order |
| `taken`, `happened` | what was applied over what; the situations that properties except (history) |

Every operation of the three files is an action, with connections that break at
either end. `closing` is a connection whose handler the engine still runs: for that
time an agent that came back is there twice. A document is a number nobody has used.

### DocumentFile and the code

| variable | code |
|---|---|
| `doc`, `path`, `dirty` | the store's document, `filePath` and flag |
| `op`, `clears` | each save or open at the await it has reached; the snapshots it has yet to clear |
| `timer`, `writing`, `slots` | the autosave timer, the snapshot being written, the snapshot files, newest first |
| `disk`, `durable` | what a reader finds in each file, and what a power cut leaves of it |
| `lost`, `happened` | the snapshot that covered what a crash took; what properties except (history) |

A content is a line of documents and a number that grows along it, so "came from"
and "newer than" can be said. A file is written to a temporary one, renamed, and its
directory synchronized (`container.rs`); a crash may fall between any two. A save's
text and a snapshot's slot are taken with the call although an `import()` of the
Tauri bridge is awaited before them (`files.ts:47-51`, `recovery.ts:57-58`): the
module has been loaded since `checkRecovery` ran at launch, so nothing but microtasks
of the same turn falls between. Left out: the container's sections, its error
correction and the blob store.

### EditHistory and the code

| variable | code |
|---|---|
| `doc` | a parameter, a solid, and a sketch that takes the one and projects the other; each the number of the edit that wrote it |
| `undo`, `redo` | `undoStack`, `redoStack` (at most `UndoCap`, 50 in the code) |
| `chain`, `job` | `paramChain`; the commit or refresh that awaits the solver, with its draft |
| `build`, `again`, `due` | what `rebuildNow` was sent, `rebuildQueued`, the timer |
| `failed` | the last build failed, in whole or in part, and the error is on screen |
| `streak` | `projStreak`, behind a valve that shuts at `RefreshLimit` (5 in the code) |
| `view` | what `effectiveDoc` sends: the whole timeline, one cut before the sketch (rollback marker, suppression), or one with a preview, which in `editPreview` ends before the sketch too |
| `pad` | the sketch open in `SketchMode` |
| `owed`, `strayed` | history: the editor was left without a commit, a sketch was left unsolved |

A build that fails looks at no projection, one that fails in part may miss some, a
preview looks at none, a quiet one opens the valve and a shut valve withholds what it
finds; a projection may also flap with nothing changed. Each leaves a stale curve at
rest, as the code means it to (`store.ts:579-611`, `1892-1894`), and `QuietMeansFresh`
excepts exactly these, by what is then on screen.

The drain is one build and one flag here; its interleavings, and Compute All beside
it, are `RebuildPipeline`. The headless solver never throws (`headlessSolve.ts`); it
may fail to solve. Left out: overlays, names and the expression engine, which are
sequential.

## Runs

| run | shows | bounds |
|---|---|---|
| `wire` | client and worker in step, the worker holds only what was meant, answers as from a stateless engine, the inductive invariant | 2 objects, 2 parameter tables, 1 visibility map or none, timelines up to 2, 2 ids in flight, revisions up to 2 |
| `wire_live` | every call ends, with all of `Admits` | 1 reference with 2 contents, timelines up to 1, revisions up to 2 |
| `pipeline` | no edit lost, awaited means published, the inductive invariant, the pipeline comes to rest | 3 runs at once, 3 events, valve at 2, 2 waiting refreshes |
| `stream` | a good answer is exactly the build that was asked for; every call settles | 4 documents of up to 2 bodies in 2 shapes, 1 caller, 2 frames under way, 2 mishaps |
| `pool` | the installation is given up only when it is broken; what a request is told is true; a cancel is kept; every request ends | 2 jobs, 1 of them timed, 2 attempts, 1 poll of patience, 3 mishaps |
| `live` | what an agent is told is true; nothing is handed over twice, stale or after its author left; no offer and no shared document stays for ever | 2 windows in turn (a reload), 1 agent, 2 connections each, 2 pending, 2 offers, 1 mishap |
| `save` | what is shown as saved is saved; what is not has its snapshot; the right snapshot is offered; a save stays in its document | 2 files, 1 save or open at a time, 2 contents and one more for each failure, 2 failures or crashes |
| `history` | undo is a line of the user's edits; a refresh takes nothing back; all has caught up once it is quiet | 3 edits, 2 moves (undo, redo, the editor, a change of view, a projection that flaps), 2 commits waiting, 2 undo steps kept, valve at 1 |
| `wire_outbox`, `pipeline_two`, `save_shown`, `history_commit` | findings: each a promise of a comment, violated | as above, or smaller |

Why the bounds are enough to be interesting. Two revisions let a reply be lost
and its revision number be used again for another document, which is how stale
deltas meet a worker that is ahead; a third adds nothing new, as only equality
with the client's own and the next revision is ever tested. Two ids suffice
since ids are reused once nothing in flight carries them. Timelines of two allow
growth, truncation, a swap (two changes) and a hole. `DeltaFloor = 1` (8 in the
code) makes both deltas and full sends occur at that size; the proofs hold for
any value. Three events let an edit and an await fall into one build that a drop
ends, or into Compute All beside an import. (By hand the safety of five events was
checked as well: 2.6 million states up to symmetry.) Three runs are a drain, the one
it overlaps and one more, and a valve at 2 (5 in the code) opens, counts and shuts.

In `stream` two bodies make a reply of more than one chunk and a manifest with a
stub beside a payload; the four documents change a body, add one, take one away and
build nothing. Two mishaps let a reply be cut and the refetch be cut too. (By hand
the safety of two callers with one frame under way and one mishap was checked as
well: 5.9 million states.) In `pool` two jobs are one that is supervised and one
that waits or was left behind, and three mishaps are two failed bring-ups, the
latch's limit, and one more. In `live` the second window is the reload of the first;
two connections let a client come back before its old handler has ended. In `save`
two files are what Save As needs and two mishaps are a failure and a crash after it.
In `history` three edits are one to undo, one to redo and one that lands while a
commit waits, and a cap of 2 drops the oldest; two moves are a preview or a flap and
what undoes it, and a valve at 1 is shut by the first refresh that lands.

`MaxRevision`, `MaxEvents`, `MaxDocs`, `MaxSteps` and the like stop TLC, and every
bound is a constant with a comment. The passing runs except `wire`, `wire_live` and
`stream` set `CHECK_DEADLOCK FALSE`: once the user has no moves left, a system at
rest has stopped, rightly. Symmetry (of ids, parameter tables, run slots, files) is
used in safety runs only.

Several properties except situations that they name (`happened`, `strayed`, and the
like): there the code does not keep the promise, as "Known not to hold" lists. The
exception is the narrowest that makes the property hold, and each is itself recorded
by the action at which it arises.

### Fairness

`wire_live` assumes weak fairness of `Process` (the worker runs, and what stalls
is reaped, `_run_stall`), of `HandleReply` (the webview's event loop delivers
frames) and of `Redial` (`scheduleReconnect`'s timer fires, and the attempt opens
or fails). No user action, drop, crash or loss is fair. `Redial` may fail for
ever: `CallSettles` then holds because a failed attempt settles the calls too.

`pipeline` assumes weak fairness of timers, continuations and the engine's
answers; that a request is answered is what `wire_live` shows. It also assumes
that the socket opens again, hence that there is an engine. Events are bounded,
so the claim is that the pipeline rests once the user and the network have.

`stream` assumes weak fairness of the engine's work (`Build \/ Refuse`,
`SendChunk`), of delivery, of the stall timer and of `Connect`. `Restart`, `Drop`
and `ConnectFails` are not fair and bounded by `MaxMishaps`.

`live` assumes that the window's timers fire (`Tick`, `Collect`), that the engine
serves what has reached it and that it notices a closed connection
(`HandlerEnds`). No dial need succeed, no agent and no user need do anything, so
an offer that nobody collects must go because its author's handler ends or its
window is released.

`pool` assumes that the event loop runs (`Acquire`, `Watch`, and per request
`Poll`, `Expire`, `Resolve`, `Vanish`, `Replied`), that a bring-up ends in one way or the other
and that an idle worker takes the next job. It need never finish one.

## Findings

Each is a run of kind `violation`; TLC prints the steps.

1. **A settled request is sent after all** (`wire_outbox`, `client.ts:538-541`,
   `801`). `onclose` answers every pending call with an error and leaves its
   request in the outbox. If a connection attempt fails while a rebuild waits in
   the outbox, the next open sends the store's fresh rebuild first and the old
   request after it, both under the same revision. The worker ends with the old
   document under the revision at which the client believes it to hold the new
   one, and the next delta's base matches. The comment (`client.ts:400`) promises
   that any doubt falls back to a full send.
2. **Two builds at once** (`pipeline_two`, `store.ts:1911`). The inner `finally` of
   `rebuildNow` releases its flag so that a projection refresh landing while `runBusy`
   tears down can begin a drain. It does, and then the first drain's outer `finally`
   clears the flag of the second and forgets its drain. The next change begins a build
   beside it, and who awaits `rebuildNow` meanwhile waits for nothing. The comment
   (`store.ts:1847-1849`) says that rebuilds are serialized.
3. **An edit made during a save is marked as saved** (`save_shown`,
   `io/files.ts:69-71`). `saveDocument` awaits the write of text taken before it and
   then marks whatever is open now as saved, and clears its snapshots.
4. **A parameter commit takes back edits** (`history_commit`, `store.ts:560`).
   `commitWithCascade` awaits the solver on a draft and then puts the draft's
   features in place of the document's. An edit made meanwhile is gone (undo shows
   it). The refresh guards against the same (`store.ts:677-680`).

### Known not to hold

Found with the same modules, by checking a property without its exception or with
more admitted; they have no run of their own.

- Wire. A visibility map cannot be cleared by a delta (`client.ts:834`, `undefined`
  does not survive `JSON.stringify`). A feature written in place and an agent's
  rebuild at revision 1 both break `EngineInStep`. `effectiveDoc` gives every named
  feature a new object (`withoutDisplayName`, `store.ts:191`), so it is in every
  delta although `client.ts:397-399` says otherwise: cost only.
- Pipeline. An edit during Compute All is not built until the next
  (`store.ts:1924-1943`), which is half of `astray`. A rebuild during an import takes over `busy`,
  and Cancel stops the rebuild instead (`store.ts:343`, `CancelNamesTheOp`).
- Body stream. After a failed connection attempt a stream can arrive that nobody
  awaits (`StreamsAreAwaited`); its chunks may draw into another build's display. A
  head or a single frame that cannot be decoded leaves its caller waiting
  (`client.ts:578-600`); such frames are not in the model, as the engine sends none.
- Pool. Behind a departed client's job the stall clock of the next one runs, and a
  crash is laid to the next one. A cancel while the reply is being sent kills a
  healthy pool and says "cancelled" of a result delivered. A worker that dies idle is
  reported as a crash of the next job. A job cancelled before it was handed over is
  never answered (`EveryRequestIsAnswered`, `Vanish`). A queued request cannot be
  cancelled.
- Live session. After a reset proposals are numbered from 1 again, and an agent can
  be told "adopted" of another's. A proposal accepted is not compared again when it
  is applied (`NothingOverwritten`), so two of one base are both applied, and an edit
  of the user's made since the publish is overwritten. Changes that report nothing do
  not move the revision. The edit of an agent that timed out may still be applied.
- Files. Every save clears the "untitled" snapshot, also one kept for the next launch
  (`KeptSnapshotStays`). Changes made to a document already dirty without a report do
  not rearm the timer; a timer that finds a snapshot being written, and a write that
  fails, are not tried again. A torn newest snapshot hides the older. A snapshot in
  flight when its save clears, one whose clearing fails, and the untitled one behind it
  stay behind (`"leftBehind"`), and so does the one filed under the old path after
  Save As. After Save As and New in one write the new document has the old
  path. Open does not ask about unsaved work. Two saves under way may rename in the
  other order. Slot names are cut to 80 characters and may collide (not modelled).
- History. A sketch left by Cancel after a parameter commit keeps new dimensions with
  old coordinates, and nothing is rebuilt. Undo after Open brings back the document
  and neither its path nor its overlays. Outside the model: `addFeature` moves the
  rollback marker and undo does not move it back; `setRollback` does not mark the
  document dirty; two parameters validated against the live document and then queued
  can form a cycle; an agent's document loaded while a sketch is open leaves the
  editor over another document.

## Proofs

`RebuildWireProofs`, checked by TLAPS, for all finite or infinite sets of
references, values, parameter tables, maps and ids, and any bounds:

- `TypeCorrect`: `Spec => []TypeOK`, whatever is admitted;
- `Invariance`: `Spec => []IInv` when `Admits = {}`;
- `InStep` and `WireInv`: hence `Spec => []EngineInStep` and `Spec => []Inv`;
- `DeltasMean`: `Spec => []MeantInv`, and from it `HoldsWhatWasMeant`: `Spec =>
  WorkerHoldsWhatWasMeant`, also when `Admits = {}`;
- `ImplementsStateless`: hence `Spec => Stateless!AbsSpec`, with the request
  refined by `call.want` and the answer by `answer`.

The assumptions are those named in the modules: `BoundsAssumption` (the bounds
are naturals, objects are references with values), `NoneAssumption` and
`NoDocumentAssumption` (`None` is nothing else), and `Admits = {}` where stated.

The argument. `EngineInStep` is not inductive: it says nothing of what is still
to be run. The invariant adds two things. Of *every* request at the engine, also
of a client long gone, `NotStale` says that it cannot bring the worker to the
client's current revision with another document than `lastSent`: it carries the
next revision, or it is a whole send of that very document. Of the one request
somebody still waits for, `OfTheCall` says that it is the newest, that it is for
the document of the call in progress, and, for a delta, that patching `lastSent`
with it gives that document. This last is the lemma `PatchMeansDocument`, about
`Ops` and `Patched`, and it is where the two excluded behaviours bite: it needs
one reference to mean one content, and no map to be taken away. A reply is then
the build of what was asked for, because the worker's document, if it is at the
delta's base revision, is `lastSent` (`EngineInStep`). With an outbox there is a
third place for the request; `OutboxInv` says there is one request at most, the
call's own, which is what `"connectFails"` destroys.

`WorkerHoldsWhatWasMeant` is about every request, also one nobody waits for, and there
`lastSent` may have moved on since a delta was computed. `DeltasInv` does without it:
of the requests at the engine followed by the outbox, each delta leads to its document
from what the worker holds now, if that has the delta's base revision, and from the
document of every request before it that has. It is kept when the front of the line
leaves for whatever reason, and when a request joins its end: then, by `EngineInStep`
and `NotStale`, everything under the client's revision is `lastSent`.

`RebuildPipelineProofs`, for any number of calls in progress, any valve and any
events:

- `PipelineTypeCorrect`: `Spec => []TypeOK`; with it that the engine's queue holds
  exactly the calls in progress, and that the valve bounds the refreshes of a row and
  those waiting;
- `PipelineInvariance`: `Spec => []IInv`;
- `RestIsBuilt`, `AwaitPublishes` and `PipelineInv`: hence `[]RestMeansBuilt`,
  `AwaitMeansPublished` and `[]Inv`.

They assume `PipelineAssumption`: the bounds are naturals, the valve's positive, and
`None` is neither a run nor a waiter. Compute All, imports and refreshes in a teardown
are all in `Spec`; nothing is switched off.

The argument. None of these is inductive. What always holds is that the flag and the
sign on the screen are up only while something is built (`FlagHasBuild`) and that the
busy state has a call that will still clear it (`BusyHasOwner`): two overlapping builds
each lower them, too early but never too late. The rest holds until the pipeline goes
astray. `OneBuild` says that one build is at the engine and that, while the flag is up,
a drain that builds is the one late callers await. `BuildIsDue` says where an edit is
at every moment (in the timer, with a socket that will rebuild when it opens, in the
pass that was asked for, in the build going on, or settled), and at rest only the last
place is left. `WaiterIsServed` says the same for what an awaiting caller asked for:
the drain they hold has it in hand or asked for until it is shown. A build that begins
alone carries the document as it is and takes the only flag, which is why it ends what
went astray.

`EditHistoryProofs`, for any depth of undo and any number of edits:
`HistoryTypeCorrect`, `HistoryInvariance`, `HistoryChain` (`HistoryIsAChain`),
`QuietIsFresh` (`QuietMeansFresh`, with its exceptions), `SketchFollows` (`SketchFollowsParameter`) and
`RefreshTakesNothing` (`RefreshKeepsEdits`), from `HistoryAssumption` (the bounds)
and `NoneAssumption` (`None` is no job, sketch or editor).

The argument. The chain is inductive once it is cut at the document into the undo
and the redo side. `QuietMeansFresh` is not: `StaleIsOwed` says where the next look
at a stale projection comes from (a rebuild due, asked for or sent this document, a
commit that waits, or a refresh nobody has overtaken) unless one of the exceptions
says why there is none, and at rest no such place is left. `BuildIsCurrent` is what it
rests on: a build that no other follows was sent the document and the view there are.
`LiveJobIsCurrent` is what makes the refresh harmless: while nobody has overtaken it
the document has the sketch's shape and the parameter the refresh started from.
`SketchFollowsParameter` needs to be said of every document on the stacks and of
the open editor (`AllSatisfied`), since undo and Cancel bring them back.

`PoolSupervisorProofs`, for any finite set of requests and any patience and limit
of attempts: `PoolTypeCorrect`, `PoolInvariance`, `GivesUpLate`
(`GivesUpOnlyWhenBroken`), `AnswersHold` (`AnswersAreTrue`) and `CancelsHold`
(`CancelIsKept`), from `PoolAssumption`.

The argument. What a request is told is decided by its future, by its generation
and by what the supervisor has heard; what is true of it is in the history. The
invariant ties them: one request holds the lock, and unless it was left or
cancelled its job is in the pool there is now (`OneHolds`, `SupervisedIsHere`); the
pool has exactly the jobs that are not over (`PoolHasTheJobs`); a worker that died
after its bring-up died of a job that is named (`DeathHasACause`). That
`GivesUpOnlyWhenBroken` holds rests on `NewsInOrder`: done-callbacks run in the
order of generations, so a failure that counts is the last thing heard, and of a
worker that nobody killed. `PoolsAreBudgeted` bounds the generations: each pool is
made for a request, a mishap, or changed sources.

`LiveSessionProofs`, for any windows, agents, connections and limits:
`LiveTypeCorrect`, `LiveInvariance`, `HandsOverOnce` (`HandedOverOnce`),
`StaleRefused` (`StaleIsRefused`), `PartiesKept` (`SessionHasParties`),
`AdoptionIsTrue` (`AdoptedMeansApplied`) and `LapsedAreDropped`
(`LapsedAreNotCollected`), from `LiveAssumption`.

The argument. `InOnePlace` follows a proposal through its three places, the
session, the answer on its way and the documents it was applied to. `RevisionsTell`
is what the comparison of revisions is worth: of everything that tells a document
under a revision (requests on the wire, the session, what an agent has read) no two
tell different ones, and none is newer than the window, as long as no edit was made
without a report and no window was reloaded; then equal revisions mean equal
documents. `NumbersName` says the same of proposal numbers and the proposals they
were given to, which is what the receipts come down to.

`DocumentFileProofs`, for any paths, documents, failures and calls under way at one
time: `FileTypeCorrect`, `FileInvariance`, `SavedIsInTheFile` (`CleanMeansSaved`),
`UnsavedHasASnapshot` (`UnsavedIsCovered`), `LostWorkIsOffered` (`NewestIsOffered`),
`SnapshotsHoldUnsavedWork` (`SnapshotsAreUnsaved`) and `SavesStay`
(`SaveStaysInItsDocument`), from `FileAssumption`: the bounds, and that `None` and a
torn snapshot are nothing else.

The argument. `CallsAreTrue` says what a save under way stands for: without a race
there is one, it holds the open document, and once it has renamed the file it is
there, synchronized before it is done; so marking the document as saved is right.
`FileIsOurs` says that the file holds an earlier state of the same document, older
than what is unsaved. The snapshots need their order: that of unsaved work is the
newest and stays so (`NewestFirst`), whatever is cleared behind it, and
`UntitledFirst` keeps work that has a file from having an untitled snapshot above
its own. `SupersededAreLeaving` says that a snapshot the file has caught up with is
cleared by a call that is under way or will be.

`BodyStreamProofs`, for any finite sets of bodies and callers, any shapes and builds
and any number of frames under way: `StreamTypeCorrect`, `StreamInvariance` and
`AnswersAreRight` (`AnswersAreTheBuild`), from `StreamAssumption`: bodies and callers
are finite (a number not in use exists), a build is a shape for some bodies, `None` is
no shape, and the bounds.

The argument. A stub says nothing but an etag, and the client fills it from what it
holds; so an etag must stand for one shape of its body. `EtagsMean` says so of the
payloads held on both sides, of the baseline, of every frame, reply and stream under
way and, for a stub, of the document its caller asked for, which is what makes the
filled result the right one. It is kept because a build gives a body a new shape only
under an etag not in use, and a payload it already holds only to the shape it has. The
rest says whose frames these are: `InOnePlace`, a request is waiting at the engine or
answered, never both; `HeadsRule`, a reply has one head, and the chunks behind it are of
bodies of its manifest under the manifest's etags; `AllAsAsked`, what is queued, sent or
half received under a caller's id is for the document it waits for, and a request for
everything gets no stub and no refusal (hence no `"noMesh"`); `ChunksAreFew` bounds the
sequence numbers. Every step of the client takes frames, drops or opens streams and
settles calls (`ClientKeeps`), every step of the engine adds one frame (`EngineKeeps`).

`SelectSeq` takes its test as an operator, about which these provers can prove
nothing; the filters of `LiveSession`, `PoolSupervisor` and `DocumentFile` are
`Filtered`, with the test as a set, and `SequenceFilterProofs` has what is used of
it: the elements left are those of the set, in their order, no more often than
before.

`RebuildWire`'s and `RebuildPipeline`'s inductive invariants are checked in the runs
`wire` and `pipeline`. The others were checked by TLC, as an invariant of the run's
instance, before they were proved: 4.1 million states for `EditHistory`, 0.7 for
`PoolSupervisor` (3.2 with three jobs and two mishaps), 0.1 for `LiveSession` (1.2
with two agents), 6.0 for `DocumentFile` (2.0 with two calls at a time), 0.3 for `BodyStream` (with
`Nat` cut to `0 .. 12`). To repeat it, give the run's `.cfg` the invariant `IInv` and a module that extends the
`...Proofs` module and `TLC`.

Out of the prover's reach and left to TLC: liveness under fairness and `ENABLED`
(`CallSettles`, `ComesToRest`, `EveryCallSettles`, `EveryRequestEnds`,
`SharingIsPublished`, `OffMeansForgotten`, `OffersDoNotStay`), and anything by
induction over data; no module here declares a `RECURSIVE` operator. Every
other property of the passing runs is a theorem.

## Plan

Done: `RebuildWire` with `StatelessEngine`, `RebuildPipeline`, `LiveSession`,
`PoolSupervisor`, `DocumentFile`, `EditHistory`, `BodyStream`, with their proofs.
Next, in this order:

1. `RebuildCache`: chain keys, prefix snapshots and disk checkpoints of
   `rebuild_cache.py` and `geomstore.py`, with eviction, against a rebuild from
   nothing: a cached prefix is the prefix.
2. The plugin host: activation order, grants, disposal.

## Not modelled

Geometry kernels, tessellation, the sketch solver, rendering, widgets, printers,
slicers and input devices: their difficulty is numeric or visual, or lies with
external programs. Versions, elements, migrations and the expression engine: pure
functions of a document with tests of their own, with which nothing interleaves. The
byte formats of frames and of the container, with its error correction. Launch, port
choice and logs of the shell, which are I/O; the death of the engine is `EngineDies`
in `RebuildWire`. Within a modelled part, what is left out is named in its section
above. These parts are most of the repository's lines; the modelled ones are where
several things happen at once.
