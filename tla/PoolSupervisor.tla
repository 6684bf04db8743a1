--------------------------- MODULE PoolSupervisor ---------------------------
(***************************************************************************)
(* The worker process that runs geometry jobs, and its supervision.        *)
(*   src/sidecar/server.py   _new_pool .. _run_stall, _serialized,         *)
(*                           _cancel_running, the end of handle()          *)
(*                                                                         *)
(* A pool has one worker, which takes jobs in turn.  A job cannot be       *)
(* interrupted: to stop one the worker is killed and a new pool made.  One *)
(* request at a time is supervised.  When its client leaves, its           *)
(* supervision ends and its job does not: the next job waits behind it.    *)
(*                                                                         *)
(* The pool (ProcessPoolExecutor) is modelled from how the supervisor      *)
(* uses it: when the worker dies every job it was given breaks, and a kill *)
(* may cancel those it had not been handed yet.                            *)
(***************************************************************************)
EXTENDS Integers, Sequences, FiniteSets, Functions, SequenceFilter

CONSTANTS Jobs,           \* requests
          Timed,          \* those under a plain timeout (_run)
          None,           \* absent
          MaxAttempts,    \* bring-ups that may fail in a row: 2
          Patience,       \* polls without progress before a job is reaped
          Handed,         \* jobs handed to the worker ahead of time: 2
          MaxBeats,       \* heartbeats of a job (a bound)
          MaxMishaps      \* deaths, cancels, departures, edits (a bound)

(* What a request may be told. *)
Answers == {"result", "cancelled", "crashed", "install", "stalled", "timed out"}

ASSUME PoolAssumption ==
    /\ IsFiniteSet(Jobs) /\ Timed \subseteq Jobs
    /\ None \notin Answers
    /\ MaxAttempts \in Nat \ {0} /\ Patience \in Nat \ {0} /\ Handed \in Nat \ {0}
    /\ MaxBeats \in Nat /\ MaxMishaps \in Nat

VARIABLES
    pool,      \* the pool, and what is known of its bring-up
    known,     \* what is known of all bring-ups
    stale,     \* the sources changed since the pool was made
    news,      \* bring-ups whose watcher has not run, oldest first
    queue,     \* requests that wait for the lock
    phase,     \* how far each request is
    fut,       \* its job
    gen,       \* the generation of the pool it was given to
    token,     \* requests that were cancelled
    answer,    \* what each request was told
    moved,     \* the heartbeat moved since the supervisor last looked
    age,       \* polls since it last moved
    beats,     \* heartbeats of each job so far
    truth,     \* what really happened (history)
    mishaps    \* mishaps left

vars == <<pool, known, stale, news, queue, phase, fut, gen, token, answer,
          moved, age, beats, truth, mishaps>>

Mishap == mishaps > 0 /\ mishaps' = mishaps - 1
-----------------------------------------------------------------------------
(* Bring-up, as functions of what is known (k) and the pool (p).           *)

CountTwice(k, g) ==                  \* mutant: our own kills count
    LET failed == k.failed \cup {g}
    IN  [k EXCEPT !.failed = failed,
                  !.broken = @ \/ (Cardinality(failed) >= MaxAttempts /\ ~k.cameUp)]
NoteInitFailure(k, g) ==
    IF g \in k.failed \cup k.reaped THEN k
    ELSE LET failed == k.failed \cup {g}
         IN  [k EXCEPT !.failed = failed,
                       !.broken = @ \/ (Cardinality(failed) >= MaxAttempts /\ ~k.cameUp)]

NoPool(p) == [p EXCEPT !.worker = "none", !.jobs = <<>>]
NewPool(k, p) ==
    IF k.broken THEN NoPool(p)
    ELSE [gen |-> p.gen + 1, worker |-> "starting", warm |-> "pending",
          jobs |-> <<>>]

CameUp(p, g) == p.gen = g /\ p.warm = "ok"

Reaped(k, p) == [k EXCEPT !.reaped = @ \cup {p.gen}]

(* What a kill does to the jobs of pool p: how many the worker was handed  *)
(* depends on whether the warm-up is still among them.                     *)
Unhanded(p) == IF p.warm = "pending" THEN Handed - 1 ELSE Handed

KilledFutures(p, cancelled) ==
    [j \in Jobs |->
        IF j \notin Range(p.jobs) THEN fut[j]
        ELSE IF cancelled /\ \E i \in DOMAIN p.jobs : p.jobs[i] = j /\ i > Unhanded(p)
        THEN "cancelled" ELSE "broken"]

(* The watcher of a warm-up that was pending hears that it broke. *)
KillNews(p) == IF p.warm = "pending" THEN Append(news, [gen |-> p.gen, ok |-> FALSE])
               ELSE news
-----------------------------------------------------------------------------
Init ==
    /\ pool = [gen |-> 1, worker |-> "starting", warm |-> "pending", jobs |-> <<>>]
    /\ known = [failed |-> {}, reaped |-> {}, cameUp |-> FALSE, broken |-> FALSE]
    /\ stale = FALSE
    /\ news = <<>>
    /\ queue = <<>>
    /\ phase = [j \in Jobs |-> "new"]
    /\ fut = [j \in Jobs |-> "none"]
    /\ gen = [j \in Jobs |-> 0]
    /\ token = {}
    /\ answer = [j \in Jobs |-> None]
    /\ moved = FALSE /\ age = 0
    /\ beats = [j \in Jobs |-> 0]
    /\ truth = [died |-> {}, guilty |-> {}, begun |-> {}, cameUp |-> FALSE,
                orphans |-> FALSE, idle |-> FALSE]
    /\ mishaps = MaxMishaps
-----------------------------------------------------------------------------
(* Requests.                                                               *)

HeldWhileRunning == \E j \in Jobs : phase[j] = "running"   \* mutant: replies
                                                           \* after the lock
Held == \E j \in Jobs : phase[j] \in {"running", "replying"}

Request(j) ==
    /\ phase[j] = "new"
    /\ phase' = [phase EXCEPT ![j] = "waiting"]
    /\ queue' = Append(queue, j)
    /\ UNCHANGED <<pool, known, stale, news, fut, gen, token, answer, moved,
                   age, beats, truth, mishaps>>

Says(j, what) ==
    /\ phase' = [phase EXCEPT ![j] = "replying"]
    /\ answer' = [answer EXCEPT ![j] = what]

(* _pool_available(): a worker of older sources is retired first. *)
Retired == stale /\ pool.worker # "none"

Available ==
    IF Retired \/ pool.worker = "none"
    THEN NewPool(IF Retired THEN Reaped(known, pool) ELSE known, pool)
    ELSE pool

(* The lock is free for the first in line: its job is given to the pool,   *)
(* up to the first await.                                                  *)
Acquire ==
    /\ queue # <<>> /\ ~Held
    /\ queue' = Tail(queue)
    /\ LET j == Head(queue)
           p == Available
       IN  IF known.broken
           THEN /\ Says(j, "install")
                /\ UNCHANGED <<pool, known, stale, news, fut, gen, moved, age>>
           ELSE /\ phase' = [phase EXCEPT ![j] = "running"]
                /\ IF Retired
                   THEN /\ known' = Reaped(known, pool)
                        /\ news' = KillNews(pool)
                        /\ \E cancelled \in BOOLEAN :
                              fut' = [KilledFutures(pool, cancelled)
                                         EXCEPT ![j] = "given"]
                   ELSE /\ fut' = [fut EXCEPT
                              ![j] = IF p.worker = "dead" THEN "broken" ELSE "given"]
                        /\ UNCHANGED <<known, news>>
                /\ pool' = IF p.worker = "dead" THEN p
                           ELSE [p EXCEPT !.jobs = Append(@, j)]
                /\ stale' = (stale /\ p.gen = pool.gen)
                /\ gen' = [gen EXCEPT ![j] = p.gen]
                /\ moved' = FALSE /\ age' = 0
                /\ UNCHANGED answer
    /\ UNCHANGED <<token, beats, truth, mishaps>>

(* The reply is sent, under the lock. *)
Replied(j) ==
    /\ phase[j] = "replying"
    /\ phase' = [phase EXCEPT ![j] = "answered"]
    /\ UNCHANGED <<pool, known, stale, news, queue, fut, gen, token, answer,
                   moved, age, beats, truth, mishaps>>

(* A client goes: its tasks are cancelled, and its job runs on, unless     *)
(* nothing shields it and the worker has not been handed it.               *)
Unshielded(j) ==
    j \in Timed /\ \E i \in DOMAIN pool.jobs : pool.jobs[i] = j /\ i > Unhanded(pool)

Leave(j) ==
    /\ Mishap
    /\ phase[j] \in {"waiting", "running", "replying"}
    /\ phase' = [phase EXCEPT ![j] = "left"]
    /\ queue' = Filtered(queue, Jobs \ {j})
    /\ IF phase[j] = "running" /\ Unshielded(j)
       THEN /\ pool' = [pool EXCEPT !.jobs = Filtered(@, Jobs \ {j})]
            /\ fut' = [fut EXCEPT ![j] = "cancelled"]
       ELSE UNCHANGED <<pool, fut>>
    /\ truth' = [truth EXCEPT !.orphans = @ \/ phase[j] = "running"]
    /\ UNCHANGED <<known, stale, news, gen, token, answer, moved, age, beats>>

(* The pool is killed and another made. *)
Recycle ==
    /\ known' = Reaped(known, pool)
    /\ news' = KillNews(pool)
    /\ pool' = NewPool(known, pool)
    /\ stale' = FALSE

(* _cancel_running(), on the path that reads requests: only the request    *)
(* that holds the lock has a token.                                        *)
Cancel(j) ==
    /\ Mishap
    /\ phase[j] \in {"running", "replying"}
    /\ token' = token \cup {j}
    /\ IF pool.worker = "none"
       THEN UNCHANGED <<pool, known, stale, news, fut>>
       ELSE /\ Recycle
            /\ \E cancelled \in BOOLEAN : fut' = KilledFutures(pool, cancelled)
    /\ UNCHANGED <<queue, phase, gen, answer, moved, age, beats, truth>>
-----------------------------------------------------------------------------
(* Supervision.                                                            *)

Unresolved(j) == fut[j] \in {"given", "begun"}

ClockFromSubmit == FALSE             \* mutant: the wait for the warm-up counts
WarmingUp == pool.warm = "pending"

(* The worker is about to take its next job: that is a moment, and the     *)
(* supervisor's patience a minute.                                         *)
Taking == pool.worker = "up" /\ pool.jobs # <<>> /\ fut[Head(pool.jobs)] = "given"

WorkerLives(j) ==                    \* mutant: a living worker is progress
    moved \/ pool.worker \in {"starting", "up"}
Progressing(j) == moved \/ (gen[j] = pool.gen /\ WarmingUp)

(* The poll of _run_stall.  The clock starts again when the heartbeat has  *)
(* moved, and stands while the warm-up is not over.                        *)
Poll(j) ==
    /\ phase[j] = "running" /\ j \notin Timed
    /\ Unresolved(j) /\ j \notin token /\ ~Taking
    /\ moved' = FALSE
    /\ IF Progressing(j)
       THEN /\ age' = 0
            /\ UNCHANGED <<pool, known, stale, news, fut, phase, answer>>
       ELSE IF age < Patience
       THEN /\ age' = age + 1
            /\ UNCHANGED <<pool, known, stale, news, fut, phase, answer>>
       ELSE /\ age' = 0
            /\ Recycle
            /\ \E cancelled \in BOOLEAN : fut' = KilledFutures(pool, cancelled)
            /\ Says(j, "stalled")
    /\ UNCHANGED <<queue, gen, token, beats, truth, mishaps>>

(* The timeout of _run. *)
Expire(j) ==
    /\ phase[j] = "running" /\ j \in Timed
    /\ Unresolved(j) /\ j \notin token
    /\ Recycle
    /\ \E cancelled \in BOOLEAN : fut' = KilledFutures(pool, cancelled)
    /\ Says(j, "timed out")
    /\ UNCHANGED <<queue, gen, token, moved, age, beats, truth, mishaps>>

(* A poll that finds the request cancelled; the job may not have broken yet. *)
HandedOver(j) == j \in token /\ fut[j] # "done"   \* mutant: a result is a result
Withdrawn(j) == j \in token

(* The job is over.  A cancelled one is reported so, whatever became of it.*)
(* The watcher of an earlier bring-up has been woken first.                *)
Resolve(j) ==
    /\ phase[j] = "running"
    /\ \/ fut[j] \in {"done", "broken"} /\ news = <<>>
       \/ j \in token
    /\ IF Withdrawn(j)
       THEN /\ Says(j, "cancelled")
            /\ UNCHANGED <<pool, known, stale>>
       ELSE IF fut[j] = "done"
       THEN /\ Says(j, "result")
            /\ UNCHANGED <<pool, known, stale>>
       ELSE IF CameUp(pool, gen[j])
       THEN /\ Says(j, "crashed")
            /\ pool' = NewPool(known, pool) /\ stale' = FALSE
            /\ UNCHANGED known
       ELSE IF gen[j] # pool.gen
       THEN /\ Says(j, "crashed")
            /\ UNCHANGED <<pool, known, stale>>
       ELSE /\ Says(j, "install")
            /\ known' = NoteInitFailure(known, gen[j])
            /\ pool' = NewPool(known', pool) /\ stale' = FALSE
    /\ UNCHANGED <<news, queue, fut, gen, token, moved, age, beats, truth,
                   mishaps>>

(* The job was cancelled before the worker was handed it: the supervisor   *)
(* takes that for its own end, and nobody answers the request.             *)
Vanish(j) ==
    /\ phase[j] = "running" /\ fut[j] = "cancelled"
    /\ phase' = [phase EXCEPT ![j] = "vanished"]
    /\ UNCHANGED <<pool, known, stale, news, queue, fut, gen, token, answer,
                   moved, age, beats, truth, mishaps>>

(* _watch_warmup(). *)
Watch ==
    /\ news # <<>>
    /\ news' = Tail(news)
    /\ LET n == Head(news)
       IN  known' = IF n.ok THEN [known EXCEPT !.cameUp = TRUE, !.failed = {}]
                    ELSE NoteInitFailure(known, n.gen)
    /\ UNCHANGED <<pool, stale, queue, phase, fut, gen, token, answer, moved,
                   age, beats, truth, mishaps>>
-----------------------------------------------------------------------------
(* The worker.                                                             *)

WorkerSteps == <<known, stale, queue, phase, gen, token, answer, age>>

BringUp ==
    /\ pool.worker = "starting"
    /\ pool' = [pool EXCEPT !.worker = "up", !.warm = "ok"]
    /\ news' = Append(news, [gen |-> pool.gen, ok |-> TRUE])
    /\ truth' = [truth EXCEPT !.cameUp = TRUE]
    /\ UNCHANGED <<WorkerSteps, fut, moved, beats, mishaps>>

Breaks == fut' = [j \in Jobs |-> IF j \in Range(pool.jobs) THEN "broken" ELSE fut[j]]

BringUpFails ==
    /\ Mishap
    /\ pool.worker = "starting"
    /\ pool' = [pool EXCEPT !.worker = "dead", !.warm = "broken", !.jobs = <<>>]
    /\ news' = Append(news, [gen |-> pool.gen, ok |-> FALSE])
    /\ Breaks
    /\ truth' = [truth EXCEPT !.died = @ \cup {pool.gen}]
    /\ UNCHANGED <<WorkerSteps, moved, beats>>

(* _job_entry(): a job announces that it has begun. *)
Begin ==
    /\ Taking
    /\ fut' = [fut EXCEPT ![Head(pool.jobs)] = "begun"]
    /\ moved' = (moved \/ Head(pool.jobs) \notin Timed)
    /\ truth' = [truth EXCEPT !.begun = @ \cup {Head(pool.jobs)}]
    /\ UNCHANGED <<WorkerSteps, pool, news, beats, mishaps>>

Running == pool.worker = "up" /\ pool.jobs # <<>> /\ fut[Head(pool.jobs)] = "begun"

Beat ==
    /\ Running /\ beats[Head(pool.jobs)] < MaxBeats
    /\ beats' = [beats EXCEPT ![Head(pool.jobs)] = @ + 1]
    /\ moved' = TRUE
    /\ UNCHANGED <<WorkerSteps, pool, news, fut, truth, mishaps>>

Finish ==
    /\ Running
    /\ fut' = [fut EXCEPT ![Head(pool.jobs)] = "done"]
    /\ pool' = [pool EXCEPT !.jobs = Tail(@)]
    /\ UNCHANGED <<WorkerSteps, news, moved, beats, truth, mishaps>>

(* The worker dies: of the job it runs, or of nothing (memory). *)
Die ==
    /\ Mishap
    /\ pool.worker = "up"
    /\ pool' = [pool EXCEPT !.worker = "dead", !.jobs = <<>>]
    /\ Breaks
    /\ truth' = IF Running THEN [truth EXCEPT !.guilty = @ \cup {Head(pool.jobs)}]
                ELSE [truth EXCEPT !.idle = TRUE]
    /\ UNCHANGED <<WorkerSteps, news, moved, beats>>

(* Somebody updates the package. *)
SourcesChange ==
    /\ Mishap /\ ~stale
    /\ stale' = TRUE
    /\ UNCHANGED <<pool, known, news, queue, phase, fut, gen, token, answer,
                   moved, age, beats, truth>>
-----------------------------------------------------------------------------
Next ==
    \/ \E j \in Jobs : Request(j)
    \/ Acquire
    \/ \E j \in Jobs : Replied(j)
    \/ \E j \in Jobs : Leave(j)
    \/ \E j \in Jobs : Cancel(j)
    \/ \E j \in Jobs : Poll(j)
    \/ \E j \in Jobs : Expire(j)
    \/ \E j \in Jobs : Resolve(j)
    \/ \E j \in Jobs : Vanish(j)
    \/ Watch
    \/ BringUp
    \/ BringUpFails
    \/ Begin
    \/ Beat
    \/ Finish
    \/ Die
    \/ SourcesChange

Spec == Init /\ [][Next]_vars

(* The event loop runs, a bring-up ends in some way, and an idle worker    *)
(* takes the next job.  It need not end one: it may hang for ever.         *)
Fairness ==
    /\ WF_vars(Acquire) /\ WF_vars(Watch)
    /\ WF_vars(BringUp \/ BringUpFails) /\ WF_vars(Begin)
    /\ \A j \in Jobs :
          WF_vars(Poll(j)) /\ WF_vars(Expire(j)) /\ WF_vars(Resolve(j))
              /\ WF_vars(Vanish(j)) /\ WF_vars(Replied(j))

FairSpec == Spec /\ Fairness
-----------------------------------------------------------------------------
(* Properties.                                                             *)

Generations == 1 .. MaxMishaps + Cardinality(Jobs) + 1

Pools == [gen : Generations, worker : {"none", "starting", "up", "dead"},
          warm : {"pending", "ok", "broken"}, jobs : Seq(Jobs)]
Knowledge == [failed : SUBSET Generations, reaped : SUBSET Generations,
              cameUp : BOOLEAN, broken : BOOLEAN]
News == [gen : Generations, ok : BOOLEAN]
Phases == {"new", "waiting", "running", "replying", "answered", "left", "vanished"}
Futures == {"none", "given", "begun", "done", "broken", "cancelled"}

TypeOK ==
    /\ pool \in Pools /\ known \in Knowledge
    /\ stale \in BOOLEAN /\ moved \in BOOLEAN /\ age \in 0 .. Patience
    /\ news \in Seq(News)
    /\ queue \in Seq(Jobs)
    /\ phase \in [Jobs -> Phases]
    /\ fut \in [Jobs -> Futures]
    /\ gen \in [Jobs -> Generations \cup {0}]
    /\ token \subseteq Jobs
    /\ answer \in [Jobs -> Answers \cup {None}]
    /\ beats \in [Jobs -> 0 .. MaxBeats]
    /\ Cardinality({j \in Jobs : phase[j] \in {"running", "replying"}}) <= 1
    /\ mishaps \in 0 .. MaxMishaps

(* Geometry is given up for the session only when that many workers failed *)
(* to start by themselves, and none ever did: not when the user cancelled  *)
(* during a slow start, nor when a worker crashed twice.                   *)
GivesUpOnlyWhenBroken ==
    known.broken => Cardinality(truth.died) >= MaxAttempts /\ ~truth.cameUp

(* What a request is told is what happened to it.  (A crash or a stall is  *)
(* laid at the door of whoever is being supervised: it is another's when a *)
(* client has left its job running, or when the worker died idle.)         *)
AnswersAreTrue ==
    \A j \in Jobs :
        /\ answer[j] = "result" => fut[j] = "done"
        /\ answer[j] = "cancelled" => j \in token
        /\ answer[j] = "crashed" => j \in truth.guilty \/ truth.orphans \/ truth.idle
        /\ answer[j] = "stalled" => j \in truth.begun \/ truth.orphans
        /\ answer[j] = "install" => truth.died # {}

(* A cancel that is heard while the job runs is what its caller is told:   *)
(* no result, and no crash.                                                *)
CancelIsKept ==
    [][\A j \in Jobs :
          j \in token /\ phase[j] = "running" /\ phase'[j] = "replying" =>
              answer'[j] = "cancelled"]_vars

(* Whoever asks is answered, whatever the worker does: unless they leave,  *)
(* or cancel behind jobs that others left.                                 *)
EveryRequestEnds ==
    \A j \in Jobs :
        phase[j] = "waiting" ~>
            \/ phase[j] \in {"answered", "left"}
            \/ phase[j] = "vanished" /\ truth.orphans

(* Whoever asks and stays is answered.  The code does not promise it: see  *)
(* Vanish.                                                                 *)
EveryRequestIsAnswered ==
    \A j \in Jobs : phase[j] = "waiting" ~> phase[j] \in {"answered", "left"}
=============================================================================
