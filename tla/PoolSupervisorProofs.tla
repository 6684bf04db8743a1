------------------------ MODULE PoolSupervisorProofs ------------------------
(***************************************************************************)
(* The supervisor gives up only when it must, tells every request what     *)
(* happened to it, and keeps a cancel that it heard.                       *)
(***************************************************************************)
EXTENDS PoolSupervisor, SequenceFilterProofs

-----------------------------------------------------------------------------
(* The inductive invariant.                                                *)

(* One request holds the lock; those that wait for it have no job yet.     *)
Active == {"running", "replying"}
Unanswered == {"new", "waiting", "running", "vanished"}

OneHolds ==
    \A i, j \in Jobs : phase[i] \in Active /\ phase[j] \in Active => i = j

QueueWaits ==
    /\ \A i \in DOMAIN queue : phase[queue[i]] = "waiting"
    /\ Distinct(queue)

WaitersAreIdle ==
    \A j \in Jobs :
        /\ phase[j] \in {"new", "waiting"} => fut[j] = "none" /\ j \notin token
        /\ phase[j] \in Unanswered => answer[j] = None

(* The pool has the jobs that are not over, once each.  A job of a request *)
(* that is no longer supervised is an orphan.                              *)
PoolHasTheJobs ==
    /\ \A j \in Jobs : Unresolved(j) <=> \E i \in DOMAIN pool.jobs : pool.jobs[i] = j
    /\ Distinct(pool.jobs)
    /\ \A j \in Jobs : Unresolved(j) =>
          \/ phase[j] = "running" /\ j \notin token
          \/ truth.orphans
    /\ \A j \in Jobs : fut[j] = "begun" => j \in truth.begun

(* What the worker does and how far its bring-up got. *)
WorkerIsAsWarm ==
    /\ pool.worker = "starting" => pool.warm = "pending"
    /\ pool.worker = "up" => pool.warm = "ok"
    /\ pool.worker = "dead" => pool.warm \in {"ok", "broken"}
    /\ pool.worker \in {"none", "dead"} => pool.jobs = <<>>
    /\ pool.worker = "none" => known.broken
    /\ pool.warm = "broken" =>
          pool.worker \in {"none", "dead"} /\ pool.gen \in truth.died

(* The job that is supervised is in the pool there is, unless a cancel     *)
(* recycled that; it breaks only with the worker.                          *)
SupervisedIsHere ==
    \A j \in Jobs : phase[j] = "running" /\ j \notin token =>
        /\ gen[j] = pool.gen /\ pool.worker # "none"
        /\ fut[j] = "broken" => pool.worker = "dead"

(* A worker that came up and died did so of the job that is supervised, or *)
(* of one that was left, or of nothing.                                    *)
DeathHasACause ==
    pool.worker = "dead" /\ pool.warm = "ok" =>
        \/ truth.orphans \/ truth.idle
        \/ \E k \in Jobs : /\ phase[k] = "running" /\ k \notin token
                           /\ fut[k] = "broken" /\ k \in truth.guilty

(* The bring-ups not yet heard of, oldest first.  A failure that counts is *)
(* the last of them, and that of a worker that died by itself.             *)
NewsInOrder ==
    /\ \A i, k \in DOMAIN news : i < k => news[i].gen < news[k].gen
    /\ \A i \in DOMAIN news :
          /\ news[i].gen <= pool.gen
          /\ news[i].gen = pool.gen => pool.warm # "pending"
          /\ ~news[i].ok =>
                \/ news[i].gen \in known.reaped
                \/ news[i].gen = pool.gen /\ pool.warm = "broken"

FailuresAreDeaths ==
    /\ known.failed \subseteq truth.died
    /\ truth.cameUp => known.cameUp \/ \E i \in DOMAIN news : news[i].ok
    /\ known.broken =>
          /\ \/ pool.worker = "none"
             \/ pool.worker = "dead" /\ pool.warm = "broken"
          /\ GivesUpOnlyWhenBroken

(* A pool is made for a request, a mishap, or sources that changed. *)
Expecting == {j \in Jobs : phase[j] \in {"new", "waiting", "running"}}
PoolsAreBudgeted ==
    pool.gen + (IF stale THEN 1 ELSE 0) + mishaps + Cardinality(Expecting)
        <= 1 + MaxMishaps + Cardinality(Jobs)

Histories == [died : SUBSET Generations, guilty : SUBSET Jobs,
              begun : SUBSET Jobs, cameUp : BOOLEAN, orphans : BOOLEAN,
              idle : BOOLEAN]

IInv ==
    /\ TypeOK /\ truth \in Histories
    /\ OneHolds /\ QueueWaits /\ WaitersAreIdle
    /\ PoolHasTheJobs /\ WorkerIsAsWarm /\ SupervisedIsHere /\ DeathHasACause
    /\ NewsInOrder /\ FailuresAreDeaths /\ PoolsAreBudgeted
    /\ AnswersAreTrue
-----------------------------------------------------------------------------
(* What the helpers return.                                                *)

LEMMA GenerationBound ==
    /\ Cardinality(Jobs) \in Nat /\ MaxMishaps \in Nat
    /\ \A g \in Generations : g \in Nat /\ g >= 1
    /\ \A g \in Nat : g >= 1 /\ g <= 1 + MaxMishaps + Cardinality(Jobs)
          => g \in Generations
<1>1. Cardinality(Jobs) \in Nat /\ MaxMishaps \in Nat
  BY PoolAssumption, FS_CardinalityType
<1> QED
  BY <1>1 DEF Generations

(* There is room for a pool while anything is expected. *)
LEMMA RoomForAPool ==
    ASSUME IInv,
           \/ stale
           \/ mishaps > 0
           \/ \E j \in Jobs : phase[j] \in {"new", "waiting", "running"}
    PROVE  pool.gen + 1 \in Generations
<1>1. /\ pool.gen \in Nat /\ pool.gen >= 1 /\ mishaps \in Nat
      /\ stale \in BOOLEAN
  BY GenerationBound, PoolAssumption DEF IInv, TypeOK, Pools
<1>2. IsFiniteSet(Expecting) /\ Cardinality(Expecting) \in Nat
  <2>1. Expecting \in SUBSET Jobs
    BY DEF Expecting
  <2> QED
    BY <2>1, PoolAssumption, FS_Subset, FS_CardinalityType
<1>3. (\E j \in Jobs : phase[j] \in {"new", "waiting", "running"})
        => Cardinality(Expecting) # 0
  <2>1. (\E j \in Jobs : phase[j] \in {"new", "waiting", "running"})
          => Expecting # {}
    BY DEF Expecting
  <2> QED
    BY <2>1, <1>2, FS_EmptySet
<1>4. pool.gen + (IF stale THEN 1 ELSE 0) + mishaps + Cardinality(Expecting)
        <= 1 + MaxMishaps + Cardinality(Jobs)
  BY DEF IInv, PoolsAreBudgeted
<1>5. pool.gen + 1 <= 1 + MaxMishaps + Cardinality(Jobs)
  BY <1>1, <1>2, <1>3, <1>4, GenerationBound
<1> QED
  BY <1>1, <1>5, GenerationBound

(* A pool is made, unless geometry was given up. *)
LEMMA NewPoolIs ==
    ASSUME NEW k, NEW p \in Pools, k.broken \/ p.gen + 1 \in Generations
    PROVE  /\ NewPool(k, p) \in Pools
           /\ NewPool(k, p).jobs = <<>>
           /\ k.broken => /\ NewPool(k, p).worker = "none"
                          /\ NewPool(k, p).gen = p.gen
                          /\ NewPool(k, p).warm = p.warm
           /\ ~k.broken => /\ NewPool(k, p).worker = "starting"
                           /\ NewPool(k, p).gen = p.gen + 1
                           /\ NewPool(k, p).warm = "pending"
<1>1. <<>> \in Seq(Jobs)
  OBVIOUS
<1> QED
  BY <1>1 DEF NewPool, NoPool, Pools

(* A kill breaks or cancels the jobs the pool has, and no other. *)
LEMMA KilledFuturesAre ==
    ASSUME IInv, NEW c \in BOOLEAN
    PROVE  /\ KilledFutures(pool, c) \in [Jobs -> Futures]
           /\ \A j \in Jobs :
                 IF Unresolved(j)
                 THEN KilledFutures(pool, c)[j] \in {"broken", "cancelled"}
                 ELSE KilledFutures(pool, c)[j] = fut[j]
<1>1. \A j \in Jobs : Unresolved(j) <=> j \in Range(pool.jobs)
  BY DEF IInv, PoolHasTheJobs, Range
<1>2. \A j \in Jobs : fut[j] \in Futures
  BY DEF IInv, TypeOK
<1> QED
  BY <1>1, <1>2 DEF KilledFutures, Futures

LEMMA BrokenFuturesAre ==
    ASSUME IInv, Breaks
    PROVE  /\ fut' \in [Jobs -> Futures]
           /\ \A j \in Jobs :
                 IF Unresolved(j) THEN fut'[j] = "broken" ELSE fut'[j] = fut[j]
<1>1. \A j \in Jobs : Unresolved(j) <=> j \in Range(pool.jobs)
  BY DEF IInv, PoolHasTheJobs, Range
<1>2. \A j \in Jobs : fut[j] \in Futures
  BY DEF IInv, TypeOK
<1> QED
  BY <1>1, <1>2 DEF Breaks, Futures

(* Its watcher, if the warm-up was pending, will hear of it. *)
LEMMA KillNewsIs ==
    ASSUME IInv
    PROVE  /\ KillNews(pool) \in Seq(News)
           /\ pool.warm # "pending" => KillNews(pool) = news
           /\ pool.warm = "pending" =>
                 KillNews(pool) = Append(news, [gen |-> pool.gen, ok |-> FALSE])
<1>1. [gen |-> pool.gen, ok |-> FALSE] \in News /\ news \in Seq(News)
  BY DEF IInv, TypeOK, Pools, News
<1> QED
  BY <1>1, AppendElements DEF KillNews

LEMMA ReapedIs ==
    ASSUME NEW k \in Knowledge, NEW p \in Pools
    PROVE  /\ Reaped(k, p) \in Knowledge
           /\ Reaped(k, p).failed = k.failed
           /\ Reaped(k, p).reaped = k.reaped \cup {p.gen}
           /\ Reaped(k, p).cameUp = k.cameUp
           /\ Reaped(k, p).broken = k.broken
BY DEF Reaped, Knowledge, Pools

LEMMA NoteInitFailureIs ==
    ASSUME NEW k \in Knowledge, NEW g \in Generations
    PROVE  LET n == NoteInitFailure(k, g)
           IN  /\ n \in Knowledge
               /\ n.reaped = k.reaped /\ n.cameUp = k.cameUp
               /\ g \in k.reaped => n = k
               /\ n.failed \subseteq k.failed \cup {g}
               /\ k.broken => n.broken
               /\ n.broken => k.broken \/ (/\ g \notin k.reaped
                                           /\ n.failed = k.failed \cup {g}
                                           /\ Cardinality(n.failed) >= MaxAttempts
                                           /\ ~k.cameUp)
<1> DEFINE failed == k.failed \cup {g}
           broken == k.broken \/ (Cardinality(failed) >= MaxAttempts /\ ~k.cameUp)
<1>1. failed \in SUBSET Generations /\ broken \in BOOLEAN
  BY DEF Knowledge
<1>2. CASE g \in k.failed \cup k.reaped
  BY <1>2 DEF NoteInitFailure
<1>3. CASE g \notin k.failed \cup k.reaped
  <2> DEFINE n == NoteInitFailure(k, g)
  <2>1. n = [k EXCEPT !.failed = failed, !.broken = broken]
    BY <1>3 DEF NoteInitFailure
  <2> HIDE DEF failed, broken, n
  <2>2. n \in Knowledge /\ n.failed = failed /\ n.broken = broken
        /\ n.reaped = k.reaped /\ n.cameUp = k.cameUp
    BY <2>1, <1>1 DEF Knowledge
  <2> QED
    BY <2>2, <1>3 DEF failed, broken, n
<1> QED
  BY <1>2, <1>3
-----------------------------------------------------------------------------
(* What the steps that replace the pool come to.                           *)

(* A kill: the pool's jobs are over, and another pool is made unless       *)
(* geometry was given up.                                                  *)
Replaced ==
    /\ pool' \in Pools /\ pool'.jobs = <<>>
    /\ \/ /\ known.broken /\ pool.worker = "dead" /\ pool'.worker = "none"
          /\ pool'.gen = pool.gen /\ pool'.warm = pool.warm
       \/ /\ ~known.broken /\ pool'.worker = "starting"
          /\ pool'.gen = pool.gen + 1 /\ pool'.warm = "pending"
    /\ known' = Reaped(known, pool)
    /\ news' = KillNews(pool)
    /\ stale' = FALSE
    /\ fut' \in [Jobs -> Futures]
    /\ \A j \in Jobs : IF Unresolved(j) THEN fut'[j] \in {"broken", "cancelled"}
                       ELSE fut'[j] = fut[j]

LEMMA RecycleReplaces ==
    ASSUME IInv, Recycle, pool.worker # "none",
           NEW c \in BOOLEAN, fut' = KilledFutures(pool, c),
           \/ mishaps > 0
           \/ \E j \in Jobs : phase[j] \in {"new", "waiting", "running"}
    PROVE  Replaced
<1>1. pool.gen + 1 \in Generations /\ pool \in Pools
  BY RoomForAPool DEF IInv, TypeOK
<1>2. known.broken => pool.worker = "dead"
  BY DEF IInv, FailuresAreDeaths
<1>3. pool' = NewPool(known, pool)
  BY DEF Recycle
<1>4. /\ pool' \in Pools /\ pool'.jobs = <<>>
      /\ known.broken => /\ pool'.worker = "none" /\ pool'.gen = pool.gen
                         /\ pool'.warm = pool.warm
      /\ ~known.broken => /\ pool'.worker = "starting" /\ pool'.gen = pool.gen + 1
                          /\ pool'.warm = "pending"
  BY <1>1, <1>3, NewPoolIs
<1>5. /\ fut' \in [Jobs -> Futures]
      /\ \A j \in Jobs : IF Unresolved(j) THEN fut'[j] \in {"broken", "cancelled"}
                         ELSE fut'[j] = fut[j]
  BY KilledFuturesAre
<1> QED
  BY <1>2, <1>4, <1>5 DEF Replaced, Recycle

(* A job that is not over has a pool with a worker that lives. *)
LEMMA UnresolvedHasAWorker ==
    ASSUME IInv, NEW j \in Jobs, Unresolved(j)
    PROVE  pool.worker \in {"starting", "up"} /\ pool.jobs # <<>> /\ ~known.broken
<1>1. pool.jobs # <<>>
  <2>1. PICK i \in DOMAIN pool.jobs : pool.jobs[i] = j
    BY DEF IInv, PoolHasTheJobs
  <2>2. DOMAIN <<>> = {}
    OBVIOUS
  <2> QED
    BY <2>1, <2>2
<1> QED
  BY <1>1 DEF IInv, TypeOK, Pools, WorkerIsAsWarm, FailuresAreDeaths

(* The first in line is refused, ... *)
AcquireRefused(j) ==
    /\ known.broken /\ Says(j, "install")
    /\ UNCHANGED <<pool, known, stale, news, fut, gen, moved, age>>

(* ... has its job broken by a worker that is dead, ... *)
AcquireDead(j) ==
    /\ ~known.broken /\ pool.worker = "dead"
    /\ fut' = [fut EXCEPT ![j] = "broken"]
    /\ UNCHANGED <<pool, known, stale, news>>

(* ... gives it to the pool there is, ... *)
AcquireInto(j) ==
    /\ ~known.broken /\ pool.worker \in {"starting", "up"}
    /\ fut' = [fut EXCEPT ![j] = "given"]
    /\ pool' = [pool EXCEPT !.jobs = Append(@, j)]
    /\ UNCHANGED <<known, stale, news>>

(* ... or to a new one. *)
AcquireAfresh(j) ==
    /\ ~known.broken /\ stale /\ stale' = FALSE
    /\ pool' = [gen |-> pool.gen + 1, worker |-> "starting", warm |-> "pending",
                jobs |-> <<j>>]
    /\ known' = Reaped(known, pool)
    /\ news' = KillNews(pool)
    /\ fut' \in [Jobs -> Futures]
    /\ fut'[j] = "given"
    /\ \A i \in Jobs \ {j} :
          IF Unresolved(i) THEN fut'[i] \in {"broken", "cancelled"}
          ELSE fut'[i] = fut[i]

AcquireRuns(j) ==
    /\ phase' = [phase EXCEPT ![j] = "running"]
    /\ gen' = [gen EXCEPT ![j] = pool'.gen]
    /\ moved' = FALSE /\ age' = 0
    /\ UNCHANGED answer
    /\ AcquireDead(j) \/ AcquireInto(j) \/ AcquireAfresh(j)

LEMMA AcquireCases ==
    ASSUME IInv, Acquire
    PROVE  /\ \A i \in Jobs : phase[i] \notin Active
           /\ queue # <<>> /\ queue' = Tail(queue) /\ Head(queue) \in Jobs
           /\ phase[Head(queue)] = "waiting" /\ fut[Head(queue)] = "none"
           /\ Head(queue) \notin token
           /\ UNCHANGED <<token, beats, truth, mishaps>>
           /\ AcquireRefused(Head(queue)) \/ AcquireRuns(Head(queue))
<1> DEFINE j == Head(queue)
<1>1. /\ \A i \in Jobs : phase[i] \notin Active
      /\ queue # <<>> /\ queue' = Tail(queue)
      /\ UNCHANGED <<token, beats, truth, mishaps>>
  BY DEF Acquire, Held, Active
<1>2. j \in Jobs /\ phase[j] = "waiting"
  <2>1. j \in Jobs /\ j = queue[1] /\ 1 \in DOMAIN queue
    BY <1>1, TailElements DEF IInv, TypeOK
  <2> QED
    BY <2>1 DEF IInv, QueueWaits
<1>3. fut[j] = "none" /\ j \notin token
  BY <1>2 DEF IInv, WaitersAreIdle
<1>4. pool \in Pools /\ known \in Knowledge /\ fut \in [Jobs -> Futures]
      /\ stale \in BOOLEAN
  BY DEF IInv, TypeOK
<1>5. CASE known.broken
  <2>1. AcquireRefused(j)
    BY <1>5, Zenon DEF Acquire, AcquireRefused
  <2> QED
    BY <1>1, <1>2, <1>3, <2>1
<1>6. CASE ~known.broken
  <2>1. pool.worker \in {"starting", "up", "dead"}
    BY <1>4, <1>6 DEF IInv, WorkerIsAsWarm, Pools
  <2>2. CASE Retired
    <3>1. pool.gen + 1 \in Generations /\ stale
      BY <2>2, RoomForAPool DEF Retired
    <3>2. Reaped(known, pool).broken = known.broken
      BY <1>4, ReapedIs
    <3>3. Available = NewPool(Reaped(known, pool), pool)
      BY <2>2 DEF Available
    <3>4. Available = [gen |-> pool.gen + 1, worker |-> "starting",
                       warm |-> "pending", jobs |-> <<>>]
      BY <3>2, <3>3, <1>6 DEF NewPool
    <3>5. Append(<<>>, j) = <<j>>
      OBVIOUS
    <3>6. [Available EXCEPT !.jobs = Append(@, j)]
            = [gen |-> pool.gen + 1, worker |-> "starting",
               warm |-> "pending", jobs |-> <<j>>]
      BY <3>4, <3>5
    <3>7. PICK c \in BOOLEAN : fut' = [KilledFutures(pool, c) EXCEPT ![j] = "given"]
      BY <1>6, <2>2 DEF Acquire
    <3>8. /\ fut' \in [Jobs -> Futures]
          /\ fut'[j] = "given"
          /\ \A i \in Jobs \ {j} :
                IF Unresolved(i) THEN fut'[i] \in {"broken", "cancelled"}
                ELSE fut'[i] = fut[i]
      BY <3>7, <1>2, KilledFuturesAre DEF Futures
    <3>9. Available.worker # "dead" /\ Available.gen = pool.gen + 1
      BY <3>4
    <3>10. /\ phase' = [phase EXCEPT ![j] = "running"]
           /\ known' = Reaped(known, pool) /\ news' = KillNews(pool)
           /\ pool' = [Available EXCEPT !.jobs = Append(@, j)]
           /\ stale' = (stale /\ Available.gen = pool.gen)
           /\ gen' = [gen EXCEPT ![j] = Available.gen]
           /\ moved' = FALSE /\ age' = 0 /\ UNCHANGED answer
      BY <1>6, <2>2, <3>9 DEF Acquire
    <3>11. pool.gen \in Nat
      BY <1>4, GenerationBound DEF Pools
    <3>12. stale' = FALSE
      <4>1. Available.gen # pool.gen
        BY <3>9, <3>11
      <4> QED
        BY <4>1, <3>10, Zenon
    <3>13. AcquireAfresh(j)
      BY <1>6, <3>1, <3>6, <3>8, <3>10, <3>12 DEF AcquireAfresh
    <3>14. pool'.gen = Available.gen
      BY <3>6, <3>9, <3>10
    <3> QED
      BY <1>1, <1>2, <1>3, <3>10, <3>13, <3>14 DEF AcquireRuns
  <2>3. CASE ~Retired
    <3>1. Available = pool
      BY <2>1, <2>3 DEF Available
    <3>2. /\ phase' = [phase EXCEPT ![j] = "running"]
          /\ fut' = [fut EXCEPT ![j] = IF pool.worker = "dead" THEN "broken" ELSE "given"]
          /\ known' = known /\ news' = news
          /\ pool' = IF pool.worker = "dead" THEN pool
                     ELSE [pool EXCEPT !.jobs = Append(@, j)]
          /\ stale' = (stale /\ pool.gen = pool.gen)
          /\ gen' = [gen EXCEPT ![j] = pool.gen]
          /\ moved' = FALSE /\ age' = 0 /\ UNCHANGED answer
      BY <1>6, <2>3, <3>1, Zenon DEF Acquire
    <3>3. stale' = stale
      BY <3>2, <1>4
    <3>4. pool'.gen = pool.gen
      BY <3>2, <1>4 DEF Pools
    <3>5. AcquireDead(j) \/ AcquireInto(j)
      BY <1>6, <2>1, <3>2, <3>3 DEF AcquireDead, AcquireInto
    <3> QED
      BY <1>1, <1>2, <1>3, <3>2, <3>4, <3>5 DEF AcquireRuns
  <2> QED
    BY <2>2, <2>3
<1> QED
  BY <1>1, <1>2, <1>3, <1>5, <1>6
(* The job that is supervised breaks with the worker there is. *)
ResolveBroken(j) ==
    /\ fut[j] = "broken" /\ j \notin token /\ news = <<>>
    /\ pool.worker = "dead" /\ gen[j] = pool.gen
    /\ stale' = FALSE
    /\ pool' = NewPool(known', pool) /\ pool' \in Pools /\ pool'.jobs = <<>>
    /\ known' \in Knowledge
    /\ known'.broken => /\ pool'.worker = "none" /\ pool'.gen = pool.gen
                        /\ pool'.warm = pool.warm
    /\ ~known'.broken => /\ pool'.worker = "starting"
                         /\ pool'.gen = pool.gen + 1
                         /\ pool'.warm = "pending"
    /\ \/ pool.warm = "ok" /\ known' = known /\ Says(j, "crashed")
       \/ /\ pool.warm = "broken" /\ known' = NoteInitFailure(known, pool.gen)
          /\ Says(j, "install")

ResolveDone(j) ==
    /\ \/ j \in token /\ Says(j, "cancelled")
       \/ j \notin token /\ fut[j] = "done" /\ Says(j, "result")
    /\ UNCHANGED <<pool, known, stale>>

LEMMA ResolveCases ==
    ASSUME IInv, NEW j \in Jobs, Resolve(j)
    PROVE  ResolveDone(j) \/ ResolveBroken(j)
<1>1. phase[j] = "running" /\ pool \in Pools /\ known \in Knowledge
  BY DEF Resolve, IInv, TypeOK
<1>2. CASE j \in token
  BY <1>2 DEF Resolve, Withdrawn, ResolveDone
<1>3. CASE j \notin token /\ fut[j] = "done"
  BY <1>3 DEF Resolve, Withdrawn, ResolveDone
<1>4. CASE j \notin token /\ fut[j] # "done"
  <2>1. fut[j] = "broken" /\ news = <<>>
    BY <1>4 DEF Resolve
  <2>2. gen[j] = pool.gen /\ pool.worker = "dead" /\ pool.warm \in {"ok", "broken"}
    BY <1>1, <1>4, <2>1 DEF IInv, SupervisedIsHere, WorkerIsAsWarm
  <2>3. pool.gen \in Generations /\ pool.gen + 1 \in Generations
    BY <1>1, RoomForAPool DEF Pools
  <2>4. NoteInitFailure(known, pool.gen) \in Knowledge
    BY <1>1, <2>3, NoteInitFailureIs
  <2>5. \A k : /\ NewPool(k, pool) \in Pools /\ NewPool(k, pool).jobs = <<>>
               /\ k.broken => /\ NewPool(k, pool).worker = "none"
                              /\ NewPool(k, pool).gen = pool.gen
                              /\ NewPool(k, pool).warm = pool.warm
               /\ ~k.broken => /\ NewPool(k, pool).worker = "starting"
                               /\ NewPool(k, pool).gen = pool.gen + 1
                               /\ NewPool(k, pool).warm = "pending"
    BY <1>1, <2>3, NewPoolIs
  <2>6. CASE pool.warm = "ok"
    <3>1. /\ Says(j, "crashed") /\ pool' = NewPool(known, pool)
          /\ stale' = FALSE /\ known' = known
      BY <1>4, <2>2, <2>6 DEF Resolve, Withdrawn, CameUp
    <3> QED
      BY <1>1, <1>4, <2>1, <2>2, <2>5, <2>6, <3>1 DEF ResolveBroken
  <2>7. CASE pool.warm = "broken"
    <3>1. /\ Says(j, "install") /\ pool' = NewPool(known', pool)
          /\ stale' = FALSE /\ known' = NoteInitFailure(known, pool.gen)
      BY <1>4, <2>2, <2>7 DEF Resolve, Withdrawn, CameUp
    <3> QED
      BY <1>1, <1>4, <2>1, <2>2, <2>4, <2>5, <2>7, <3>1 DEF ResolveBroken
  <2> QED
    BY <2>2, <2>6, <2>7
<1> QED
  BY <1>2, <1>3, <1>4

(* A poll looks on, or has the pool killed. *)
PollWaits ==
    /\ age' \in 0 .. Patience /\ moved' = FALSE
    /\ UNCHANGED <<pool, known, stale, news, fut, phase, answer>>

PollKills(j) ==
    /\ age' \in 0 .. Patience /\ moved' = FALSE
    /\ ~Progressing(j) /\ Replaced /\ Says(j, "stalled")

LEMMA PollCases ==
    ASSUME IInv, NEW j \in Jobs, Poll(j)
    PROVE  PollWaits \/ PollKills(j)
<1>1. phase[j] = "running" /\ pool.worker # "none" /\ moved' = FALSE
      /\ age \in 0 .. Patience /\ Patience \in Nat
  BY UnresolvedHasAWorker, PoolAssumption DEF Poll, IInv, TypeOK
<1>2. CASE Progressing(j)
  BY <1>1, <1>2 DEF Poll, PollWaits
<1>3. CASE ~Progressing(j) /\ age < Patience
  <2>1. age' = age + 1 /\ UNCHANGED <<pool, known, stale, news, fut, phase, answer>>
    BY <1>3 DEF Poll
  <2> QED
    BY <1>1, <1>3, <2>1 DEF PollWaits
<1>4. CASE ~Progressing(j) /\ ~(age < Patience)
  <2>1. /\ age' = 0 /\ Recycle /\ Says(j, "stalled")
        /\ \E c \in BOOLEAN : fut' = KilledFutures(pool, c)
    BY <1>4, Zenon DEF Poll
  <2>2. Replaced
    BY <1>1, <2>1, RecycleReplaces
  <2> QED
    BY <1>1, <1>4, <2>1, <2>2 DEF PollKills
<1> QED
  BY <1>2, <1>3, <1>4
-----------------------------------------------------------------------------
(* The requests: who holds the lock, who waits, who was answered.          *)

LEMMA SamePlaces ==
    ASSUME IInv, UNCHANGED <<phase, queue, token, answer>>,
           \A j \in Jobs : fut[j] = "none" => fut'[j] = "none"
    PROVE  OneHolds' /\ QueueWaits' /\ WaitersAreIdle'
BY DEF IInv, OneHolds, QueueWaits, WaitersAreIdle

(* A request that leaves the lock, or the line, leaves the others alone. *)
LEMMA GoesOn ==
    ASSUME IInv, NEW j \in Jobs, NEW p, phase[j] \in Active,
           p \in {"replying", "answered", "left", "vanished"},
           phase' = [phase EXCEPT ![j] = p],
           \A i \in Jobs : i # j => answer'[i] = answer[i],
           p = "vanished" => answer'[j] = answer[j] /\ phase[j] = "running",
           \A i \in Jobs : fut[i] = "none" => fut'[i] = "none",
           UNCHANGED <<queue, token>>
    PROVE  OneHolds' /\ QueueWaits' /\ WaitersAreIdle'
<1>1. phase \in [Jobs -> Phases] /\ queue \in Seq(Jobs)
  BY DEF IInv, TypeOK
<1>2. \A i \in Jobs : phase'[i] = IF i = j THEN p ELSE phase[i]
  BY <1>1
<1>3. OneHolds'
  BY <1>2 DEF IInv, OneHolds, Active
<1>4. QueueWaits'
  <2>1. \A i \in DOMAIN queue : queue[i] \in Jobs /\ phase[queue[i]] = "waiting"
    BY <1>1 DEF IInv, QueueWaits
  <2> QED
    BY <2>1, <1>2 DEF IInv, QueueWaits, Active
<1>5. WaitersAreIdle'
  BY <1>2 DEF IInv, WaitersAreIdle, Unanswered, Active
<1> QED
  BY <1>3, <1>4, <1>5

LEMMA PlacesStep ==
    ASSUME IInv, [Next]_vars
    PROVE  OneHolds' /\ QueueWaits' /\ WaitersAreIdle'
<1>1. /\ phase \in [Jobs -> Phases] /\ queue \in Seq(Jobs) /\ fut \in [Jobs -> Futures]
      /\ answer \in [Jobs -> Answers \cup {None}]
  BY DEF IInv, TypeOK
<1>2. ASSUME NEW j \in Jobs, Request(j) PROVE OneHolds' /\ QueueWaits' /\ WaitersAreIdle'
  <2>1. /\ phase[j] = "new" /\ queue' = Append(queue, j)
        /\ \A i \in Jobs : phase'[i] = IF i = j THEN "waiting" ELSE phase[i]
        /\ UNCHANGED <<fut, token, answer>>
    BY <1>1, <1>2 DEF Request
  <2>2. \A i \in DOMAIN queue : queue[i] \in Jobs /\ phase[queue[i]] = "waiting"
    BY <1>1 DEF IInv, QueueWaits
  <2>3. \A i \in DOMAIN queue' : (i \in DOMAIN queue /\ queue'[i] = queue[i]) \/ queue'[i] = j
    BY <1>1, <2>1, AppendElements
  <2>4. Distinct(queue')
    BY <1>1, <2>1, <2>2, AppendElements DEF IInv, QueueWaits
  <2> QED
    BY <2>1, <2>2, <2>3, <2>4
    DEF IInv, OneHolds, QueueWaits, WaitersAreIdle, Active, Unanswered
<1>3. ASSUME Acquire PROVE OneHolds' /\ QueueWaits' /\ WaitersAreIdle'
  <2> DEFINE j == Head(queue)
  <2>1. /\ \A i \in Jobs : phase[i] \notin Active
        /\ queue # <<>> /\ queue' = Tail(queue) /\ j \in Jobs
        /\ token' = token
        /\ AcquireRefused(j) \/ AcquireRuns(j)
        /\ phase[j] = "waiting"
    BY <1>3, AcquireCases
  <2>2. /\ \E p \in Active : phase' = [phase EXCEPT ![j] = p]
        /\ \A i \in Jobs \ {j} : answer'[i] = answer[i]
        /\ phase'[j] = "running" => answer' = answer
        /\ \A i \in Jobs \ {j} : fut[i] = "none" => fut'[i] = "none"
    <3>1. CASE AcquireRefused(j)
      BY <3>1, <2>1, <1>1 DEF AcquireRefused, Says, Active
    <3>2. CASE AcquireRuns(j)
      BY <3>2, <2>1, <1>1
      DEF AcquireRuns, AcquireDead, AcquireInto, AcquireAfresh, Active, Unresolved
    <3> QED
      BY <2>1, <3>1, <3>2
  <2>3. PICK p \in Active : phase' = [phase EXCEPT ![j] = p]
    BY <2>2
  <2>4. \A i \in Jobs : phase'[i] = IF i = j THEN p ELSE phase[i]
    BY <2>3, <1>1
  <2>5. /\ \A i \in DOMAIN queue' : i + 1 \in DOMAIN queue /\ queue'[i] = queue[i + 1]
        /\ Distinct(queue') /\ \A i \in DOMAIN queue' : queue'[i] # j
    BY <1>1, <2>1, TailElements DEF IInv, QueueWaits
  <2>6. \A i \in DOMAIN queue : queue[i] \in Jobs /\ phase[queue[i]] = "waiting"
    BY <1>1 DEF IInv, QueueWaits
  <2>7. OneHolds'
    BY <2>1, <2>4 DEF OneHolds
  <2>8. QueueWaits'
    BY <2>4, <2>5, <2>6 DEF QueueWaits
  <2>9. WaitersAreIdle'
    BY <2>1, <2>2, <2>4 DEF IInv, WaitersAreIdle, Active, Unanswered
  <2> QED
    BY <2>7, <2>8, <2>9
<1>4. ASSUME NEW j \in Jobs, Replied(j) PROVE OneHolds' /\ QueueWaits' /\ WaitersAreIdle'
  <2>1. /\ phase[j] \in Active /\ phase' = [phase EXCEPT ![j] = "answered"]
        /\ UNCHANGED <<queue, token, fut, answer>>
    BY <1>4 DEF Replied, Active
  <2>2. \A i \in Jobs : fut[i] = "none" => fut'[i] = "none"
    BY <2>1
  <2>3. \A i \in Jobs : i # j => answer'[i] = answer[i]
    BY <2>1
  <2> QED
    BY <2>1, <2>2, <2>3, GoesOn
<1>5. ASSUME NEW j \in Jobs, Leave(j) PROVE OneHolds' /\ QueueWaits' /\ WaitersAreIdle'
  <2>1. /\ phase[j] \in {"waiting", "running", "replying"}
        /\ queue' = Filtered(queue, Jobs \ {j})
        /\ \A i \in Jobs : phase'[i] = IF i = j THEN "left" ELSE phase[i]
        /\ \A i \in Jobs \ {j} : fut'[i] = fut[i]
        /\ UNCHANGED <<token, answer>>
    BY <1>1, <1>5 DEF Leave
  <2>2. \A i \in DOMAIN queue : queue[i] \in Jobs /\ phase[queue[i]] = "waiting"
    BY <1>1 DEF IInv, QueueWaits
  <2>3. /\ Distinct(queue')
        /\ \A i \in DOMAIN queue' : queue'[i] \in Jobs \ {j}
                                    /\ \E k \in DOMAIN queue : queue[k] = queue'[i]
    <3> DEFINE others == Jobs \ {j}
               r == Filtered(queue, others)
    <3>1. Distinct(queue) /\ queue \in Seq(Jobs) /\ queue' = r
      BY <1>1, <2>1 DEF IInv, QueueWaits
    <3> HIDE DEF others
    <3>2. /\ \A k \in DOMAIN r :
                r[k] \in others /\ \E i \in DOMAIN queue : queue[i] = r[k]
          /\ Distinct(queue) => Distinct(r)
      BY <3>1, FilterKeeps
    <3> HIDE DEF r
    <3> QED
      BY <3>1, <3>2 DEF others
  <2>4. OneHolds'
    BY <2>1 DEF IInv, OneHolds, Active
  <2>5. QueueWaits'
    BY <2>1, <2>2, <2>3 DEF QueueWaits
  <2>6. WaitersAreIdle'
    BY <2>1 DEF IInv, WaitersAreIdle, Unanswered
  <2> QED
    BY <2>4, <2>5, <2>6
<1>6. ASSUME NEW j \in Jobs, Cancel(j) PROVE OneHolds' /\ QueueWaits' /\ WaitersAreIdle'
  <2>1. /\ phase[j] \in Active /\ token' = token \cup {j}
        /\ UNCHANGED <<queue, phase, answer>>
    BY <1>6 DEF Cancel, Active
  <2>2. \A i \in Jobs : fut[i] = "none" => fut'[i] = "none"
    BY <1>6, KilledFuturesAre DEF Cancel, Unresolved
  <2> QED
    BY <2>1, <2>2 DEF IInv, OneHolds, QueueWaits, WaitersAreIdle, Active, Unanswered
<1>7. ASSUME NEW j \in Jobs, Poll(j) PROVE OneHolds' /\ QueueWaits' /\ WaitersAreIdle'
  <2>1. phase[j] = "running" /\ UNCHANGED <<queue, token>>
    BY <1>7 DEF Poll
  <2>2. CASE PollWaits
    BY <2>1, <2>2, SamePlaces DEF PollWaits
  <2>3. CASE PollKills(j)
    <3>1. /\ phase' = [phase EXCEPT ![j] = "replying"]
          /\ \A i \in Jobs : i # j => answer'[i] = answer[i]
          /\ \A i \in Jobs : fut[i] = "none" => fut'[i] = "none"
      BY <2>3, <1>1 DEF PollKills, Replaced, Says, Unresolved
    <3> QED
      BY <2>1, <3>1, GoesOn DEF Active
  <2> QED
    BY <1>7, <2>2, <2>3, PollCases
<1>8. ASSUME NEW j \in Jobs, Expire(j) PROVE OneHolds' /\ QueueWaits' /\ WaitersAreIdle'
  <2>1. phase[j] = "running" /\ UNCHANGED <<queue, token>>
    BY <1>8 DEF Expire
  <2>2. \A i \in Jobs : fut[i] = "none" => fut'[i] = "none"
    BY <1>8, KilledFuturesAre DEF Expire, Unresolved
  <2>3. /\ phase' = [phase EXCEPT ![j] = "replying"]
        /\ \A i \in Jobs : i # j => answer'[i] = answer[i]
    BY <1>8, <1>1 DEF Expire, Says
  <2> QED
    BY <2>1, <2>2, <2>3, GoesOn DEF Active
<1>9. ASSUME NEW j \in Jobs, Resolve(j) PROVE OneHolds' /\ QueueWaits' /\ WaitersAreIdle'
  <2>1. phase[j] = "running" /\ UNCHANGED <<queue, token, fut>>
    BY <1>9 DEF Resolve
  <2>2. /\ phase' = [phase EXCEPT ![j] = "replying"]
        /\ \A i \in Jobs : i # j => answer'[i] = answer[i]
    BY <1>9, <1>1, ResolveCases DEF ResolveDone, ResolveBroken, Says
  <2> QED
    BY <2>1, <2>2, GoesOn DEF Active
<1>10. ASSUME NEW j \in Jobs, Vanish(j) PROVE OneHolds' /\ QueueWaits' /\ WaitersAreIdle'
  <2>1. /\ phase[j] \in Active /\ phase[j] = "running"
        /\ phase' = [phase EXCEPT ![j] = "vanished"]
        /\ UNCHANGED <<queue, token, fut, answer>>
    BY <1>10 DEF Vanish, Active
  <2>2. \A i \in Jobs : fut[i] = "none" => fut'[i] = "none"
    BY <2>1
  <2>3. answer'[j] = answer[j] /\ \A i \in Jobs : i # j => answer'[i] = answer[i]
    BY <2>1
  <2> QED
    BY <2>1, <2>2, <2>3, GoesOn
<1>11. ASSUME Watch \/ BringUp \/ Beat \/ SourcesChange
       PROVE  OneHolds' /\ QueueWaits' /\ WaitersAreIdle'
  BY <1>11, SamePlaces DEF Watch, BringUp, Beat, SourcesChange, WorkerSteps
<1>12. ASSUME BringUpFails \/ Die PROVE OneHolds' /\ QueueWaits' /\ WaitersAreIdle'
  BY <1>12, SamePlaces, BrokenFuturesAre DEF BringUpFails, Die, WorkerSteps, Unresolved
<1>13. ASSUME Begin \/ Finish PROVE OneHolds' /\ QueueWaits' /\ WaitersAreIdle'
  <2>1. \A i \in Jobs : fut[i] = "none" => fut'[i] = "none"
    BY <1>13, <1>1 DEF Begin, Finish, Taking, Running
  <2>2. UNCHANGED <<phase, queue, token, answer>>
    BY <1>13 DEF Begin, Finish, WorkerSteps
  <2> QED
    BY <2>1, <2>2, SamePlaces
<1>14. CASE UNCHANGED vars
  BY <1>14, SamePlaces DEF vars
<1> QED
  BY <1>2, <1>3, <1>4, <1>5, <1>6, <1>7, <1>8, <1>9, <1>10, <1>11, <1>12,
     <1>13, <1>14 DEF Next
-----------------------------------------------------------------------------
(* Pools are numbered within their budget.                                 *)

LEMMA FewerExpected ==
    ASSUME \A j \in Jobs : phase'[j] \in {"new", "waiting", "running"}
               => phase[j] \in {"new", "waiting", "running"}
    PROVE  /\ Cardinality(Expecting) \in Nat /\ Cardinality(Expecting') \in Nat
           /\ Cardinality(Expecting') <= Cardinality(Expecting)
           /\ (\E j \in Jobs : /\ phase[j] \in {"new", "waiting", "running"}
                               /\ phase'[j] \notin {"new", "waiting", "running"})
                 => Cardinality(Expecting') + 1 <= Cardinality(Expecting)
<1>1. Expecting \in SUBSET Jobs /\ Expecting' \in SUBSET Expecting
  BY DEF Expecting
<1>2. IsFiniteSet(Expecting)
  BY <1>1, PoolAssumption, FS_Subset
<1>3. /\ IsFiniteSet(Expecting') /\ Cardinality(Expecting') <= Cardinality(Expecting)
      /\ Cardinality(Expecting) = Cardinality(Expecting') => Expecting = Expecting'
  BY <1>1, <1>2, FS_Subset
<1>4. Cardinality(Expecting) \in Nat /\ Cardinality(Expecting') \in Nat
  BY <1>2, <1>3, FS_CardinalityType
<1>5. ASSUME NEW j \in Jobs, phase[j] \in {"new", "waiting", "running"},
             phase'[j] \notin {"new", "waiting", "running"}
      PROVE  Expecting # Expecting'
  <2>1. j \in Expecting /\ j \notin Expecting'
    BY <1>5 DEF Expecting
  <2> QED
    BY <2>1
<1> QED
  BY <1>3, <1>4, <1>5

LEMMA BudgetStep ==
    ASSUME IInv, [Next]_vars
    PROVE  PoolsAreBudgeted'
<1>1. /\ phase \in [Jobs -> Phases] /\ pool \in Pools /\ known \in Knowledge
      /\ pool.gen \in Nat /\ mishaps \in Nat /\ stale \in BOOLEAN
      /\ Cardinality(Jobs) \in Nat /\ MaxMishaps \in Nat
  BY GenerationBound, PoolAssumption DEF IInv, TypeOK, Pools
<1> DEFINE debt == IF stale THEN 1 ELSE 0
           more == \A j \in Jobs : phase'[j] \in {"new", "waiting", "running"}
                                     => phase[j] \in {"new", "waiting", "running"}
           fewer == \E j \in Jobs : /\ phase[j] \in {"new", "waiting", "running"}
                                   /\ phase'[j] \notin {"new", "waiting", "running"}
<1>2. pool.gen + debt + mishaps + Cardinality(Expecting)
        <= 1 + MaxMishaps + Cardinality(Jobs)
  BY DEF IInv, PoolsAreBudgeted
<1>3. ASSUME more, pool'.gen = pool.gen, stale' => stale, mishaps' = mishaps,
             stale' \in BOOLEAN
      PROVE  PoolsAreBudgeted'
  BY <1>1, <1>2, <1>3, FewerExpected DEF PoolsAreBudgeted
<1>4. ASSUME more, pool'.gen \in {pool.gen, pool.gen + 1}, stale' = FALSE,
             \/ mishaps' = mishaps /\ (fewer \/ stale = TRUE)
             \/ mishaps > 0 /\ mishaps' = mishaps - 1
      PROVE  PoolsAreBudgeted'
  BY <1>1, <1>2, <1>4, FewerExpected DEF PoolsAreBudgeted
<1>5. ASSUME more, pool'.gen = pool.gen, stale' \in BOOLEAN,
             mishaps > 0, mishaps' = mishaps - 1
      PROVE  PoolsAreBudgeted'
  BY <1>1, <1>2, <1>5, FewerExpected DEF PoolsAreBudgeted
<1>6. ASSUME NEW j \in Jobs, \A i \in Jobs \ {j} : phase'[i] = phase[i],
             \/ phase'[j] \notin {"new", "waiting", "running"}
             \/ phase[j] \in {"new", "waiting", "running"}
      PROVE  /\ more
             /\ /\ phase'[j] \notin {"new", "waiting", "running"}
                /\ phase[j] \in {"new", "waiting", "running"}
                => fewer
  BY <1>6
<1>7. phase' = phase => more
  OBVIOUS
<1> HIDE DEF more, fewer
<1>8. ASSUME NEW j \in Jobs, Request(j) PROVE PoolsAreBudgeted'
  BY <1>1, <1>3, <1>8 DEF Request, more
<1>9. ASSUME Acquire PROVE PoolsAreBudgeted'
  <2> DEFINE j == Head(queue)
  <2>1. /\ j \in Jobs /\ phase[j] = "waiting" /\ mishaps' = mishaps
        /\ AcquireRefused(j) \/ AcquireRuns(j)
    BY <1>9, AcquireCases
  <2> HIDE DEF j
  <2>2. CASE AcquireRefused(j)
    <3>1. /\ phase' = [phase EXCEPT ![j] = "replying"]
          /\ pool' = pool /\ stale' = stale
      BY <2>2 DEF AcquireRefused, Says
    <3>2. more
      BY <1>1, <2>1, <3>1, <1>6
    <3> QED
      BY <1>1, <1>3, <2>1, <3>1, <3>2
  <2>3. CASE AcquireRuns(j)
    <3>1. phase' = [phase EXCEPT ![j] = "running"]
      BY <2>3 DEF AcquireRuns
    <3>2. more
      BY <1>1, <2>1, <3>1, <1>6
    <3>3. \/ pool'.gen = pool.gen /\ stale' = stale
          \/ pool'.gen = pool.gen + 1 /\ stale = TRUE /\ stale' = FALSE
      BY <2>3, <1>1
      DEF AcquireRuns, AcquireDead, AcquireInto, AcquireAfresh, Pools
    <3> QED
      BY <1>1, <1>3, <1>4, <2>1, <3>2, <3>3
  <2> QED
    BY <2>1, <2>2, <2>3
<1>10. ASSUME NEW j \in Jobs, Replied(j) PROVE PoolsAreBudgeted'
  <2>1. /\ phase[j] = "replying" /\ phase' = [phase EXCEPT ![j] = "answered"]
        /\ pool' = pool /\ stale' = stale /\ mishaps' = mishaps
    BY <1>10 DEF Replied
  <2>2. more
    BY <1>1, <2>1, <1>6
  <2> QED
    BY <1>1, <1>3, <2>1, <2>2
<1>11. ASSUME NEW j \in Jobs, Leave(j) PROVE PoolsAreBudgeted'
  <2>1. /\ phase[j] \in {"waiting", "running", "replying"}
        /\ phase' = [phase EXCEPT ![j] = "left"]
        /\ stale' = stale /\ mishaps > 0 /\ mishaps' = mishaps - 1
        /\ pool'.gen = pool.gen
    BY <1>11, <1>1 DEF Leave, Mishap, Pools
  <2>2. more
    BY <1>1, <2>1, <1>6
  <2> QED
    BY <1>1, <1>5, <2>1, <2>2
<1>12. ASSUME NEW j \in Jobs, Cancel(j) PROVE PoolsAreBudgeted'
  <2>1. mishaps > 0 /\ mishaps' = mishaps - 1 /\ phase' = phase
    BY <1>12 DEF Cancel, Mishap
  <2>2. \/ pool' = pool /\ stale' = stale
        \/ pool'.gen \in {pool.gen, pool.gen + 1} /\ stale' = FALSE
    <3>1. CASE pool.worker = "none"
      BY <1>12, <3>1 DEF Cancel
    <3>2. CASE pool.worker # "none"
      <4>1. pool' = NewPool(known, pool) /\ stale' = FALSE
        BY <1>12, <3>2 DEF Cancel, Recycle
      <4>2. pool'.gen \in {pool.gen, pool.gen + 1}
        BY <4>1, <1>1 DEF NewPool, NoPool, Pools
      <4> QED
        BY <4>1, <4>2
    <3> QED
      BY <3>1, <3>2
  <2> QED
    BY <1>1, <1>4, <1>5, <1>7, <2>1, <2>2
<1>13. ASSUME NEW j \in Jobs, Poll(j) PROVE PoolsAreBudgeted'
  <2>1. phase[j] = "running" /\ mishaps' = mishaps
    BY <1>13 DEF Poll
  <2>2. CASE PollWaits
    BY <1>1, <1>3, <1>7, <2>1, <2>2 DEF PollWaits
  <2>3. CASE PollKills(j)
    <3>1. /\ phase' = [phase EXCEPT ![j] = "replying"]
          /\ pool'.gen \in {pool.gen, pool.gen + 1} /\ stale' = FALSE
      BY <2>3 DEF PollKills, Says, Replaced
    <3>2. more /\ fewer
      BY <1>1, <2>1, <3>1, <1>6
    <3> QED
      BY <1>4, <2>1, <3>1, <3>2
  <2> QED
    BY <1>13, <2>2, <2>3, PollCases
<1>14. ASSUME NEW j \in Jobs, Expire(j) PROVE PoolsAreBudgeted'
  <2>1. /\ phase[j] = "running" /\ mishaps' = mishaps
        /\ phase' = [phase EXCEPT ![j] = "replying"]
        /\ pool'.gen \in {pool.gen, pool.gen + 1} /\ stale' = FALSE
    BY <1>14, <1>1 DEF Expire, Says, Recycle, NewPool, NoPool, Pools
  <2>2. more /\ fewer
    BY <1>1, <2>1, <1>6
  <2> QED
    BY <1>4, <2>1, <2>2
<1>15. ASSUME NEW j \in Jobs, Resolve(j) PROVE PoolsAreBudgeted'
  <2>1. phase[j] = "running" /\ mishaps' = mishaps
    BY <1>15 DEF Resolve
  <2>2. /\ phase' = [phase EXCEPT ![j] = "replying"]
        /\ \/ pool' = pool /\ stale' = stale
           \/ pool'.gen \in {pool.gen, pool.gen + 1} /\ stale' = FALSE
    BY <1>15, ResolveCases DEF ResolveDone, ResolveBroken, Says
  <2>3. more /\ fewer
    BY <1>1, <2>1, <2>2, <1>6
  <2> QED
    BY <1>1, <1>3, <1>4, <2>1, <2>2, <2>3
<1>16. ASSUME NEW j \in Jobs, Vanish(j) PROVE PoolsAreBudgeted'
  <2>1. /\ phase[j] = "running" /\ phase' = [phase EXCEPT ![j] = "vanished"]
        /\ pool' = pool /\ stale' = stale /\ mishaps' = mishaps
    BY <1>16 DEF Vanish
  <2>2. more
    BY <1>1, <2>1, <1>6
  <2> QED
    BY <1>1, <1>3, <2>1, <2>2
<1>17. ASSUME Watch \/ BringUp \/ Begin \/ Beat \/ Finish PROVE PoolsAreBudgeted'
  <2>1. phase' = phase /\ pool'.gen = pool.gen /\ stale' = stale /\ mishaps' = mishaps
    BY <1>17, <1>1 DEF Watch, BringUp, Begin, Beat, Finish, WorkerSteps, Pools
  <2> QED
    BY <1>1, <1>3, <1>7, <2>1
<1>18. ASSUME BringUpFails \/ Die \/ SourcesChange PROVE PoolsAreBudgeted'
  <2>1. /\ phase' = phase /\ pool'.gen = pool.gen /\ stale' \in BOOLEAN
        /\ mishaps > 0 /\ mishaps' = mishaps - 1
    BY <1>18, <1>1 DEF BringUpFails, Die, SourcesChange, WorkerSteps, Pools, Mishap
  <2> QED
    BY <1>5, <1>7, <2>1
<1>19. CASE UNCHANGED vars
  BY <1>1, <1>3, <1>7, <1>19 DEF vars
<1> QED
  BY <1>8, <1>9, <1>10, <1>11, <1>12, <1>13, <1>14, <1>15, <1>16, <1>17, <1>18,
     <1>19 DEF Next
-----------------------------------------------------------------------------
(* Types.                                                                  *)

LEMMA AtMostOne ==
    ASSUME NEW f,
           \A i, j \in Jobs : f[i] \in Active /\ f[j] \in Active => i = j
    PROVE  Cardinality({j \in Jobs : f[j] \in {"running", "replying"}}) <= 1
<1> DEFINE H == {j \in Jobs : f[j] \in {"running", "replying"}}
<1>1. CASE H = {}
  BY <1>1, FS_EmptySet
<1>2. CASE H # {}
  <2>1. PICK j \in H : TRUE
    BY <1>2
  <2>2. H = {j}
    BY <2>1 DEF Active
  <2>3. Cardinality({j}) = 1
    BY FS_Singleton
  <2> QED
    BY <2>2, <2>3
<1> QED
  BY <1>1, <1>2

Typed ==
    /\ pool \in Pools /\ known \in Knowledge
    /\ stale \in BOOLEAN /\ moved \in BOOLEAN /\ age \in 0 .. Patience
    /\ news \in Seq(News)
    /\ queue \in Seq(Jobs)
    /\ phase \in [Jobs -> Phases]
    /\ fut \in [Jobs -> Futures]
    /\ gen \in [Jobs -> Generations \cup {0}]
    /\ token \subseteq Jobs
    /\ answer \in [Jobs -> Answers \cup {None}]
    /\ beats \in [Jobs -> 0 .. MaxBeats]
    /\ mishaps \in 0 .. MaxMishaps
    /\ truth \in Histories

LEMMA SaysTyped ==
    ASSUME Typed, NEW j \in Jobs, NEW what \in Answers, Says(j, what)
    PROVE  phase' \in [Jobs -> Phases] /\ answer' \in [Jobs -> Answers \cup {None}]
BY DEF Typed, Says, Phases

LEMMA ReplacedTyped ==
    ASSUME IInv, Replaced
    PROVE  /\ pool' \in Pools /\ known' \in Knowledge /\ stale' \in BOOLEAN
           /\ news' \in Seq(News) /\ fut' \in [Jobs -> Futures]
<1>1. pool \in Pools /\ known \in Knowledge
  BY DEF IInv, TypeOK
<1> QED
  BY <1>1, ReapedIs, KillNewsIs DEF Replaced

LEMMA TypedStep ==
    ASSUME IInv, [Next]_vars
    PROVE  Typed'
<1>1. Typed
  BY DEF IInv, TypeOK, Typed
<1>2. MaxMishaps \in Nat /\ MaxBeats \in Nat /\ Patience \in Nat
  BY PoolAssumption
<1>3. Mishap => mishaps' \in 0 .. MaxMishaps
  BY <1>1, <1>2 DEF Mishap, Typed
<1>4. ASSUME NEW j \in Jobs, Request(j) PROVE Typed'
  <2>1. queue' \in Seq(Jobs) /\ phase' \in [Jobs -> Phases]
    BY <1>1, <1>4, AppendElements DEF Request, Typed, Phases
  <2> QED
    BY <1>1, <1>4, <2>1 DEF Request, Typed
<1>5. ASSUME Acquire PROVE Typed'
  <2> DEFINE j == Head(queue)
  <2>1. /\ j \in Jobs /\ queue # <<>> /\ queue' = Tail(queue)
        /\ UNCHANGED <<token, beats, truth, mishaps>>
        /\ phase[j] = "waiting"
        /\ AcquireRefused(j) \/ AcquireRuns(j)
    BY <1>5, AcquireCases
  <2>2. queue' \in Seq(Jobs)
    BY <1>1, <2>1, TailElements DEF Typed
  <2> HIDE DEF j
  <2>3. CASE AcquireRefused(j)
    <3>1. phase' \in [Jobs -> Phases] /\ answer' \in [Jobs -> Answers \cup {None}]
      BY <1>1, <2>1, <2>3, SaysTyped DEF AcquireRefused, Answers
    <3> QED
      BY <1>1, <2>1, <2>2, <2>3, <3>1 DEF AcquireRefused, Typed
  <2>4. CASE AcquireRuns(j)
    <3>1. /\ phase' \in [Jobs -> Phases] /\ answer' = answer
          /\ moved' \in BOOLEAN /\ age' \in 0 .. Patience
          /\ gen' = [gen EXCEPT ![j] = pool'.gen]
      <4>1. /\ phase' = [phase EXCEPT ![j] = "running"]
            /\ gen' = [gen EXCEPT ![j] = pool'.gen]
            /\ moved' = FALSE /\ age' = 0 /\ answer' = answer
        BY <2>4 DEF AcquireRuns
      <4>2. phase' \in [Jobs -> Phases]
        BY <1>1, <4>1 DEF Typed, Phases
      <4>3. 0 \in 0 .. Patience
        BY <1>2
      <4> QED
        BY <4>1, <4>2, <4>3, Zenon
    <3>2. /\ pool' \in Pools /\ known' \in Knowledge /\ stale' \in BOOLEAN
          /\ news' \in Seq(News) /\ fut' \in [Jobs -> Futures]
      <4>1. CASE AcquireDead(j)
        BY <1>1, <2>1, <4>1 DEF AcquireDead, Typed, Futures
      <4>2. CASE AcquireInto(j)
        <5>1. Append(pool.jobs, j) \in Seq(Jobs)
          BY <1>1, <2>1, AppendElements DEF Typed, Pools
        <5> QED
          BY <1>1, <2>1, <4>2, <5>1 DEF AcquireInto, Typed, Futures, Pools
      <4>3. CASE AcquireAfresh(j)
        <5>1. pool.gen + 1 \in Generations
          BY <2>1, RoomForAPool
        <5>2. <<j>> \in Seq(Jobs)
          BY <2>1
        <5>3. known' \in Knowledge
          BY <1>1, <4>3, ReapedIs DEF AcquireAfresh, Typed
        <5>4. news' \in Seq(News)
          BY <4>3, KillNewsIs DEF AcquireAfresh
        <5> QED
          BY <4>3, <5>1, <5>2, <5>3, <5>4 DEF AcquireAfresh, Pools
      <4> QED
        BY <2>4, <4>1, <4>2, <4>3 DEF AcquireRuns
    <3>3. gen' \in [Jobs -> Generations \cup {0}]
      BY <1>1, <3>1, <3>2 DEF Typed, Pools
    <3> QED
      BY <1>1, <2>1, <2>2, <3>1, <3>2, <3>3 DEF Typed
  <2> QED
    BY <2>1, <2>3, <2>4
<1>6. ASSUME NEW j \in Jobs, Replied(j) PROVE Typed'
  BY <1>1, <1>6 DEF Replied, Typed, Phases
<1>7. ASSUME NEW j \in Jobs, Leave(j) PROVE Typed'
  <2> DEFINE others == Jobs \ {j}
  <2>1. pool.jobs \in Seq(Jobs) /\ queue \in Seq(Jobs)
    BY <1>1 DEF Typed, Pools
  <2>2. Filtered(queue, others) \in Seq(Jobs) /\ Filtered(pool.jobs, others) \in Seq(Jobs)
    <3> HIDE DEF others
    <3> QED
      BY <2>1, FilterEmbeds
  <2>3. /\ pool' = pool \/ pool' = [pool EXCEPT !.jobs = Filtered(@, others)]
        /\ fut' = fut \/ fut' = [fut EXCEPT ![j] = "cancelled"]
        /\ queue' = Filtered(queue, others)
        /\ phase' = [phase EXCEPT ![j] = "left"]
        /\ truth' = [truth EXCEPT !.orphans = @ \/ phase[j] = "running"]
        /\ UNCHANGED <<known, stale, news, gen, token, answer, moved, age, beats>>
    BY <1>7 DEF Leave
  <2> HIDE DEF others
  <2>4. pool' \in Pools /\ fut' \in [Jobs -> Futures] /\ phase' \in [Jobs -> Phases]
    BY <1>1, <2>2, <2>3 DEF Typed, Pools, Futures, Phases
  <2>5. truth' \in Histories
    <3>1. (truth.orphans \/ phase[j] = "running") \in BOOLEAN
      OBVIOUS
    <3>2. truth' = [truth EXCEPT !.orphans = truth.orphans \/ phase[j] = "running"]
      BY <2>3
    <3> QED
      BY <1>1, <3>1, <3>2 DEF Typed, Histories
  <2>6. mishaps' \in 0 .. MaxMishaps
    BY <1>3, <1>7 DEF Leave
  <2> QED
    BY <1>1, <2>2, <2>3, <2>4, <2>5, <2>6 DEF Typed
<1>8. ASSUME NEW j \in Jobs, Cancel(j) PROVE Typed'
  <2>1. /\ token' \subseteq Jobs /\ mishaps' \in 0 .. MaxMishaps
        /\ UNCHANGED <<queue, phase, gen, answer, moved, age, beats, truth>>
    BY <1>1, <1>3, <1>8 DEF Cancel, Typed
  <2>2. CASE pool.worker = "none"
    BY <1>1, <1>8, <2>1, <2>2 DEF Cancel, Typed
  <2>3. CASE pool.worker # "none"
    <3>1. Replaced
      BY <1>8, <2>3, RecycleReplaces DEF Cancel, Mishap
    <3> QED
      BY <1>1, <2>1, <3>1, ReplacedTyped DEF Typed
  <2> QED
    BY <2>2, <2>3
<1>9. ASSUME NEW j \in Jobs, Poll(j) PROVE Typed'
  <2>1. UNCHANGED <<queue, gen, token, beats, truth, mishaps>>
    BY <1>9 DEF Poll
  <2>2. CASE PollWaits
    BY <1>1, <2>1, <2>2 DEF PollWaits, Typed
  <2>3. CASE PollKills(j)
    <3>1. /\ Replaced /\ moved' \in BOOLEAN /\ age' \in 0 .. Patience
          /\ Says(j, "stalled")
      BY <2>3 DEF PollKills
    <3>2. phase' \in [Jobs -> Phases] /\ answer' \in [Jobs -> Answers \cup {None}]
      BY <1>1, <3>1, SaysTyped DEF Answers
    <3> QED
      BY <1>1, <2>1, <3>1, <3>2, ReplacedTyped DEF Typed
  <2> QED
    BY <1>9, <2>2, <2>3, PollCases
<1>10. ASSUME NEW j \in Jobs, Expire(j) PROVE Typed'
  <2>1. /\ UNCHANGED <<queue, gen, token, moved, age, beats, truth, mishaps>>
        /\ Says(j, "timed out") /\ Recycle /\ phase[j] = "running"
        /\ \E c \in BOOLEAN : fut' = KilledFutures(pool, c)
        /\ Unresolved(j)
    BY <1>10 DEF Expire
  <2>2. Replaced
    BY <2>1, UnresolvedHasAWorker, RecycleReplaces
  <2>3. phase' \in [Jobs -> Phases] /\ answer' \in [Jobs -> Answers \cup {None}]
    BY <1>1, <2>1, SaysTyped DEF Answers
  <2> QED
    BY <1>1, <2>1, <2>2, <2>3, ReplacedTyped DEF Typed
<1>11. ASSUME NEW j \in Jobs, Resolve(j) PROVE Typed'
  <2>1. UNCHANGED <<news, queue, fut, gen, token, moved, age, beats, truth, mishaps>>
    BY <1>11 DEF Resolve
  <2>2. PICK what \in Answers : Says(j, what)
    BY <1>11, ResolveCases DEF ResolveDone, ResolveBroken, Answers
  <2>3. phase' \in [Jobs -> Phases] /\ answer' \in [Jobs -> Answers \cup {None}]
    BY <1>1, <2>2, SaysTyped
  <2>4. pool' \in Pools /\ known' \in Knowledge /\ stale' \in BOOLEAN
    BY <1>1, <1>11, ResolveCases DEF ResolveDone, ResolveBroken, Typed
  <2> QED
    BY <1>1, <2>1, <2>3, <2>4 DEF Typed
<1>12. ASSUME NEW j \in Jobs, Vanish(j) PROVE Typed'
  BY <1>1, <1>12 DEF Vanish, Typed, Phases
<1>13. ASSUME Watch PROVE Typed'
  <2> DEFINE n == Head(news)
  <2>1. /\ news # <<>> /\ news' = Tail(news)
        /\ known' = IF n.ok THEN [known EXCEPT !.cameUp = TRUE, !.failed = {}]
                    ELSE NoteInitFailure(known, n.gen)
        /\ UNCHANGED <<pool, stale, queue, phase, fut, gen, token, answer,
                       moved, age, beats, truth, mishaps>>
    BY <1>13 DEF Watch
  <2>2. n \in News /\ news' \in Seq(News)
    BY <1>1, <2>1, TailElements DEF Typed
  <2> HIDE DEF n
  <2>3. NoteInitFailure(known, n.gen) \in Knowledge
    BY <1>1, <2>2, NoteInitFailureIs DEF Typed, News
  <2>4. [known EXCEPT !.cameUp = TRUE, !.failed = {}] \in Knowledge
    BY <1>1 DEF Typed, Knowledge
  <2>5. known' \in Knowledge
    BY <2>1, <2>3, <2>4
  <2> QED
    BY <1>1, <2>1, <2>2, <2>5 DEF Typed
<1>14. ASSUME BringUp PROVE Typed'
  <2>1. [gen |-> pool.gen, ok |-> TRUE] \in News
    BY <1>1 DEF Typed, Pools, News
  <2>2. news' \in Seq(News)
    BY <1>1, <1>14, <2>1, AppendElements DEF BringUp, Typed
  <2>3. pool' \in Pools /\ truth' \in Histories
    BY <1>1, <1>14 DEF BringUp, Typed, Pools, Histories
  <2> QED
    BY <1>1, <1>14, <2>2, <2>3 DEF BringUp, WorkerSteps, Typed
<1>15. ASSUME BringUpFails PROVE Typed'
  <2>1. [gen |-> pool.gen, ok |-> FALSE] \in News /\ <<>> \in Seq(Jobs)
    BY <1>1 DEF Typed, Pools, News
  <2>2. news' \in Seq(News)
    BY <1>1, <1>15, <2>1, AppendElements DEF BringUpFails, Typed
  <2>3. pool' \in Pools
    BY <1>1, <1>15, <2>1 DEF BringUpFails, Typed, Pools
  <2>4. truth' \in Histories
    <3>1. truth.died \cup {pool.gen} \in SUBSET Generations
      BY <1>1 DEF Typed, Pools, Histories
    <3>2. truth' = [truth EXCEPT !.died = truth.died \cup {pool.gen}]
      BY <1>15 DEF BringUpFails
    <3> QED
      BY <1>1, <3>1, <3>2 DEF Typed, Histories
  <2>5. fut' \in [Jobs -> Futures] /\ mishaps' \in 0 .. MaxMishaps
    BY <1>3, <1>15, BrokenFuturesAre DEF BringUpFails
  <2> QED
    BY <1>1, <1>15, <2>2, <2>3, <2>4, <2>5 DEF BringUpFails, WorkerSteps, Typed
<1>16. ASSUME Begin \/ Beat \/ Finish PROVE Typed'
  <2> DEFINE h == Head(pool.jobs)
  <2>1. pool.jobs # <<>> /\ pool.jobs \in Seq(Jobs)
    BY <1>1, <1>16 DEF Begin, Beat, Finish, Taking, Running, Typed, Pools
  <2>2. h \in Jobs /\ Tail(pool.jobs) \in Seq(Jobs)
    BY <2>1, TailElements
  <2>3. /\ fut' \in {fut, [fut EXCEPT ![h] = "begun"], [fut EXCEPT ![h] = "done"]}
        /\ pool' \in {pool, [pool EXCEPT !.jobs = Tail(@)]}
        /\ truth' \in {truth, [truth EXCEPT !.begun = @ \cup {h}]}
        /\ moved' \in BOOLEAN
        /\ UNCHANGED <<known, stale, queue, phase, gen, token, answer, age, news, mishaps>>
    BY <1>1, <1>16 DEF Begin, Beat, Finish, WorkerSteps, Typed
  <2>4. beats' \in [Jobs -> 0 .. MaxBeats]
    <3>1. CASE Beat
      <4>1. beats[h] \in 0 .. MaxBeats /\ beats[h] < MaxBeats
        BY <1>1, <2>2, <3>1 DEF Beat, Typed
      <4>2. beats[h] + 1 \in 0 .. MaxBeats
        BY <4>1, <1>2
      <4>3. beats' = [beats EXCEPT ![h] = beats[h] + 1]
        BY <3>1 DEF Beat
      <4> HIDE DEF h
      <4> QED
        BY <1>1, <4>2, <4>3 DEF Typed
    <3>2. CASE Begin \/ Finish
      BY <1>1, <3>2 DEF Begin, Finish, Typed
    <3> QED
      BY <1>16, <3>1, <3>2
  <2> HIDE DEF h
  <2>5. fut' \in [Jobs -> Futures]
    BY <1>1, <2>2, <2>3 DEF Typed, Futures
  <2>6. pool' \in Pools
    BY <1>1, <2>2, <2>3 DEF Typed, Pools
  <2>7. truth' \in Histories
    <3>1. truth.begun \cup {h} \in SUBSET Jobs
      BY <1>1, <2>2 DEF Typed, Histories
    <3>2. [truth EXCEPT !.begun = truth.begun \cup {h}] \in Histories
      BY <1>1, <3>1 DEF Typed, Histories
    <3> QED
      BY <1>1, <2>3, <3>2 DEF Typed
  <2> QED
    BY <1>1, <2>3, <2>4, <2>5, <2>6, <2>7 DEF Typed
<1>17. ASSUME Die PROVE Typed'
  <2>1. pool' \in Pools
    <3>1. <<>> \in Seq(Jobs)
      OBVIOUS
    <3> QED
      BY <1>1, <1>17, <3>1 DEF Die, Typed, Pools
  <2>2. fut' \in [Jobs -> Futures] /\ mishaps' \in 0 .. MaxMishaps
    BY <1>3, <1>17, BrokenFuturesAre DEF Die
  <2>3. truth' \in Histories
    <3>1. CASE Running
      <4>1. Head(pool.jobs) \in Jobs
        <5>1. pool.jobs # <<>> /\ pool.jobs \in Seq(Jobs)
          BY <1>1, <3>1 DEF Running, Typed, Pools
        <5> QED
          BY <5>1, TailElements
      <4>2. truth.guilty \cup {Head(pool.jobs)} \in SUBSET Jobs
        BY <1>1, <4>1 DEF Typed, Histories
      <4>3. truth' = [truth EXCEPT !.guilty = truth.guilty \cup {Head(pool.jobs)}]
        BY <1>17, <3>1 DEF Die
      <4> QED
        BY <1>1, <4>2, <4>3 DEF Typed, Histories
    <3>2. CASE ~Running
      <4>1. truth' = [truth EXCEPT !.idle = TRUE]
        BY <1>17, <3>2, Zenon DEF Die
      <4> QED
        BY <1>1, <4>1 DEF Typed, Histories
    <3> QED
      BY <3>1, <3>2, Zenon
  <2> QED
    BY <1>1, <1>17, <2>1, <2>2, <2>3 DEF Die, WorkerSteps, Typed
<1>18. ASSUME SourcesChange PROVE Typed'
  BY <1>1, <1>3, <1>18 DEF SourcesChange, Typed
<1>19. CASE UNCHANGED vars
  BY <1>1, <1>19 DEF vars, Typed
<1> QED
  BY <1>4, <1>5, <1>6, <1>7, <1>8, <1>9, <1>10, <1>11, <1>12, <1>13, <1>14,
     <1>15, <1>16, <1>17, <1>18, <1>19 DEF Next

LEMMA TypeStep ==
    ASSUME IInv, [Next]_vars
    PROVE  TypeOK' /\ truth' \in Histories
<1>1. OneHolds'
  BY PlacesStep
<1>2. Cardinality({j \in Jobs : phase'[j] \in {"running", "replying"}}) <= 1
  BY <1>1, AtMostOne DEF OneHolds
<1> QED
  BY <1>2, TypedStep DEF Typed, TypeOK
-----------------------------------------------------------------------------
(* The jobs: what the pool has, and what became of the others.             *)

LEMMA NoJobsLeft ==
    ASSUME pool'.jobs = <<>>, \A j \in Jobs : ~Unresolved(j)',
           \A j \in Jobs : fut'[j] = "begun" => j \in truth'.begun
    PROVE  PoolHasTheJobs'
<1>1. DOMAIN <<>> = {}
  OBVIOUS
<1> QED
  BY <1>1 DEF PoolHasTheJobs, Distinct

(* The pool's jobs stay, while a request that is not of theirs goes on. *)
LEMMA SameJobs ==
    ASSUME IInv, pool'.jobs = pool.jobs, truth'.begun = truth.begun,
           truth.orphans => truth'.orphans,
           \A j \in Jobs : \/ fut'[j] = fut[j]
                         \/ {fut[j], fut'[j]} \cap {"given", "begun"} = {},
           token' = token,
           \A j \in Jobs : /\ fut[j] \in {"given", "begun"}
                         /\ phase[j] = "running" /\ j \notin token
                         => phase'[j] = "running" \/ truth'.orphans
    PROVE  PoolHasTheJobs'
<1>1. \A j \in Jobs : (Unresolved(j) <=> Unresolved(j)')
                     /\ (fut'[j] = "begun" => fut[j] = "begun")
  BY DEF Unresolved
<1> QED
  BY <1>1 DEF IInv, PoolHasTheJobs, Unresolved

LEMMA JobsStep ==
    ASSUME IInv, [Next]_vars
    PROVE  PoolHasTheJobs'
<1>1. /\ phase \in [Jobs -> Phases] /\ fut \in [Jobs -> Futures]
      /\ pool \in Pools /\ pool.jobs \in Seq(Jobs) /\ truth \in Histories
  BY DEF IInv, TypeOK, Pools
<1>2. ASSUME Replaced, truth' = truth PROVE PoolHasTheJobs'
  <2>1. \A j \in Jobs : ~Unresolved(j)' /\ (fut'[j] = "begun" => j \in truth'.begun)
    BY <1>1, <1>2 DEF Replaced, Unresolved, IInv, PoolHasTheJobs, Futures
  <2> QED
    BY <1>2, <2>1, NoJobsLeft DEF Replaced
<1>3. ASSUME NEW j \in Jobs, Request(j) PROVE PoolHasTheJobs'
  <2>1. /\ phase[j] = "new" /\ phase' = [phase EXCEPT ![j] = "waiting"]
        /\ UNCHANGED <<pool, fut, token, truth>>
    BY <1>3 DEF Request
  <2>2. \A i \in Jobs : phase[i] = "running" => phase'[i] = "running"
    BY <1>1, <2>1
  <2> QED
    BY <2>1, <2>2 DEF IInv, PoolHasTheJobs, Unresolved
<1>4. ASSUME Acquire PROVE PoolHasTheJobs'
  <2> DEFINE j == Head(queue)
  <2>1. /\ j \in Jobs /\ phase[j] = "waiting" /\ fut[j] = "none" /\ j \notin token
        /\ token' = token /\ truth' = truth
        /\ \A i \in Jobs : phase[i] \notin Active
        /\ AcquireRefused(j) \/ AcquireRuns(j)
    BY <1>4, AcquireCases
  <2> HIDE DEF j
  <2>2. \A i \in Jobs : Unresolved(i) => truth.orphans
    BY <2>1 DEF IInv, PoolHasTheJobs, Active
  <2>3. CASE AcquireRefused(j)
    BY <2>1, <2>2, <2>3, SameJobs DEF AcquireRefused, Unresolved
  <2>4. CASE AcquireRuns(j)
    <3>1. phase'[j] = "running"
      BY <1>1, <2>1, <2>4 DEF AcquireRuns
    <3>2. CASE AcquireDead(j)
      <4>1. /\ pool' = pool /\ fut'[j] = "broken"
            /\ \A i \in Jobs \ {j} : fut'[i] = fut[i]
        BY <1>1, <2>1, <3>2 DEF AcquireDead
      <4> QED
        BY <2>1, <2>2, <4>1, SameJobs DEF Unresolved
    <3>3. CASE AcquireInto(j)
      <4>1. /\ pool'.jobs = Append(pool.jobs, j) /\ fut'[j] = "given"
            /\ \A i \in Jobs \ {j} : fut'[i] = fut[i]
        BY <1>1, <2>1, <3>3 DEF AcquireInto, Pools
      <4>2. \A i \in DOMAIN pool.jobs : pool.jobs[i] # j
        BY <2>1 DEF IInv, PoolHasTheJobs, Unresolved
      <4>3. /\ Distinct(pool'.jobs)
            /\ \A i \in DOMAIN pool.jobs :
                  i \in DOMAIN pool'.jobs /\ pool'.jobs[i] = pool.jobs[i]
            /\ \E i \in DOMAIN pool'.jobs : pool'.jobs[i] = j
            /\ \A i \in DOMAIN pool'.jobs : i \in DOMAIN pool.jobs \/ pool'.jobs[i] = j
        BY <1>1, <2>1, <4>1, <4>2, AppendElements DEF IInv, PoolHasTheJobs
      <4>4. \A i \in Jobs : Unresolved(i)' <=> \E k \in DOMAIN pool'.jobs : pool'.jobs[k] = i
        <5>1. \A i \in Jobs : Unresolved(i) <=> \E k \in DOMAIN pool.jobs : pool.jobs[k] = i
          BY DEF IInv, PoolHasTheJobs
        <5> QED
          BY <4>1, <4>3, <5>1 DEF Unresolved
      <4> QED
        BY <2>1, <2>2, <3>1, <4>1, <4>3, <4>4 DEF IInv, PoolHasTheJobs, Unresolved
    <3>4. CASE AcquireAfresh(j)
      <4>1. pool'.jobs = <<j>> /\ fut'[j] = "given"
        BY <3>4 DEF AcquireAfresh
      <4>2. \A i \in Jobs \ {j} : ~Unresolved(i)'
        BY <1>1, <3>4 DEF AcquireAfresh, Unresolved
      <4>3. DOMAIN pool'.jobs = {1} /\ pool'.jobs[1] = j
        BY <4>1
      <4> QED
        BY <2>1, <3>1, <4>1, <4>2, <4>3 DEF PoolHasTheJobs, Unresolved, Distinct
    <3> QED
      BY <2>4, <3>2, <3>3, <3>4 DEF AcquireRuns
  <2> QED
    BY <2>1, <2>3, <2>4
<1>5. ASSUME NEW j \in Jobs, Replied(j) PROVE PoolHasTheJobs'
  <2>1. \A i \in Jobs : phase[i] = "running" => phase'[i] = "running"
    BY <1>1, <1>5 DEF Replied
  <2> QED
    BY <1>5, <2>1, SameJobs DEF Replied, Unresolved
<1>6. ASSUME NEW j \in Jobs, Leave(j) PROVE PoolHasTheJobs'
  <2>1. /\ \A i \in Jobs \ {j} : phase'[i] = phase[i]
        /\ truth' = [truth EXCEPT !.orphans = @ \/ phase[j] = "running"]
        /\ token' = token
    BY <1>1, <1>6 DEF Leave
  <2>2. /\ truth'.begun = truth.begun /\ truth.orphans => truth'.orphans
        /\ phase[j] = "running" => truth'.orphans
    BY <1>1, <2>1 DEF Histories
  <2>3. CASE phase[j] = "running" /\ Unshielded(j)
    <3> DEFINE others == Jobs \ {j}
               r == Filtered(pool.jobs, others)
    <3>1. /\ pool'.jobs = r /\ fut'[j] = "cancelled"
          /\ \A i \in Jobs \ {j} : fut'[i] = fut[i]
      BY <1>1, <1>6, <2>3 DEF Leave, Pools
    <3>2. Distinct(pool.jobs)
      BY DEF IInv, PoolHasTheJobs
    <3> HIDE DEF others
    <3>3. /\ \A k \in DOMAIN r :
                r[k] \in others /\ \E i \in DOMAIN pool.jobs : pool.jobs[i] = r[k]
          /\ \A i \in DOMAIN pool.jobs : pool.jobs[i] \in others =>
                \E k \in DOMAIN r : r[k] = pool.jobs[i]
          /\ Distinct(pool.jobs) => Distinct(r)
      BY <1>1, FilterKeeps
    <3> HIDE DEF r
    <3>4. \A i \in Jobs : Unresolved(i)' <=> \E k \in DOMAIN r : r[k] = i
      <4>1. \A i \in Jobs : Unresolved(i) <=> \E k \in DOMAIN pool.jobs : pool.jobs[k] = i
        BY DEF IInv, PoolHasTheJobs
      <4> QED
        BY <3>1, <3>3, <4>1 DEF Unresolved, others
    <3> QED
      BY <2>1, <2>2, <3>1, <3>2, <3>3, <3>4, <2>3 DEF IInv, PoolHasTheJobs, Unresolved
  <2>4. CASE ~(phase[j] = "running" /\ Unshielded(j))
    <3>1. UNCHANGED <<pool, fut>>
      BY <1>6, <2>4 DEF Leave
    <3> QED
      BY <2>1, <2>2, <3>1, SameJobs DEF Unresolved
  <2> QED
    BY <2>3, <2>4
<1>7. ASSUME NEW j \in Jobs, Cancel(j) PROVE PoolHasTheJobs'
  <2>1. CASE pool.worker = "none"
    <3>1. pool.jobs = <<>> /\ UNCHANGED <<pool, fut, truth>>
      BY <1>7, <2>1 DEF Cancel, IInv, WorkerIsAsWarm
    <3>2. \A i \in Jobs : ~Unresolved(i)
      BY <2>1, UnresolvedHasAWorker
    <3> QED
      BY <3>1, <3>2, NoJobsLeft DEF Unresolved
  <2>2. CASE pool.worker # "none"
    <3>1. Replaced /\ truth' = truth
      BY <1>7, <2>2, RecycleReplaces DEF Cancel, Mishap
    <3> QED
      BY <1>2, <3>1
  <2> QED
    BY <2>1, <2>2
<1>8. ASSUME NEW j \in Jobs, Poll(j) PROVE PoolHasTheJobs'
  <2>1. truth' = truth /\ token' = token
    BY <1>8 DEF Poll
  <2>2. CASE PollWaits
    BY <2>1, <2>2, SameJobs DEF PollWaits, Unresolved
  <2>3. CASE PollKills(j)
    BY <1>2, <2>1, <2>3 DEF PollKills
  <2> QED
    BY <1>8, <2>2, <2>3, PollCases
<1>9. ASSUME NEW j \in Jobs, Expire(j) PROVE PoolHasTheJobs'
  <2>1. /\ Recycle /\ \E c \in BOOLEAN : fut' = KilledFutures(pool, c)
        /\ Unresolved(j) /\ phase[j] = "running" /\ truth' = truth
    BY <1>9 DEF Expire
  <2>2. Replaced
    BY <2>1, UnresolvedHasAWorker, RecycleReplaces
  <2> QED
    BY <1>2, <2>1, <2>2
<1>10. ASSUME NEW j \in Jobs, Resolve(j) PROVE PoolHasTheJobs'
  <2>1. phase[j] = "running" /\ UNCHANGED <<fut, token, truth>>
    BY <1>10 DEF Resolve
  <2>2. phase' = [phase EXCEPT ![j] = "replying"]
    BY <1>10, ResolveCases DEF ResolveDone, ResolveBroken, Says
  <2>3. \A i \in Jobs \ {j} : phase'[i] = phase[i]
    BY <1>1, <2>2
  <2>4. CASE ResolveDone(j)
    <3>1. pool' = pool /\ (j \in token \/ ~Unresolved(j))
      BY <2>4 DEF ResolveDone, Unresolved
    <3> QED
      BY <2>1, <2>3, <3>1, SameJobs DEF Unresolved
  <2>5. CASE ResolveBroken(j)
    <3>1. pool'.jobs = <<>> /\ pool.worker = "dead"
      BY <2>5 DEF ResolveBroken
    <3>2. \A i \in Jobs : ~Unresolved(i)
      BY <3>1, UnresolvedHasAWorker
    <3> QED
      BY <2>1, <3>1, <3>2, NoJobsLeft DEF Unresolved
  <2> QED
    BY <1>10, <2>4, <2>5, ResolveCases
<1>11. ASSUME NEW j \in Jobs, Vanish(j) PROVE PoolHasTheJobs'
  <2>1. /\ fut[j] = "cancelled" /\ UNCHANGED <<pool, fut, token, truth>>
        /\ \A i \in Jobs \ {j} : phase'[i] = phase[i]
    BY <1>1, <1>11 DEF Vanish
  <2> QED
    BY <2>1, SameJobs DEF Unresolved
<1>12. ASSUME Watch \/ BringUp \/ Beat \/ SourcesChange PROVE PoolHasTheJobs'
  <2>1. /\ pool'.jobs = pool.jobs /\ truth'.begun = truth.begun
        /\ truth'.orphans = truth.orphans /\ UNCHANGED <<fut, phase, token>>
    BY <1>1, <1>12
    DEF Watch, BringUp, Beat, SourcesChange, WorkerSteps, Pools, Histories
  <2> QED
    BY <2>1, SameJobs DEF Unresolved
<1>13. ASSUME BringUpFails \/ Die PROVE PoolHasTheJobs'
  <2>1. /\ pool'.jobs = <<>> /\ truth'.begun = truth.begun /\ Breaks
    BY <1>1, <1>13 DEF BringUpFails, Die, Pools, Histories
  <2>2. \A i \in Jobs : ~Unresolved(i)' /\ (fut'[i] = "begun" => i \in truth'.begun)
    BY <1>1, <2>1, BrokenFuturesAre DEF Unresolved
  <2> QED
    BY <2>1, <2>2, NoJobsLeft
<1>14. ASSUME Begin PROVE PoolHasTheJobs'
  <2> DEFINE h == Head(pool.jobs)
  <2>1. /\ pool.jobs # <<>> /\ fut[h] = "given" /\ fut' = [fut EXCEPT ![h] = "begun"]
        /\ truth' = [truth EXCEPT !.begun = @ \cup {h}]
        /\ UNCHANGED <<pool, phase, token>>
    BY <1>14 DEF Begin, Taking, WorkerSteps
  <2>2. h \in Jobs
    BY <1>1, <2>1, TailElements
  <2> HIDE DEF h
  <2>3. /\ truth'.orphans = truth.orphans /\ truth'.begun = truth.begun \cup {h}
        /\ fut'[h] = "begun" /\ \A i \in Jobs \ {h} : fut'[i] = fut[i]
    BY <1>1, <2>1, <2>2 DEF Histories
  <2> QED
    BY <2>1, <2>3 DEF IInv, PoolHasTheJobs, Unresolved
<1>15. ASSUME Finish PROVE PoolHasTheJobs'
  <2> DEFINE h == Head(pool.jobs)
             r == Tail(pool.jobs)
  <2>1. /\ pool.jobs # <<>> /\ fut' = [fut EXCEPT ![h] = "done"]
        /\ UNCHANGED <<truth, phase, token>> /\ pool'.jobs = r
    BY <1>1, <1>15 DEF Finish, Running, WorkerSteps, Pools
  <2>2. Distinct(pool.jobs)
    BY DEF IInv, PoolHasTheJobs
  <2>3. /\ h \in Jobs /\ Distinct(r) /\ h = pool.jobs[1]
        /\ \A i \in DOMAIN r : r[i] # h
        /\ \A i \in DOMAIN r : i + 1 \in DOMAIN pool.jobs /\ r[i] = pool.jobs[i + 1]
        /\ \A i \in DOMAIN pool.jobs : i # 1 => i - 1 \in DOMAIN r
                                                /\ r[i - 1] = pool.jobs[i]
    BY <1>1, <2>1, <2>2, TailElements
  <2> HIDE DEF h, r
  <2>4. fut'[h] = "done" /\ \A i \in Jobs \ {h} : fut'[i] = fut[i]
    BY <1>1, <2>1, <2>3
  <2>5. \A i \in Jobs : Unresolved(i)' <=> \E k \in DOMAIN r : r[k] = i
    <3>1. \A i \in Jobs : Unresolved(i) <=> \E k \in DOMAIN pool.jobs : pool.jobs[k] = i
      BY DEF IInv, PoolHasTheJobs
    <3> QED
      BY <2>3, <2>4, <3>1 DEF Unresolved
  <2> QED
    BY <2>1, <2>3, <2>4, <2>5 DEF IInv, PoolHasTheJobs, Unresolved
<1>16. CASE UNCHANGED vars
  BY <1>16, SameJobs DEF vars, Unresolved
<1> QED
  BY <1>3, <1>4, <1>5, <1>6, <1>7, <1>8, <1>9, <1>10, <1>11, <1>12, <1>13,
     <1>14, <1>15, <1>16 DEF Next
-----------------------------------------------------------------------------
(* The worker: what is known of it, who it serves, and why it died.        *)

LEMMA SameWorker ==
    ASSUME IInv, pool'.gen = pool.gen, pool'.worker = pool.worker,
           pool'.warm = pool.warm, pool.jobs = <<>> => pool'.jobs = <<>>,
           truth.died \subseteq truth'.died, known.broken => known'.broken
    PROVE  WorkerIsAsWarm'
BY DEF IInv, WorkerIsAsWarm

LEMMA ReplacedWorker ==
    ASSUME IInv, Replaced, truth' = truth
    PROVE  WorkerIsAsWarm'
<1>1. known'.broken = known.broken
  BY ReapedIs DEF Replaced, IInv, TypeOK
<1> QED
  BY <1>1 DEF IInv, WorkerIsAsWarm, Replaced

LEMMA WorkerStep ==
    ASSUME IInv, [Next]_vars
    PROVE  WorkerIsAsWarm'
<1>1. pool \in Pools /\ known \in Knowledge /\ truth \in Histories /\ news \in Seq(News)
  BY DEF IInv, TypeOK
<1>2. ASSUME Acquire PROVE WorkerIsAsWarm'
  <2> DEFINE j == Head(queue)
  <2>1. truth' = truth /\ (AcquireRefused(j) \/ AcquireRuns(j))
    BY <1>2, AcquireCases
  <2> HIDE DEF j
  <2>2. CASE AcquireRefused(j)
    BY <2>1, <2>2, SameWorker DEF AcquireRefused
  <2>3. CASE AcquireRuns(j)
    <3>1. CASE AcquireDead(j)
      BY <2>1, <3>1, SameWorker DEF AcquireDead
    <3>2. CASE AcquireInto(j)
      BY <1>1, <2>1, <3>2 DEF AcquireInto, IInv, WorkerIsAsWarm, Pools
    <3>3. CASE AcquireAfresh(j)
      BY <3>3 DEF AcquireAfresh, WorkerIsAsWarm
    <3> QED
      BY <2>3, <3>1, <3>2, <3>3 DEF AcquireRuns
  <2> QED
    BY <2>1, <2>2, <2>3
<1>3. ASSUME NEW j \in Jobs, Leave(j) PROVE WorkerIsAsWarm'
  <2>1. /\ pool'.gen = pool.gen /\ pool'.worker = pool.worker /\ pool'.warm = pool.warm
        /\ known' = known /\ truth'.died = truth.died
    BY <1>1, <1>3 DEF Leave, Pools, Histories
  <2>2. ASSUME pool.jobs = <<>> PROVE pool'.jobs = <<>>
    <3>1. ~Unshielded(j)
      <4>1. DOMAIN <<>> = {}
        OBVIOUS
      <4> QED
        BY <2>2, <4>1 DEF Unshielded
    <3> QED
      BY <1>3, <2>2, <3>1 DEF Leave
  <2> QED
    BY <2>1, <2>2, SameWorker
<1>4. ASSUME NEW j \in Jobs, Cancel(j) PROVE WorkerIsAsWarm'
  <2>1. CASE pool.worker = "none"
    BY <1>4, <2>1, SameWorker DEF Cancel
  <2>2. CASE pool.worker # "none"
    <3>1. Replaced /\ truth' = truth
      BY <1>4, <2>2, RecycleReplaces DEF Cancel, Mishap
    <3> QED
      BY <3>1, ReplacedWorker
  <2> QED
    BY <2>1, <2>2
<1>5. ASSUME NEW j \in Jobs, Poll(j) PROVE WorkerIsAsWarm'
  <2>1. truth' = truth
    BY <1>5 DEF Poll
  <2>2. CASE PollWaits
    BY <2>1, <2>2, SameWorker DEF PollWaits
  <2>3. CASE PollKills(j)
    BY <2>1, <2>3, ReplacedWorker DEF PollKills
  <2> QED
    BY <1>5, <2>2, <2>3, PollCases
<1>6. ASSUME NEW j \in Jobs, Expire(j) PROVE WorkerIsAsWarm'
  <2>1. /\ Recycle /\ \E c \in BOOLEAN : fut' = KilledFutures(pool, c)
        /\ Unresolved(j) /\ phase[j] = "running" /\ truth' = truth
    BY <1>6 DEF Expire
  <2>2. Replaced
    BY <2>1, UnresolvedHasAWorker, RecycleReplaces
  <2> QED
    BY <2>1, <2>2, ReplacedWorker
<1>7. ASSUME NEW j \in Jobs, Resolve(j) PROVE WorkerIsAsWarm'
  <2>1. truth' = truth
    BY <1>7 DEF Resolve
  <2>2. CASE ResolveDone(j)
    BY <2>1, <2>2, SameWorker DEF ResolveDone
  <2>3. CASE ResolveBroken(j)
    BY <2>1, <2>3 DEF ResolveBroken, IInv, WorkerIsAsWarm
  <2> QED
    BY <1>7, <2>2, <2>3, ResolveCases
<1>8. ASSUME Watch PROVE WorkerIsAsWarm'
  <2> DEFINE n == Head(news)
  <2>1. /\ UNCHANGED <<pool, truth>>
        /\ known' = IF n.ok THEN [known EXCEPT !.cameUp = TRUE, !.failed = {}]
                    ELSE NoteInitFailure(known, n.gen)
        /\ n \in News
    BY <1>1, <1>8, TailElements DEF Watch
  <2> HIDE DEF n
  <2>2. known.broken => NoteInitFailure(known, n.gen).broken
    BY <1>1, <2>1, NoteInitFailureIs DEF News
  <2>3. known.broken => [known EXCEPT !.cameUp = TRUE, !.failed = {}].broken
    BY <1>1 DEF Knowledge
  <2> QED
    BY <2>1, <2>2, <2>3, SameWorker
<1>9. ASSUME BringUp \/ BringUpFails \/ Die PROVE WorkerIsAsWarm'
  <2>1. CASE BringUp
    <3>1. pool'.worker = "up" /\ pool'.warm = "ok"
      BY <1>1, <2>1 DEF BringUp, Pools
    <3> QED
      BY <3>1 DEF WorkerIsAsWarm
  <2>2. CASE BringUpFails
    <3>1. /\ pool'.worker = "dead" /\ pool'.warm = "broken" /\ pool'.jobs = <<>>
          /\ pool'.gen \in truth'.died
      BY <1>1, <2>2 DEF BringUpFails, Pools, Histories
    <3> QED
      BY <3>1 DEF WorkerIsAsWarm
  <2>3. CASE Die
    <3>1. /\ pool'.worker = "dead" /\ pool'.warm = "ok" /\ pool'.jobs = <<>>
      BY <1>1, <2>3 DEF Die, Pools, IInv, WorkerIsAsWarm
    <3> QED
      BY <3>1 DEF WorkerIsAsWarm
  <2> QED
    BY <1>9, <2>1, <2>2, <2>3
<1>10. ASSUME Begin \/ Beat \/ Finish PROVE WorkerIsAsWarm'
  <2>1. /\ pool'.gen = pool.gen /\ pool'.worker = pool.worker /\ pool'.warm = pool.warm
        /\ known' = known /\ truth'.died = truth.died /\ pool.jobs # <<>>
    BY <1>1, <1>10
    DEF Begin, Beat, Finish, Taking, Running, WorkerSteps, Pools, Histories
  <2> QED
    BY <2>1, SameWorker
<1>11. ASSUME NEW j \in Jobs, Request(j) \/ Replied(j) \/ Vanish(j) PROVE WorkerIsAsWarm'
  BY <1>11, SameWorker DEF Request, Replied, Vanish
<1>12. CASE SourcesChange
  BY <1>12, SameWorker DEF SourcesChange
<1>13. CASE UNCHANGED vars
  BY <1>13, SameWorker DEF vars
<1> QED
  BY <1>2, <1>3, <1>4, <1>5, <1>6, <1>7, <1>8, <1>9, <1>10, <1>11, <1>12,
     <1>13 DEF Next

(* The request that is supervised stays so, and its pool stays.            *)
LEMMA SameSupervision ==
    ASSUME IInv, pool'.gen = pool.gen,
           pool'.worker = pool.worker, pool'.warm = pool.warm,
           truth.orphans => truth'.orphans, truth.idle => truth'.idle,
           truth'.guilty = truth.guilty,
           \A j \in Jobs : phase'[j] = "running" /\ j \notin token' =>
               /\ phase[j] = "running" /\ j \notin token /\ gen'[j] = gen[j]
               /\ fut'[j] = "broken" => fut[j] = "broken",
           \A j \in Jobs : phase[j] = "running" /\ j \notin token /\ fut[j] = "broken"
                            /\ pool.worker = "dead"
               => \/ phase'[j] = "running" /\ j \notin token' /\ fut'[j] = "broken"
                  \/ truth'.orphans
    PROVE  SupervisedIsHere' /\ DeathHasACause'
<1>1. SupervisedIsHere'
  BY DEF IInv, SupervisedIsHere
<1>2. DeathHasACause'
  BY DEF IInv, DeathHasACause
<1> QED
  BY <1>1, <1>2

(* With its pool, a request stops being supervised. *)
LEMMA SupervisionEnds ==
    ASSUME \A j \in Jobs : phase'[j] # "running" \/ j \in token',
           pool'.worker # "dead" \/ pool'.warm # "ok"
    PROVE  SupervisedIsHere' /\ DeathHasACause'
BY DEF SupervisedIsHere, DeathHasACause

LEMMA SupervisionStep ==
    ASSUME IInv, [Next]_vars
    PROVE  SupervisedIsHere' /\ DeathHasACause'
<1>1. /\ pool \in Pools /\ truth \in Histories /\ phase \in [Jobs -> Phases]
      /\ fut \in [Jobs -> Futures] /\ token \subseteq Jobs
      /\ gen \in [Jobs -> Generations \cup {0}]
  BY DEF IInv, TypeOK
<1>2. ASSUME NEW j \in Jobs, phase[j] \in Active
      PROVE  \A i \in Jobs \ {j} : phase[i] # "running"
  BY <1>2 DEF IInv, OneHolds, Active
<1>3. ASSUME NEW j \in Jobs, Request(j) PROVE SupervisedIsHere' /\ DeathHasACause'
  <2>1. /\ phase[j] = "new" /\ \A i \in Jobs : phase'[i] = IF i = j THEN "waiting" ELSE phase[i]
        /\ UNCHANGED <<pool, fut, gen, token, truth>>
    BY <1>1, <1>3 DEF Request
  <2> QED
    BY <2>1, SameSupervision
<1>4. ASSUME Acquire PROVE SupervisedIsHere' /\ DeathHasACause'
  <2> DEFINE j == Head(queue)
  <2>1. /\ j \in Jobs /\ phase[j] = "waiting" /\ token' = token /\ truth' = truth
        /\ \A i \in Jobs : phase[i] \notin Active
        /\ AcquireRefused(j) \/ AcquireRuns(j)
    BY <1>4, AcquireCases
  <2> HIDE DEF j
  <2>2. pool.worker = "dead" /\ pool.warm = "ok" => truth.orphans \/ truth.idle
    BY <2>1 DEF IInv, DeathHasACause, Active
  <2>3. CASE AcquireRefused(j)
    <3>1. /\ \A i \in Jobs : phase'[i] = IF i = j THEN "replying" ELSE phase[i]
          /\ UNCHANGED <<pool, fut, gen>>
      BY <1>1, <2>3 DEF AcquireRefused, Says
    <3> QED
      BY <2>1, <2>2, <3>1 DEF SupervisedIsHere, DeathHasACause, Active
  <2>4. CASE AcquireRuns(j)
    <3>1. /\ \A i \in Jobs : phase'[i] = IF i = j THEN "running" ELSE phase[i]
          /\ gen'[j] = pool'.gen
      BY <1>1, <2>1, <2>4 DEF AcquireRuns
    <3>2. /\ pool'.worker # "none" /\ (fut'[j] = "broken" => pool'.worker = "dead")
          /\ \/ pool'.worker # "dead"
             \/ pool' = pool
      BY <1>1, <2>1, <2>4
      DEF AcquireRuns, AcquireDead, AcquireInto, AcquireAfresh, Pools
    <3>3. SupervisedIsHere'
      BY <2>1, <3>1, <3>2 DEF SupervisedIsHere, Active
    <3>4. DeathHasACause'
      BY <2>1, <2>2, <3>2 DEF DeathHasACause
    <3> QED
      BY <3>3, <3>4
  <2> QED
    BY <2>1, <2>3, <2>4
<1>5. ASSUME NEW j \in Jobs, Replied(j) PROVE SupervisedIsHere' /\ DeathHasACause'
  <2>1. /\ phase[j] = "replying"
        /\ \A i \in Jobs : phase'[i] = IF i = j THEN "answered" ELSE phase[i]
        /\ UNCHANGED <<pool, fut, gen, token, truth>>
    BY <1>1, <1>5 DEF Replied
  <2> QED
    BY <2>1, SameSupervision
<1>6. ASSUME NEW j \in Jobs, Leave(j) PROVE SupervisedIsHere' /\ DeathHasACause'
  <2>1. /\ \A i \in Jobs : phase'[i] = IF i = j THEN "left" ELSE phase[i]
        /\ \A i \in Jobs \ {j} : fut'[i] = fut[i]
        /\ truth' = [truth EXCEPT !.orphans = @ \/ phase[j] = "running"]
        /\ UNCHANGED <<gen, token>>
    BY <1>1, <1>6 DEF Leave
  <2>2. /\ truth'.idle = truth.idle /\ truth'.guilty = truth.guilty
        /\ truth.orphans => truth'.orphans
        /\ phase[j] = "running" => truth'.orphans
    BY <1>1, <2>1 DEF Histories
  <2>3. pool'.gen = pool.gen /\ pool'.worker = pool.worker /\ pool'.warm = pool.warm
    BY <1>1, <1>6 DEF Leave, Pools
  <2> QED
    BY <2>1, <2>2, <2>3, SameSupervision
<1>7. ASSUME NEW j \in Jobs, Cancel(j) PROVE SupervisedIsHere' /\ DeathHasACause'
  <2>1. phase[j] \in Active /\ token' = token \cup {j} /\ phase' = phase
    BY <1>7 DEF Cancel, Active
  <2>2. \A i \in Jobs : phase'[i] # "running" \/ i \in token'
    BY <1>2, <2>1
  <2>3. pool'.worker # "dead"
    <3>1. CASE pool.worker = "none"
      BY <1>7, <3>1 DEF Cancel
    <3>2. CASE pool.worker # "none"
      <4>1. Replaced
        BY <1>7, <3>2, RecycleReplaces DEF Cancel, Mishap
      <4> QED
        BY <4>1 DEF Replaced
    <3> QED
      BY <3>1, <3>2
  <2> QED
    BY <2>2, <2>3, SupervisionEnds
<1>8. ASSUME NEW j \in Jobs, phase[j] = "running", Replaced, token' = token,
             phase' = [phase EXCEPT ![j] = "replying"]
      PROVE  SupervisedIsHere' /\ DeathHasACause'
  <2>1. \A i \in Jobs : phase'[i] # "running"
    BY <1>1, <1>2, <1>8 DEF Active
  <2>2. pool'.worker # "dead"
    BY <1>8 DEF Replaced
  <2> QED
    BY <2>1, <2>2, SupervisionEnds
<1>9. ASSUME NEW j \in Jobs, Poll(j) PROVE SupervisedIsHere' /\ DeathHasACause'
  <2>1. UNCHANGED <<gen, token, truth>> /\ phase[j] = "running"
    BY <1>9 DEF Poll
  <2>2. CASE PollWaits
    <3>1. UNCHANGED <<pool, fut, phase>>
      BY <2>2 DEF PollWaits
    <3> QED
      BY <2>1, <3>1, SameSupervision
  <2>3. CASE PollKills(j)
    BY <1>8, <2>1, <2>3 DEF PollKills, Says
  <2> QED
    BY <1>9, <2>2, <2>3, PollCases
<1>10. ASSUME NEW j \in Jobs, Expire(j) PROVE SupervisedIsHere' /\ DeathHasACause'
  <2>1. /\ Recycle /\ \E c \in BOOLEAN : fut' = KilledFutures(pool, c)
        /\ Unresolved(j) /\ phase[j] = "running" /\ token' = token
        /\ phase' = [phase EXCEPT ![j] = "replying"]
    BY <1>10 DEF Expire, Says
  <2>2. Replaced
    BY <2>1, UnresolvedHasAWorker, RecycleReplaces
  <2> QED
    BY <1>8, <2>1, <2>2
<1>11. ASSUME NEW j \in Jobs, Resolve(j) PROVE SupervisedIsHere' /\ DeathHasACause'
  <2>1. phase[j] = "running" /\ UNCHANGED <<fut, gen, token, truth>>
    BY <1>11 DEF Resolve
  <2>2. phase' = [phase EXCEPT ![j] = "replying"]
    BY <1>11, ResolveCases DEF ResolveDone, ResolveBroken, Says
  <2>3. \A i \in Jobs : phase'[i] # "running"
    BY <1>1, <1>2, <2>1, <2>2 DEF Active
  <2>4. CASE ResolveDone(j)
    <3>1. pool' = pool /\ (j \in token \/ fut[j] = "done")
      BY <2>4 DEF ResolveDone
    <3>2. \A i \in Jobs \ {j} : phase[i] # "running"
      BY <1>2, <2>1 DEF Active
    <3> QED
      BY <2>1, <2>3, <3>1, <3>2, SameSupervision
  <2>5. CASE ResolveBroken(j)
    <3>1. pool'.worker # "dead"
      BY <2>5 DEF ResolveBroken
    <3> QED
      BY <2>3, <3>1, SupervisionEnds
  <2> QED
    BY <1>11, <2>4, <2>5, ResolveCases
<1>12. ASSUME NEW j \in Jobs, Vanish(j) PROVE SupervisedIsHere' /\ DeathHasACause'
  <2>1. /\ fut[j] = "cancelled"
        /\ \A i \in Jobs : phase'[i] = IF i = j THEN "vanished" ELSE phase[i]
        /\ UNCHANGED <<pool, fut, gen, token, truth>>
    BY <1>1, <1>12 DEF Vanish
  <2> QED
    BY <2>1, SameSupervision
<1>13. ASSUME Watch \/ Beat \/ SourcesChange PROVE SupervisedIsHere' /\ DeathHasACause'
  <2>1. UNCHANGED <<pool, fut, gen, token, truth, phase>>
    BY <1>13 DEF Watch, Beat, SourcesChange, WorkerSteps
  <2> QED
    BY <2>1, SameSupervision
<1>14. ASSUME BringUp PROVE SupervisedIsHere' /\ DeathHasACause'
  <2>1. /\ pool.worker = "starting" /\ pool'.worker = "up" /\ pool'.gen = pool.gen
        /\ UNCHANGED <<fut, gen, token, phase>>
    BY <1>1, <1>14 DEF BringUp, WorkerSteps, Pools
  <2> QED
    BY <2>1 DEF IInv, SupervisedIsHere, DeathHasACause
<1>15. ASSUME BringUpFails PROVE SupervisedIsHere' /\ DeathHasACause'
  <2>1. /\ pool'.worker = "dead" /\ pool'.gen = pool.gen /\ pool'.warm = "broken"
        /\ UNCHANGED <<gen, token, phase>>
    BY <1>1, <1>15 DEF BringUpFails, WorkerSteps, Pools
  <2> QED
    BY <2>1 DEF IInv, SupervisedIsHere, DeathHasACause
<1>16. ASSUME Begin \/ Finish PROVE SupervisedIsHere' /\ DeathHasACause'
  <2> DEFINE h == Head(pool.jobs)
  <2>1. /\ fut[h] \in {"given", "begun"}
        /\ fut' = [fut EXCEPT ![h] = "begun"] \/ fut' = [fut EXCEPT ![h] = "done"]
        /\ UNCHANGED <<gen, token, phase>>
    BY <1>16 DEF Begin, Finish, Taking, Running, WorkerSteps
  <2>2. /\ pool'.gen = pool.gen /\ pool'.worker = pool.worker /\ pool'.warm = pool.warm
        /\ truth'.orphans = truth.orphans /\ truth'.idle = truth.idle
        /\ truth'.guilty = truth.guilty
    BY <1>1, <1>16 DEF Begin, Finish, WorkerSteps, Pools, Histories
  <2> HIDE DEF h
  <2>3. \A i \in Jobs : fut'[i] = "broken" <=> fut[i] = "broken"
    BY <1>1, <2>1
  <2> QED
    BY <2>1, <2>2, <2>3, SameSupervision
<1>17. ASSUME Die PROVE SupervisedIsHere' /\ DeathHasACause'
  <2> DEFINE h == Head(pool.jobs)
  <2>1. /\ pool'.worker = "dead" /\ pool'.gen = pool.gen
        /\ UNCHANGED <<gen, token, phase>> /\ Breaks
    BY <1>1, <1>17 DEF Die, WorkerSteps, Pools
  <2>2. SupervisedIsHere'
    BY <2>1 DEF IInv, SupervisedIsHere
  <2>3. CASE Running
    <3>1. h \in Jobs /\ Unresolved(h)
      <4>1. pool.jobs # <<>> /\ pool.jobs \in Seq(Jobs) /\ fut[h] = "begun"
        BY <1>1, <2>3 DEF Running, Pools
      <4> QED
        BY <4>1, TailElements DEF Unresolved
    <3>2. truth' = [truth EXCEPT !.guilty = @ \cup {h}]
      BY <1>17, <2>3 DEF Die
    <3> HIDE DEF h
    <3>3. h \in truth'.guilty /\ truth'.orphans = truth.orphans
      BY <1>1, <3>1, <3>2 DEF Histories
    <3>4. fut'[h] = "broken"
      BY <2>1, <3>1, BrokenFuturesAre
    <3>5. (phase[h] = "running" /\ h \notin token) \/ truth.orphans
      BY <3>1 DEF IInv, PoolHasTheJobs
    <3>6. DeathHasACause'
      BY <2>1, <3>1, <3>3, <3>4, <3>5 DEF DeathHasACause
    <3> QED
      BY <2>2, <3>6
  <2>4. CASE ~Running
    <3>1. truth'.idle
      BY <1>1, <1>17, <2>4 DEF Die, Histories
    <3> QED
      BY <2>2, <3>1 DEF DeathHasACause
  <2> QED
    BY <2>3, <2>4
<1>18. CASE UNCHANGED vars
  BY <1>18, SameSupervision DEF vars
<1> QED
  BY <1>3, <1>4, <1>5, <1>6, <1>7, <1>9, <1>10, <1>11, <1>12, <1>13, <1>14,
     <1>15, <1>16, <1>17, <1>18 DEF Next
-----------------------------------------------------------------------------
(* The bring-ups: what is known of them is what happened.                  *)

LEMMA DeathsAreFinite ==
    ASSUME NEW D, D \in SUBSET Generations
    PROVE  IsFiniteSet(D) /\ Cardinality(D) \in Nat
<1>1. IsFiniteSet(Generations)
  BY GenerationBound, FS_Interval DEF Generations
<1> QED
  BY <1>1, FS_Subset, FS_CardinalityType

(* Nothing is heard and the pool stays as far as it was. *)
LEMMA SameNews ==
    ASSUME IInv, news' = news, pool'.gen = pool.gen, pool'.warm = pool.warm,
           known' = known, truth'.died = truth.died, truth'.cameUp = truth.cameUp,
           pool'.worker \in {pool.worker, "none"} \/ ~known.broken
    PROVE  NewsInOrder' /\ FailuresAreDeaths'
<1>1. NewsInOrder'
  BY DEF IInv, NewsInOrder
<1>2. FailuresAreDeaths'
  BY DEF IInv, FailuresAreDeaths, GivesUpOnlyWhenBroken
<1> QED
  BY <1>1, <1>2

(* A new bring-up is heard of after all others. *)
LEMMA NewsJoins ==
    ASSUME IInv, NEW ok \in BOOLEAN, pool.warm = "pending",
           news' = Append(news, [gen |-> pool.gen, ok |-> ok])
    PROVE  /\ \A i, k \in DOMAIN news' : i < k => news'[i].gen < news'[k].gen
           /\ \A i \in DOMAIN news' :
                 \/ i \in DOMAIN news /\ news'[i] = news[i] /\ news[i].gen < pool.gen
                 \/ news'[i] = [gen |-> pool.gen, ok |-> ok]
           /\ \A i \in DOMAIN news : i \in DOMAIN news' /\ news'[i] = news[i]
           /\ \E i \in DOMAIN news' : news'[i].ok = ok
<1> DEFINE e == [gen |-> pool.gen, ok |-> ok]
<1>1. /\ e \in News /\ news \in Seq(News) /\ pool.gen \in Nat
      /\ e.gen = pool.gen /\ e.ok = ok
  BY GenerationBound DEF IInv, TypeOK, Pools, News
<1>2. news' = Append(news, e)
  OBVIOUS
<1> HIDE DEF e
<1>3. /\ DOMAIN news' = 1 .. Len(news) + 1 /\ Len(news) \in Nat
      /\ DOMAIN news = 1 .. Len(news)
      /\ \A i \in DOMAIN news : i \in DOMAIN news' /\ news'[i] = news[i]
      /\ news'[Len(news) + 1] = e
      /\ Len(news) + 1 \in DOMAIN news'
      /\ \A i \in DOMAIN news' : i \in DOMAIN news \/ i = Len(news) + 1
  BY <1>1, <1>2, AppendElements
<1>4. \A i \in DOMAIN news : news[i].gen < pool.gen
  <2> TAKE i \in DOMAIN news
  <2>1. news[i].gen \in Nat /\ news[i].gen <= pool.gen /\ news[i].gen # pool.gen
    <3>1. news[i] \in News
      BY <1>1, <1>3
    <3> QED
      BY <3>1, GenerationBound DEF IInv, NewsInOrder, News
  <2> QED
    BY <1>1, <2>1
<1>5. \A i, k \in DOMAIN news' : i < k => news'[i].gen < news'[k].gen
  <2> SUFFICES ASSUME NEW i \in DOMAIN news', NEW k \in DOMAIN news', i < k
               PROVE  news'[i].gen < news'[k].gen
    OBVIOUS
  <2>1. i \in DOMAIN news
    BY <1>3
  <2>2. CASE k \in DOMAIN news
    BY <1>3, <2>1, <2>2 DEF IInv, NewsInOrder
  <2>3. CASE k = Len(news) + 1
    BY <1>1, <1>3, <1>4, <2>1, <2>3
  <2> QED
    BY <1>3, <2>2, <2>3
<1> QED
  BY <1>1, <1>3, <1>4, <1>5 DEF e

(* A kill's news is of a pool that was reaped. *)
LEMMA NewsAfterKill ==
    ASSUME IInv, known' = Reaped(known, pool), news' = KillNews(pool), truth' = truth,
           pool' \in Pools,
           \/ /\ known.broken /\ pool'.worker = "none"
              /\ pool'.gen = pool.gen /\ pool'.warm = pool.warm
              /\ pool.worker = "dead"
           \/ ~known.broken /\ pool'.gen = pool.gen + 1
    PROVE  NewsInOrder' /\ FailuresAreDeaths'
<1>1. /\ pool \in Pools /\ known \in Knowledge /\ news \in Seq(News)
      /\ pool.gen \in Nat /\ DOMAIN news = 1 .. Len(news)
  BY GenerationBound, LenProperties DEF IInv, TypeOK, Pools
<1>2. /\ known'.failed = known.failed /\ known'.reaped = known.reaped \cup {pool.gen}
      /\ known'.cameUp = known.cameUp /\ known'.broken = known.broken
  BY <1>1, ReapedIs
<1>3. /\ known.failed \subseteq truth.died
      /\ truth.cameUp => known.cameUp \/ \E i \in DOMAIN news : news[i].ok
      /\ known.broken => GivesUpOnlyWhenBroken
  BY DEF IInv, FailuresAreDeaths
<1>4. \A i \in DOMAIN news : news[i].gen \in Nat /\ news[i].gen <= pool.gen
  <2> TAKE i \in DOMAIN news
  <2>1. news[i] \in News
    BY <1>1
  <2> QED
    BY <2>1, GenerationBound DEF IInv, NewsInOrder, News
<1>5. CASE pool.warm = "pending"
  <2>1. ~known.broken
    BY <1>5 DEF IInv, WorkerIsAsWarm
  <2>2. news' = Append(news, [gen |-> pool.gen, ok |-> FALSE])
    BY <1>5, KillNewsIs
  <2>3. /\ \A i, k \in DOMAIN news' : i < k => news'[i].gen < news'[k].gen
        /\ \A i \in DOMAIN news' :
              \/ i \in DOMAIN news /\ news'[i] = news[i] /\ news[i].gen < pool.gen
              \/ news'[i] = [gen |-> pool.gen, ok |-> FALSE]
        /\ \A i \in DOMAIN news : i \in DOMAIN news' /\ news'[i] = news[i]
    BY <1>5, <2>2, NewsJoins
  <2>4. \A i \in DOMAIN news' : /\ news'[i].gen \in Nat /\ news'[i].gen <= pool.gen
                                /\ ~news'[i].ok => news'[i].gen \in known'.reaped
    <3> TAKE i \in DOMAIN news'
    <3>1. CASE i \in DOMAIN news /\ news'[i] = news[i] /\ news[i].gen < pool.gen
      BY <1>1, <1>2, <1>4, <3>1 DEF IInv, NewsInOrder
    <3>2. CASE news'[i] = [gen |-> pool.gen, ok |-> FALSE]
      BY <1>1, <1>2, <3>2
    <3> QED
      BY <2>3, <3>1, <3>2
  <2>5. NewsInOrder'
    BY <1>1, <2>1, <2>3, <2>4 DEF NewsInOrder
  <2>6. FailuresAreDeaths'
    BY <1>2, <1>3, <2>1, <2>3 DEF FailuresAreDeaths
  <2> QED
    BY <2>5, <2>6
<1>6. CASE pool.warm # "pending"
  <2>1. news' = news
    BY <1>6, KillNewsIs
  <2>2. \A i \in DOMAIN news : ~news[i].ok => news[i].gen \in known'.reaped
    BY <1>2 DEF IInv, NewsInOrder
  <2>3. NewsInOrder'
    BY <1>1, <1>4, <1>6, <2>1, <2>2 DEF IInv, NewsInOrder
  <2>4. FailuresAreDeaths'
    BY <1>2, <1>3, <2>1 DEF FailuresAreDeaths, GivesUpOnlyWhenBroken
  <2> QED
    BY <2>3, <2>4
<1> QED
  BY <1>5, <1>6
(* A failure that counts: the worker there is died, and nothing else is    *)
(* left to be heard of.                                                    *)
LEMMA FailureCounts ==
    ASSUME IInv, pool.warm = "broken",
           NEW n, n = NoteInitFailure(known, pool.gen),
           known.cameUp \/ ~truth.cameUp
    PROVE  /\ n.failed \subseteq truth.died
           /\ truth.cameUp => n.cameUp
           /\ n.broken => GivesUpOnlyWhenBroken /\ Cardinality(truth.died) >= MaxAttempts
                          /\ ~truth.cameUp
           /\ n.reaped = known.reaped
<1>1. /\ known \in Knowledge /\ truth.died \in SUBSET Generations
      /\ pool.gen \in Generations
  BY DEF IInv, TypeOK, Histories, Pools
<1>2. pool.gen \in truth.died /\ known.failed \subseteq truth.died
  BY DEF IInv, WorkerIsAsWarm, FailuresAreDeaths
<1>3. /\ n.reaped = known.reaped /\ n.cameUp = known.cameUp
      /\ n.failed \subseteq known.failed \cup {pool.gen}
      /\ n.broken => known.broken \/ (/\ n.failed = known.failed \cup {pool.gen}
                                      /\ Cardinality(n.failed) >= MaxAttempts
                                      /\ ~known.cameUp)
  BY <1>1, NoteInitFailureIs
<1>4. n.failed \subseteq truth.died
  BY <1>2, <1>3
<1>5. ASSUME n.broken
      PROVE  Cardinality(truth.died) >= MaxAttempts /\ ~truth.cameUp
  <2>1. CASE known.broken
    BY <2>1 DEF IInv, FailuresAreDeaths, GivesUpOnlyWhenBroken
  <2>2. CASE ~known.broken
    <3>1. Cardinality(n.failed) >= MaxAttempts /\ ~known.cameUp
      BY <1>3, <1>5, <2>2
    <3>2. IsFiniteSet(truth.died) /\ Cardinality(truth.died) \in Nat
      BY <1>1, DeathsAreFinite
    <3>3. Cardinality(n.failed) <= Cardinality(truth.died)
      BY <1>4, <3>2, FS_Subset
    <3>4. Cardinality(n.failed) \in Nat
      <4>1. n.failed \in SUBSET Generations
        BY <1>1, <1>4
      <4> QED
        BY <4>1, DeathsAreFinite
    <3> QED
      BY <3>1, <3>2, <3>3, <3>4, PoolAssumption
  <2> QED
    BY <2>1, <2>2
<1> QED
  BY <1>3, <1>4, <1>5 DEF GivesUpOnlyWhenBroken

LEMMA NewsStep ==
    ASSUME IInv, [Next]_vars
    PROVE  NewsInOrder' /\ FailuresAreDeaths'
<1>1. /\ pool \in Pools /\ known \in Knowledge /\ truth \in Histories
      /\ news \in Seq(News) /\ pool.gen \in Nat
  BY GenerationBound DEF IInv, TypeOK, Pools
<1>2. ASSUME Replaced, truth' = truth PROVE NewsInOrder' /\ FailuresAreDeaths'
  BY <1>2, NewsAfterKill DEF Replaced
<1>3. ASSUME Acquire PROVE NewsInOrder' /\ FailuresAreDeaths'
  <2> DEFINE j == Head(queue)
  <2>1. j \in Jobs /\ truth' = truth /\ (AcquireRefused(j) \/ AcquireRuns(j))
        /\ phase[j] = "waiting"
    BY <1>3, AcquireCases
  <2> HIDE DEF j
  <2>2. CASE AcquireRefused(j)
    <3>1. /\ pool'.gen = pool.gen /\ pool'.warm = pool.warm
          /\ pool'.worker = pool.worker /\ news' = news /\ known' = known
          /\ truth'.died = truth.died /\ truth'.cameUp = truth.cameUp
      BY <2>1, <2>2 DEF AcquireRefused
    <3> QED
      BY <3>1, SameNews
  <2>3. CASE AcquireRuns(j)
    <3>1. CASE AcquireDead(j)
      <4>1. /\ pool'.gen = pool.gen /\ pool'.warm = pool.warm
            /\ pool'.worker = pool.worker /\ news' = news /\ known' = known
            /\ truth'.died = truth.died /\ truth'.cameUp = truth.cameUp
        BY <2>1, <3>1 DEF AcquireDead
      <4> QED
        BY <4>1, SameNews
    <3>2. CASE AcquireInto(j)
      <4>1. pool'.gen = pool.gen /\ pool'.warm = pool.warm /\ pool'.worker = pool.worker
        BY <1>1, <3>2 DEF AcquireInto, Pools
      <4> QED
        BY <2>1, <3>2, <4>1, SameNews DEF AcquireInto
    <3>3. CASE AcquireAfresh(j)
      <4>1. pool' \in Pools
        BY TypeStep DEF TypeOK
      <4>2. /\ known' = Reaped(known, pool) /\ news' = KillNews(pool)
            /\ ~known.broken /\ pool'.gen = pool.gen + 1
        BY <3>3 DEF AcquireAfresh
      <4> QED
        BY <2>1, <4>1, <4>2, NewsAfterKill
    <3> QED
      BY <2>3, <3>1, <3>2, <3>3 DEF AcquireRuns
  <2> QED
    BY <2>1, <2>2, <2>3
<1>4. ASSUME NEW j \in Jobs, Request(j) \/ Replied(j) \/ Leave(j) \/ Vanish(j)
      PROVE  NewsInOrder' /\ FailuresAreDeaths'
  <2>1. /\ pool'.gen = pool.gen /\ pool'.warm = pool.warm /\ pool'.worker = pool.worker
        /\ truth'.died = truth.died /\ truth'.cameUp = truth.cameUp
        /\ news' = news /\ known' = known
    BY <1>1, <1>4 DEF Request, Replied, Leave, Vanish, Pools, Histories
  <2> QED
    BY <2>1, SameNews
<1>5. ASSUME NEW j \in Jobs, Cancel(j) PROVE NewsInOrder' /\ FailuresAreDeaths'
  <2>1. CASE pool.worker = "none"
    BY <1>5, <2>1, SameNews DEF Cancel
  <2>2. CASE pool.worker # "none"
    <3>1. Replaced /\ truth' = truth
      BY <1>5, <2>2, RecycleReplaces DEF Cancel, Mishap
    <3> QED
      BY <1>2, <3>1
  <2> QED
    BY <2>1, <2>2
<1>6. ASSUME NEW j \in Jobs, Poll(j) PROVE NewsInOrder' /\ FailuresAreDeaths'
  <2>1. truth' = truth
    BY <1>6 DEF Poll
  <2>2. CASE PollWaits
    BY <2>1, <2>2, SameNews DEF PollWaits
  <2>3. CASE PollKills(j)
    BY <1>2, <2>1, <2>3 DEF PollKills
  <2> QED
    BY <1>6, <2>2, <2>3, PollCases
<1>7. ASSUME NEW j \in Jobs, Expire(j) PROVE NewsInOrder' /\ FailuresAreDeaths'
  <2>1. /\ Recycle /\ \E c \in BOOLEAN : fut' = KilledFutures(pool, c)
        /\ Unresolved(j) /\ phase[j] = "running" /\ truth' = truth
    BY <1>7 DEF Expire
  <2>2. Replaced
    BY <2>1, UnresolvedHasAWorker, RecycleReplaces
  <2> QED
    BY <1>2, <2>1, <2>2
<1>8. ASSUME NEW j \in Jobs, Resolve(j) PROVE NewsInOrder' /\ FailuresAreDeaths'
  <2>1. truth' = truth /\ news' = news
    BY <1>8 DEF Resolve
  <2>2. CASE ResolveDone(j)
    BY <2>1, <2>2, SameNews DEF ResolveDone
  <2>3. CASE ResolveBroken(j)
    <3>1. /\ news = <<>>
          /\ known'.broken => pool'.worker = "none"
          /\ \/ known' = known
             \/ pool.warm = "broken" /\ known' = NoteInitFailure(known, pool.gen)
      BY <2>3 DEF ResolveBroken
    <3>2. DOMAIN <<>> = {}
      OBVIOUS
    <3>3. NewsInOrder'
      BY <2>1, <3>1, <3>2 DEF NewsInOrder
    <3>4. known.cameUp \/ ~truth.cameUp
      BY <3>1, <3>2 DEF IInv, FailuresAreDeaths
    <3>5. CASE known' = known
      BY <2>1, <3>1, <3>3, <3>5 DEF IInv, FailuresAreDeaths, GivesUpOnlyWhenBroken
    <3>6. CASE pool.warm = "broken" /\ known' = NoteInitFailure(known, pool.gen)
      <4>1. /\ known'.failed \subseteq truth.died
            /\ truth.cameUp => known'.cameUp
            /\ known'.broken => Cardinality(truth.died) >= MaxAttempts /\ ~truth.cameUp
        BY <3>4, <3>6, FailureCounts
      <4> QED
        BY <2>1, <3>1, <3>3, <4>1 DEF FailuresAreDeaths, GivesUpOnlyWhenBroken
    <3> QED
      BY <3>1, <3>3, <3>5, <3>6
  <2> QED
    BY <1>8, <2>2, <2>3, ResolveCases
<1>9. ASSUME Watch PROVE NewsInOrder' /\ FailuresAreDeaths'
  <2> DEFINE n == Head(news)
  <2>1. /\ news # <<>> /\ news' = Tail(news) /\ UNCHANGED <<pool, truth>>
        /\ known' = IF n.ok THEN [known EXCEPT !.cameUp = TRUE, !.failed = {}]
                    ELSE NoteInitFailure(known, n.gen)
    BY <1>9 DEF Watch
  <2>2. /\ n \in News /\ n = news[1] /\ Len(news) \in Nat \ {0}
        /\ DOMAIN news = 1 .. Len(news) /\ DOMAIN news' = 1 .. Len(news) - 1
        /\ \A i \in DOMAIN news' : i + 1 \in DOMAIN news /\ news'[i] = news[i + 1]
        /\ \A i \in DOMAIN news : i # 1 => i - 1 \in DOMAIN news' /\ news'[i - 1] = news[i]
    BY <1>1, <2>1, TailElements
  <2> HIDE DEF n
  <2>3. 1 \in DOMAIN news
    BY <2>2
  <2>4. n.gen \in Generations /\ n.ok \in BOOLEAN
    BY <2>2 DEF News
  <2>5. \A i, k \in DOMAIN news' : i < k => news'[i].gen < news'[k].gen
    <3> SUFFICES ASSUME NEW i \in DOMAIN news', NEW k \in DOMAIN news', i < k
                 PROVE  news'[i].gen < news'[k].gen
      OBVIOUS
    <3>1. i + 1 \in DOMAIN news /\ k + 1 \in DOMAIN news /\ i + 1 < k + 1
      BY <2>2
    <3> QED
      BY <2>2, <3>1 DEF IInv, NewsInOrder
  <2>6. known'.reaped = known.reaped
    BY <1>1, <2>1, <2>4, NoteInitFailureIs DEF Knowledge
  <2>7. NewsInOrder'
    BY <2>1, <2>2, <2>5, <2>6 DEF IInv, NewsInOrder
  <2>8. \A i \in DOMAIN news : news[i].ok => (i = 1 /\ n.ok) \/ \E k \in DOMAIN news' : news'[k].ok
    BY <2>2
  <2>9. CASE n.ok
    <3>1. /\ known'.failed = {} /\ known'.cameUp = TRUE /\ known'.broken = known.broken
      BY <1>1, <2>1, <2>9 DEF Knowledge
    <3> QED
      BY <2>1, <2>7, <3>1 DEF IInv, FailuresAreDeaths, GivesUpOnlyWhenBroken
  <2>10. CASE ~n.ok /\ n.gen \in known.reaped
    <3>1. known' = known
      BY <1>1, <2>1, <2>4, <2>10, NoteInitFailureIs
    <3>2. (\E i \in DOMAIN news : news[i].ok) => \E k \in DOMAIN news' : news'[k].ok
      BY <2>8, <2>10
    <3>3. /\ known.failed \subseteq truth.died
          /\ truth.cameUp => known.cameUp \/ \E i \in DOMAIN news : news[i].ok
      BY DEF IInv, FailuresAreDeaths
    <3>4. FailuresAreDeaths'
      BY <2>1, <3>1, <3>2, <3>3 DEF IInv, FailuresAreDeaths, GivesUpOnlyWhenBroken
    <3> QED
      BY <2>7, <3>4, Zenon
  <2>11. CASE ~n.ok /\ n.gen \notin known.reaped
    <3>1. n.gen = pool.gen /\ pool.warm = "broken"
      BY <2>2, <2>3, <2>11 DEF IInv, NewsInOrder
    <3>2. \A i \in DOMAIN news : i = 1
      <4> TAKE i \in DOMAIN news
      <4>1. ASSUME i # 1 PROVE FALSE
        <5>1. 1 < i
          BY <2>2, <4>1
        <5>2. n.gen < news[i].gen /\ news[i].gen <= pool.gen
          BY <2>2, <2>3, <5>1 DEF IInv, NewsInOrder
        <5>3. news[i].gen \in Nat
          <6>1. news[i] \in News
            BY <1>1, <2>2
          <6> QED
            BY <6>1, GenerationBound DEF News
        <5> QED
          BY <1>1, <3>1, <5>2, <5>3
      <4> QED
        BY <4>1
    <3>3. known.cameUp \/ ~truth.cameUp
      BY <2>2, <2>11, <3>2 DEF IInv, FailuresAreDeaths
    <3>4. known' = NoteInitFailure(known, pool.gen)
      BY <2>1, <2>11, <3>1
    <3>5. /\ known'.failed \subseteq truth.died
          /\ truth.cameUp => known'.cameUp
          /\ known'.broken => Cardinality(truth.died) >= MaxAttempts /\ ~truth.cameUp
      BY <3>1, <3>3, <3>4, FailureCounts
    <3>6. pool.worker \in {"none", "dead"}
      BY <3>1 DEF IInv, WorkerIsAsWarm
    <3>7. truth' = truth /\ pool' = pool
      BY <2>1
    <3>8. known'.broken => /\ Cardinality(truth'.died) >= MaxAttempts
                           /\ ~truth'.cameUp
                           /\ pool'.worker \in {"none", "dead"} /\ pool'.warm = "broken"
      BY <3>1, <3>5, <3>6, <3>7
    <3>9. FailuresAreDeaths'
      BY <3>5, <3>7, <3>8 DEF FailuresAreDeaths, GivesUpOnlyWhenBroken
    <3> QED
      BY <2>7, <3>9
  <2> QED
    BY <2>9, <2>10, <2>11
<1>10. ASSUME BringUp \/ BringUpFails PROVE NewsInOrder' /\ FailuresAreDeaths'
  <2>1. /\ pool.worker = "starting" /\ pool.warm = "pending" /\ ~known.broken
        /\ known' = known
    BY <1>10 DEF BringUp, BringUpFails, WorkerSteps, IInv, WorkerIsAsWarm, FailuresAreDeaths
  <2>2. PICK ok \in BOOLEAN :
           /\ news' = Append(news, [gen |-> pool.gen, ok |-> ok])
           /\ ok => truth'.died = truth.died
           /\ ~ok => pool'.warm = "broken" /\ truth'.cameUp = truth.cameUp
    BY <1>1, <1>10 DEF BringUp, BringUpFails, Pools, Histories
  <2>3. /\ pool'.gen = pool.gen /\ pool'.warm # "pending"
        /\ truth.died \subseteq truth'.died
    <3>1. CASE BringUp
      BY <1>1, <3>1 DEF BringUp, Pools, Histories
    <3>2. CASE BringUpFails
      BY <1>1, <3>2 DEF BringUpFails, Pools, Histories
    <3> QED
      BY <1>10, <3>1, <3>2
  <2>4. /\ \A i, k \in DOMAIN news' : i < k => news'[i].gen < news'[k].gen
        /\ \A i \in DOMAIN news' :
              \/ i \in DOMAIN news /\ news'[i] = news[i] /\ news[i].gen < pool.gen
              \/ news'[i] = [gen |-> pool.gen, ok |-> ok]
        /\ \A i \in DOMAIN news : i \in DOMAIN news' /\ news'[i] = news[i]
        /\ \E i \in DOMAIN news' : news'[i].ok = ok
    BY <2>1, <2>2, NewsJoins
  <2>5. ASSUME NEW i \in DOMAIN news'
        PROVE  /\ news'[i].gen <= pool'.gen
               /\ ~news'[i].ok =>
                     \/ news'[i].gen \in known'.reaped
                     \/ news'[i].gen = pool'.gen /\ pool'.warm = "broken"
    <3>1. CASE i \in DOMAIN news /\ news'[i] = news[i] /\ news[i].gen < pool.gen
      BY <2>1, <2>3, <3>1 DEF IInv, NewsInOrder
    <3>2. CASE news'[i] = [gen |-> pool.gen, ok |-> ok]
      BY <1>1, <2>2, <2>3, <3>2
    <3> QED
      BY <2>4, <3>1, <3>2
  <2>6. NewsInOrder'
    BY <2>3, <2>4, <2>5 DEF NewsInOrder
  <2>7. FailuresAreDeaths'
    BY <2>1, <2>2, <2>3, <2>4 DEF IInv, FailuresAreDeaths
  <2> QED
    BY <2>6, <2>7
<1>11. ASSUME Begin \/ Beat \/ Finish \/ SourcesChange
       PROVE  NewsInOrder' /\ FailuresAreDeaths'
  <2>1. /\ pool'.gen = pool.gen /\ pool'.warm = pool.warm /\ pool'.worker = pool.worker
        /\ truth'.died = truth.died /\ truth'.cameUp = truth.cameUp
        /\ news' = news /\ known' = known
    BY <1>1, <1>11 DEF Begin, Beat, Finish, SourcesChange, WorkerSteps, Pools, Histories
  <2> QED
    BY <2>1, SameNews
<1>12. ASSUME Die PROVE NewsInOrder' /\ FailuresAreDeaths'
  <2>1. /\ pool'.gen = pool.gen /\ pool'.warm = pool.warm /\ pool.worker = "up"
        /\ truth'.died = truth.died /\ truth'.cameUp = truth.cameUp
        /\ news' = news /\ known' = known
    BY <1>1, <1>12 DEF Die, WorkerSteps, Pools, Histories
  <2>2. ~known.broken
    BY <2>1 DEF IInv, FailuresAreDeaths
  <2> QED
    BY <2>1, <2>2, SameNews
<1>13. CASE UNCHANGED vars
  BY <1>13, SameNews DEF vars
<1> QED
  BY <1>3, <1>4, <1>5, <1>6, <1>7, <1>8, <1>9, <1>10, <1>11, <1>12, <1>13 DEF Next
-----------------------------------------------------------------------------
(* What the requests are told.                                             *)

(* What an answer rests on is never taken back. *)
LEMMA NothingIsUndone ==
    ASSUME IInv, [Next]_vars
    PROVE  /\ token \subseteq token'
           /\ truth.died \subseteq truth'.died /\ truth.guilty \subseteq truth'.guilty
           /\ truth.begun \subseteq truth'.begun
           /\ truth.orphans => truth'.orphans
           /\ truth.idle => truth'.idle
           /\ \A j \in Jobs : fut[j] = "done" => fut'[j] = "done"
<1>1. /\ truth \in Histories /\ fut \in [Jobs -> Futures] /\ pool \in Pools
  BY DEF IInv, TypeOK
<1>2. token \subseteq token'
  <2>1. ASSUME Next PROVE token' = token \/ \E j \in Jobs : token' = token \cup {j}
    <3>1. CASE \E j \in Jobs : Request(j) \/ Replied(j) \/ Leave(j) \/ Cancel(j)
      BY <3>1 DEF Request, Replied, Leave, Cancel
    <3>2. CASE \E j \in Jobs : Poll(j) \/ Expire(j) \/ Resolve(j) \/ Vanish(j)
      BY <3>2 DEF Poll, Expire, Resolve, Vanish
    <3>3. CASE Acquire \/ Watch \/ SourcesChange
      BY <3>3 DEF Acquire, Watch, SourcesChange
    <3>4. CASE BringUp \/ BringUpFails \/ Begin \/ Beat \/ Finish \/ Die
      BY <3>4 DEF BringUp, BringUpFails, Begin, Beat, Finish, Die, WorkerSteps
    <3> QED
      BY <2>1, <3>1, <3>2, <3>3, <3>4 DEF Next
  <2> QED
    BY <2>1 DEF vars
<1>3. /\ truth.died \subseteq truth'.died /\ truth.guilty \subseteq truth'.guilty
      /\ truth.begun \subseteq truth'.begun
      /\ truth.orphans => truth'.orphans
      /\ truth.idle => truth'.idle
  <2>1. CASE truth' = truth
    BY <2>1
  <2>2. CASE \E j \in Jobs : Leave(j)
    BY <2>2, <1>1 DEF Leave, Histories
  <2>3. CASE BringUp \/ BringUpFails
    BY <2>3, <1>1 DEF BringUp, BringUpFails, Histories
  <2>4. CASE Begin
    BY <2>4, <1>1 DEF Begin, Histories
  <2>5. CASE Die
    <3>1. \/ truth' = [truth EXCEPT !.guilty = @ \cup {Head(pool.jobs)}]
          \/ truth' = [truth EXCEPT !.idle = TRUE]
      BY <2>5 DEF Die
    <3> QED
      BY <3>1, <1>1 DEF Histories
  <2>6. ASSUME Next
        PROVE  truth' = truth \/ (\E j \in Jobs : Leave(j)) \/ BringUp
                   \/ BringUpFails \/ Begin \/ Die
    <3>1. CASE \E j \in Jobs : Request(j) \/ Replied(j) \/ Cancel(j)
      BY <3>1 DEF Request, Replied, Cancel
    <3>2. CASE \E j \in Jobs : Poll(j) \/ Expire(j) \/ Resolve(j) \/ Vanish(j)
      BY <3>2 DEF Poll, Expire, Resolve, Vanish
    <3>3. CASE Acquire \/ Watch \/ SourcesChange \/ Beat \/ Finish
      BY <3>3 DEF Acquire, Watch, SourcesChange, Beat, Finish
    <3> QED
      BY <2>6, <3>1, <3>2, <3>3 DEF Next
  <2> QED
    BY <2>1, <2>2, <2>3, <2>4, <2>5, <2>6 DEF vars
<1>4. ASSUME NEW i \in Jobs, fut[i] = "done" PROVE fut'[i] = "done"
  <2>1. ~Unresolved(i)
    BY <1>4 DEF Unresolved
  <2>2. CASE fut' = fut
    BY <1>4, <2>2
  <2>3. CASE Acquire
    BY <1>1, <1>4, <2>1, <2>3, AcquireCases
    DEF AcquireRefused, AcquireRuns, AcquireDead, AcquireInto, AcquireAfresh
  <2>4. ASSUME NEW j \in Jobs, Leave(j) PROVE fut'[i] = "done"
    <3>1. CASE Unshielded(j)
      <4>1. Unresolved(j)
        BY <3>1 DEF Unshielded, IInv, PoolHasTheJobs
      <4>2. i # j
        BY <2>1, <4>1
      <4> QED
        BY <1>1, <1>4, <2>4, <4>2 DEF Leave
    <3>2. CASE ~Unshielded(j)
      BY <1>4, <2>4, <3>2 DEF Leave
    <3> QED
      BY <3>1, <3>2
  <2>5. ASSUME NEW c \in BOOLEAN, fut' = KilledFutures(pool, c) PROVE fut'[i] = "done"
    BY <1>4, <2>1, <2>5, KilledFuturesAre
  <2>6. CASE Breaks
    BY <1>4, <2>1, <2>6, BrokenFuturesAre
  <2>7. CASE Begin \/ Finish
    <3>1. fut[Head(pool.jobs)] # "done"
            \/ \A x : ~(fut' = [fut EXCEPT ![Head(pool.jobs)] = x] /\ x # "done")
      BY <2>7 DEF Begin, Finish, Taking, Running
    <3>2. fut' = [fut EXCEPT ![Head(pool.jobs)] = "begun"]
            \/ fut' = [fut EXCEPT ![Head(pool.jobs)] = "done"]
      BY <2>7 DEF Begin, Finish
    <3> QED
      BY <1>1, <1>4, <3>1, <3>2
  <2>8. ASSUME Next
        PROVE  \/ fut' = fut \/ Acquire \/ (\E j \in Jobs : Leave(j))
               \/ (\E c \in BOOLEAN : fut' = KilledFutures(pool, c))
               \/ Breaks \/ Begin \/ Finish
    <3>1. CASE \E j \in Jobs : Request(j) \/ Replied(j) \/ Resolve(j) \/ Vanish(j)
      BY <3>1 DEF Request, Replied, Resolve, Vanish
    <3>2. CASE \E j \in Jobs : Cancel(j)
      BY <3>2, Zenon DEF Cancel
    <3>3. CASE \E j \in Jobs : Poll(j)
      <4>1. fut' = fut \/ \E c \in BOOLEAN : fut' = KilledFutures(pool, c)
        BY <3>3, Zenon DEF Poll
      <4> QED
        BY <4>1, Zenon
    <3>4. CASE \E j \in Jobs : Expire(j)
      BY <3>4, Zenon DEF Expire
    <3>5. CASE Watch \/ SourcesChange \/ Beat \/ BringUp
      BY <3>5 DEF Watch, SourcesChange, Beat, BringUp
    <3>6. CASE BringUpFails \/ Die
      BY <3>6 DEF BringUpFails, Die
    <3> QED
      BY <2>8, <3>1, <3>2, <3>3, <3>4, <3>5, <3>6, Zenon DEF Next
  <2> QED
    BY <2>2, <2>3, <2>4, <2>5, <2>6, <2>7, <2>8 DEF vars
<1> QED
  BY <1>2, <1>3, <1>4

(* Whoever is told something now is told what happened. *)
LEMMA ToldTheTruth ==
    ASSUME IInv, NEW j \in Jobs, NEW what, Next, Says(j, what),
           \/ Acquire /\ j = Head(queue)
           \/ Poll(j) \/ Expire(j) \/ Resolve(j)
    PROVE  /\ what = "result" => fut[j] = "done"
           /\ what = "cancelled" => j \in token
           /\ what = "crashed" => j \in truth.guilty \/ truth.orphans \/ truth.idle
           /\ what = "stalled" => j \in truth.begun \/ truth.orphans
           /\ what = "install" => truth.died # {}
<1>1. /\ pool \in Pools /\ truth \in Histories
      /\ answer \in [Jobs -> Answers \cup {None}] /\ fut \in [Jobs -> Futures]
  BY DEF IInv, TypeOK
<1>2. answer'[j] = what
  BY <1>1 DEF Says
<1>3. CASE Acquire /\ j = Head(queue)
  <2>1. answer[j] = None /\ phase[j] = "waiting" /\ phase'[j] = "replying"
    <3>1. phase \in [Jobs -> Phases]
      BY DEF IInv, TypeOK
    <3> QED
      BY <1>3, <3>1, AcquireCases DEF IInv, WaitersAreIdle, Unanswered, Says
  <2>2. AcquireRefused(j)
    <3>1. phase \in [Jobs -> Phases]
      BY DEF IInv, TypeOK
    <3>2. ~AcquireRuns(j)
      BY <2>1, <3>1 DEF AcquireRuns
    <3> QED
      BY <1>3, <3>2, AcquireCases
  <2>3. answer'[j] = "install" /\ known.broken
    BY <1>1, <2>2 DEF AcquireRefused, Says
  <2>4. truth.died # {}
    <3>1. Cardinality(truth.died) >= MaxAttempts
      BY <2>3 DEF IInv, FailuresAreDeaths, GivesUpOnlyWhenBroken
    <3>2. Cardinality({}) = 0
      BY FS_EmptySet
    <3> QED
      BY <3>1, <3>2, PoolAssumption
  <2> QED
    BY <1>2, <2>3, <2>4
<1>4. CASE Poll(j)
  <2>1. answer[j] = None /\ phase[j] = "running"
    BY <1>4 DEF Poll, IInv, WaitersAreIdle, Unanswered
  <2>2. CASE PollWaits
    BY <1>1, <1>2, <2>1, <2>2 DEF PollWaits, Says, IInv, TypeOK
  <2>3. CASE PollKills(j)
    <3>1. what = "stalled" /\ ~Progressing(j)
      BY <1>1, <1>2, <2>3 DEF PollKills, Says
    <3>2. Unresolved(j) /\ j \notin token /\ ~Taking
      BY <1>4 DEF Poll
    <3>3. /\ pool.worker \in {"starting", "up"} /\ pool.jobs # <<>>
          /\ gen[j] = pool.gen
      BY <2>1, <3>2, UnresolvedHasAWorker DEF IInv, SupervisedIsHere
    <3>4. pool.worker = "up"
      BY <3>1, <3>3 DEF Progressing, WarmingUp, IInv, WorkerIsAsWarm
    <3> DEFINE h == Head(pool.jobs)
    <3>5. h \in Jobs /\ Unresolved(h)
      <4>1. pool.jobs \in Seq(Jobs)
        BY <1>1 DEF Pools
      <4>2. h \in Jobs /\ h = pool.jobs[1] /\ 1 \in DOMAIN pool.jobs
        BY <3>3, <4>1, TailElements
      <4> QED
        BY <4>2 DEF IInv, PoolHasTheJobs
    <3>6. fut[h] = "begun"
      BY <3>2, <3>3, <3>4, <3>5 DEF Taking, Unresolved
    <3>7. h \in truth.begun /\ (phase[h] = "running" \/ truth.orphans)
      BY <3>5, <3>6 DEF IInv, PoolHasTheJobs
    <3>8. phase[h] = "running" => h = j
      BY <2>1, <3>5 DEF IInv, OneHolds, Active
    <3> QED
      BY <3>1, <3>7, <3>8
  <2> QED
    BY <1>4, <2>2, <2>3, PollCases
<1>5. CASE Expire(j)
  BY <1>1, <1>2, <1>5 DEF Expire, Says
<1>6. CASE Resolve(j)
  <2>1. phase[j] = "running"
    BY <1>6 DEF Resolve
  <2>2. CASE ResolveDone(j)
    BY <1>1, <1>2, <2>2 DEF ResolveDone, Says
  <2>3. CASE ResolveBroken(j)
    <3>1. /\ pool.worker = "dead"
          /\ \/ pool.warm = "ok" /\ what = "crashed"
             \/ pool.warm = "broken" /\ what = "install"
      BY <1>1, <1>2, <2>3 DEF ResolveBroken, Says
    <3>2. pool.warm = "ok" => j \in truth.guilty \/ truth.orphans \/ truth.idle
      BY <2>1, <3>1 DEF IInv, DeathHasACause, OneHolds, Active
    <3>3. pool.warm = "broken" => truth.died # {}
      BY DEF IInv, WorkerIsAsWarm
    <3> QED
      BY <3>1, <3>2, <3>3
  <2> QED
    BY <1>6, <2>2, <2>3, ResolveCases
<1> QED
  BY <1>3, <1>4, <1>5, <1>6

LEMMA AnswersStep ==
    ASSUME IInv, [Next]_vars
    PROVE  AnswersAreTrue'
<1>1. answer \in [Jobs -> Answers \cup {None}] /\ None \notin Answers
  BY PoolAssumption DEF IInv, TypeOK
<1>2. CASE answer' = answer
  BY <1>2, NothingIsUndone DEF IInv, AnswersAreTrue
<1>3. ASSUME NEW j \in Jobs, NEW what \in Answers, Next, Says(j, what),
             \/ Acquire /\ j = Head(queue)
             \/ Poll(j) \/ Expire(j) \/ Resolve(j)
      PROVE  AnswersAreTrue'
  <2>1. /\ what = "result" => fut[j] = "done"
        /\ what = "cancelled" => j \in token
        /\ what = "crashed" => j \in truth.guilty \/ truth.orphans \/ truth.idle
        /\ what = "stalled" => j \in truth.begun \/ truth.orphans
        /\ what = "install" => truth.died # {}
    BY <1>3, ToldTheTruth
  <2>2. \A i \in Jobs : answer'[i] = IF i = j THEN what ELSE answer[i]
    BY <1>1, <1>3 DEF Says
  <2> QED
    BY <2>1, <2>2, NothingIsUndone DEF IInv, AnswersAreTrue
<1>4. ASSUME Next, answer' # answer
      PROVE  \E j \in Jobs : \E what \in Answers :
                /\ Says(j, what)
                /\ \/ Acquire /\ j = Head(queue)
                   \/ Poll(j) \/ Expire(j) \/ Resolve(j)
  <2>1. CASE Acquire
    <3>1. Head(queue) \in Jobs /\ Says(Head(queue), "install")
      BY <1>4, <2>1, AcquireCases DEF AcquireRefused, AcquireRuns
    <3> QED
      BY <2>1, <3>1 DEF Answers
  <2>2. ASSUME NEW j \in Jobs, Poll(j) PROVE Says(j, "stalled")
    BY <1>4, <2>2, PollCases DEF PollWaits, PollKills
  <2>3. ASSUME NEW j \in Jobs, Expire(j) PROVE Says(j, "timed out")
    BY <2>3 DEF Expire
  <2>4. ASSUME NEW j \in Jobs, Resolve(j) PROVE \E what \in Answers : Says(j, what)
    BY <2>4, ResolveCases DEF ResolveDone, ResolveBroken, Answers
  <2>5. CASE \E j \in Jobs : Request(j) \/ Replied(j) \/ Leave(j) \/ Cancel(j) \/ Vanish(j)
    BY <1>4, <2>5 DEF Request, Replied, Leave, Cancel, Vanish
  <2>6. CASE Watch \/ SourcesChange \/ BringUp \/ BringUpFails \/ Begin \/ Beat \/ Finish \/ Die
    BY <1>4, <2>6 DEF Watch, SourcesChange, BringUp, BringUpFails, Begin, Beat,
                      Finish, Die, WorkerSteps
  <2>7. "stalled" \in Answers /\ "timed out" \in Answers
    BY DEF Answers
  <2> QED
    BY <1>4, <2>1, <2>2, <2>3, <2>4, <2>5, <2>6, <2>7, Zenon DEF Next
<1> QED
  BY <1>2, <1>3, <1>4 DEF vars
-----------------------------------------------------------------------------
(* The theorems.                                                           *)

LEMMA InitInv ==
    ASSUME Init
    PROVE  IInv
<1>1. /\ Cardinality(Jobs) \in Nat /\ MaxMishaps \in Nat /\ MaxBeats \in Nat
      /\ Patience \in Nat /\ 1 \in Generations
  BY GenerationBound, PoolAssumption
<1>2. <<>> \in Seq(Jobs) /\ <<>> \in Seq(News) /\ DOMAIN <<>> = {}
  OBVIOUS
<1>3. Cardinality({}) = 0
  BY FS_EmptySet
<1>4. pool = [gen |-> 1, worker |-> "starting", warm |-> "pending", jobs |-> <<>>]
  BY DEF Init
<1>5. pool \in Pools /\ pool.gen = 1 /\ pool.worker = "starting"
      /\ pool.warm = "pending" /\ pool.jobs = <<>>
  BY <1>1, <1>2, <1>4 DEF Pools
<1>6. /\ known \in Knowledge /\ known.failed = {} /\ known.broken = FALSE
  BY DEF Init, Knowledge
<1>7. /\ truth \in Histories /\ truth.cameUp = FALSE
  BY DEF Init, Histories
<1>8. \A j \in Jobs : phase[j] = "new" /\ fut[j] = "none" /\ answer[j] = None
  BY DEF Init
<1>9. {j \in Jobs : phase[j] \in {"running", "replying"}} = {}
  BY <1>8
<1>10. TypeOK
  <2>1. /\ stale \in BOOLEAN /\ moved \in BOOLEAN /\ age \in 0 .. Patience
        /\ mishaps \in 0 .. MaxMishaps /\ news \in Seq(News) /\ queue \in Seq(Jobs)
        /\ token \subseteq Jobs
    <3>1. /\ stale = FALSE /\ moved = FALSE /\ age = 0 /\ mishaps = MaxMishaps
          /\ news = <<>> /\ queue = <<>> /\ token = {}
      BY DEF Init
    <3>2. stale \in BOOLEAN /\ moved \in BOOLEAN
      BY <3>1
    <3>3. age \in 0 .. Patience /\ mishaps \in 0 .. MaxMishaps
      BY <1>1, <3>1
    <3>4. news \in Seq(News) /\ queue \in Seq(Jobs) /\ token \subseteq Jobs
      BY <1>2, <3>1
    <3> QED
      BY <3>2, <3>3, <3>4
  <2>2. /\ phase \in [Jobs -> Phases] /\ fut \in [Jobs -> Futures]
        /\ gen \in [Jobs -> Generations \cup {0}]
        /\ answer \in [Jobs -> Answers \cup {None}]
        /\ beats \in [Jobs -> 0 .. MaxBeats]
    BY <1>1 DEF Init, Phases, Futures
  <2>3. Cardinality({j \in Jobs : phase[j] \in {"running", "replying"}}) <= 1
    BY <1>3, <1>9
  <2> QED
    BY <1>5, <1>6, <2>1, <2>2, <2>3 DEF TypeOK
<1>11. OneHolds
  BY <1>8 DEF OneHolds, Active
<1>12. QueueWaits
  BY <1>2 DEF Init, QueueWaits, Distinct
<1>13. WaitersAreIdle
  BY <1>8 DEF Init, WaitersAreIdle
<1>14. PoolHasTheJobs
  BY <1>2, <1>5, <1>8 DEF PoolHasTheJobs, Unresolved, Distinct
<1>15. WorkerIsAsWarm /\ DeathHasACause
  BY <1>5 DEF WorkerIsAsWarm, DeathHasACause
<1>16. SupervisedIsHere
  BY <1>8 DEF SupervisedIsHere
<1>17. NewsInOrder
  BY <1>2 DEF Init, NewsInOrder
<1>18. FailuresAreDeaths
  BY <1>6, <1>7 DEF FailuresAreDeaths
<1>19. PoolsAreBudgeted
  <2>1. Expecting = Jobs
    BY <1>8 DEF Expecting
  <2>2. stale = FALSE /\ mishaps = MaxMishaps
    BY DEF Init
  <2> QED
    BY <1>1, <1>5, <2>1, <2>2 DEF PoolsAreBudgeted
<1>20. AnswersAreTrue
  BY <1>8, PoolAssumption DEF AnswersAreTrue, Answers
<1> QED
  BY <1>7, <1>10, <1>11, <1>12, <1>13, <1>14, <1>15, <1>16, <1>17, <1>18,
     <1>19, <1>20 DEF IInv

LEMMA NextInv ==
    ASSUME IInv, [Next]_vars
    PROVE  IInv'
BY TypeStep, PlacesStep, JobsStep, WorkerStep, SupervisionStep, NewsStep,
   BudgetStep, AnswersStep DEF IInv

(* The invariant holds of every state the supervisor reaches. *)
THEOREM PoolInvariance == Spec => []IInv
BY InitInv, NextInv, PTL DEF Spec

(* Everything the supervisor keeps has its type, for any number of         *)
(* requests and mishaps; the pools it makes stay within their budget.      *)
THEOREM PoolTypeCorrect == Spec => []TypeOK
<1>1. IInv => TypeOK
  BY DEF IInv
<1> QED
  BY <1>1, PoolInvariance, PTL

(* Geometry is given up for the session only after MaxAttempts workers     *)
(* failed to start by themselves, and none ever did: neither the kills of  *)
(* cancels, stalls and updates nor the crashes of running workers count.   *)
THEOREM GivesUpLate == Spec => []GivesUpOnlyWhenBroken
<1>1. IInv => GivesUpOnlyWhenBroken
  BY DEF IInv, FailuresAreDeaths, GivesUpOnlyWhenBroken
<1> QED
  BY <1>1, PoolInvariance, PTL

(* What a request is told happened: a result was computed, a cancel heard, *)
(* a crash or a stall was its own, or that of a job somebody left.         *)
THEOREM AnswersHold == Spec => []AnswersAreTrue
<1>1. IInv => AnswersAreTrue
  BY DEF IInv
<1> QED
  BY <1>1, PoolInvariance, PTL

(* A request whose cancel was heard while it ran is told so, and nothing   *)
(* else.                                                                   *)
THEOREM CancelsHold == Spec => CancelIsKept
<1> DEFINE A == \A j \in Jobs :
                   j \in token /\ phase[j] = "running" /\ phase'[j] = "replying" =>
                       answer'[j] = "cancelled"
<1>1. ASSUME IInv, [Next]_vars PROVE [A]_vars
  <2> SUFFICES ASSUME Next, NEW j \in Jobs, j \in token, phase[j] = "running",
                      phase'[j] = "replying"
               PROVE  answer'[j] = "cancelled"
    BY <1>1
  <2>1. phase \in [Jobs -> Phases] /\ answer \in [Jobs -> Answers \cup {None}]
    BY <1>1 DEF IInv, TypeOK
  <2>2. ASSUME NEW i \in Jobs, phase[i] = "running" PROVE i = j
    BY <1>1, <2>2 DEF IInv, OneHolds, Active
  <2>3. CASE Resolve(j)
    BY <2>1, <2>3 DEF Resolve, Withdrawn, Says
  <2>4. CASE Acquire
    BY <1>1, <2>4, AcquireCases DEF Active
  <2>5. CASE \E i \in Jobs : Request(i)
    BY <2>1, <2>5 DEF Request
  <2>6. CASE \E i \in Jobs : Replied(i)
    BY <2>1, <2>6 DEF Replied
  <2>7. CASE \E i \in Jobs : Leave(i)
    BY <2>1, <2>7 DEF Leave
  <2>8. CASE \E i \in Jobs : Cancel(i)
    BY <2>8 DEF Cancel
  <2>9. CASE \E i \in Jobs : Poll(i) \/ Expire(i)
    BY <2>2, <2>9 DEF Poll, Expire
  <2>10. CASE \E i \in Jobs : Resolve(i)
    BY <2>2, <2>3, <2>10 DEF Resolve
  <2>11. CASE \E i \in Jobs : Vanish(i)
    BY <2>1, <2>11 DEF Vanish
  <2>12. CASE Watch \/ SourcesChange \/ BringUp \/ BringUpFails \/ Begin \/ Beat
              \/ Finish \/ Die
    BY <2>12 DEF Watch, SourcesChange, BringUp, BringUpFails, Begin, Beat,
                 Finish, Die, WorkerSteps
  <2> QED
    BY <2>4, <2>5, <2>6, <2>7, <2>8, <2>9, <2>10, <2>11, <2>12, Zenon DEF Next
<1>2. Spec => [][A]_vars
  BY <1>1, PoolInvariance, PTL DEF Spec
<1> QED
  BY <1>2 DEF CancelIsKept
=============================================================================
