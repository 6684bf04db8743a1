------------------------ MODULE RebuildPipelineProofs ------------------------
(***************************************************************************)
(* RebuildPipeline is type correct; as long as no two builds overlap and   *)
(* no request is left to Compute All, no edit is lost and what is awaited  *)
(* has been published.                                                     *)
(***************************************************************************)
EXTENDS RebuildPipelineInvariant, SequenceTheorems, FiniteSetTheorems, TLAPS

-----------------------------------------------------------------------------
(* The engine's queue.                                                     *)

(* The queue e holds the runs of rs that are in a call, each once. *)
Queues(e, rs) ==
    /\ e \in Seq(Runs)
    /\ {e[i] : i \in DOMAIN e} = {r \in Runs : rs[r].pc = "call"}
    /\ \A i, j \in DOMAIN e : e[i] = e[j] => i = j

RunTable == [Runs -> RunRecords \cup {NoRun}]

(* A queue is a queue of any runs of which the same are in a call. *)
LEMMA QueueSame ==
    ASSUME NEW e, NEW rs, NEW rt, Queues(e, rs),
           \A s \in Runs : (rt[s].pc = "call") <=> (rs[s].pc = "call")
    PROVE  Queues(e, rt)
<1>1. {r \in Runs : rt[r].pc = "call"} = {r \in Runs : rs[r].pc = "call"}
  OBVIOUS
<1> QED
  BY <1>1 DEF Queues

(* A run that enters its call goes to the end of the queue ... *)
LEMMA QueueAppend ==
    ASSUME NEW e, NEW rs, NEW rt, NEW r \in Runs, Queues(e, rs),
           rs[r].pc # "call", rt[r].pc = "call",
           \A s \in Runs \ {r} : (rt[s].pc = "call") <=> (rs[s].pc = "call")
    PROVE  Queues(Append(e, r), rt)
<1> DEFINE f == Append(e, r)
<1>1. e \in Seq(Runs) /\ DOMAIN e = 1 .. Len(e) /\ Len(e) \in Nat
  BY DEF Queues
<1>2. /\ f \in Seq(Runs)
      /\ DOMAIN f = 1 .. Len(e) + 1
      /\ \A i \in DOMAIN e : f[i] = e[i]
      /\ f[Len(e) + 1] = r
  BY <1>1
<1>3. \A i \in DOMAIN e : e[i] \in Runs /\ rs[e[i]].pc = "call"
  BY DEF Queues
<1>4. \A i \in DOMAIN e : e[i] # r
  BY <1>3
<1>5. \A i, j \in DOMAIN f : f[i] = f[j] => i = j
  <2> SUFFICES ASSUME NEW i \in DOMAIN f, NEW j \in DOMAIN f, f[i] = f[j]
               PROVE  i = j
    OBVIOUS
  <2>1. i \in DOMAIN e \/ i = Len(e) + 1
    BY <1>1, <1>2
  <2>2. j \in DOMAIN e \/ j = Len(e) + 1
    BY <1>1, <1>2
  <2> QED
    BY <2>1, <2>2, <1>2, <1>4 DEF Queues
<1>6. \A s \in Runs : rt[s].pc = "call" <=> \E i \in DOMAIN f : f[i] = s
  <2> SUFFICES ASSUME NEW s \in Runs
               PROVE  rt[s].pc = "call" <=> \E i \in DOMAIN f : f[i] = s
    OBVIOUS
  <2>1. CASE s = r
    BY <2>1, <1>1, <1>2
  <2>2. CASE s # r
    <3>1. rs[s].pc = "call" <=> \E i \in DOMAIN e : e[i] = s
      BY DEF Queues
    <3>2. (\E i \in DOMAIN e : e[i] = s) <=> \E i \in DOMAIN f : f[i] = s
      BY <2>2, <1>1, <1>2
    <3> QED
      BY <2>2, <3>1, <3>2
  <2> QED
    BY <2>1, <2>2
<1>7. \A i \in DOMAIN f : f[i] \in Runs
  BY <1>1, <1>2, <1>3
<1>8. {f[i] : i \in DOMAIN f} = {s \in Runs : rt[s].pc = "call"}
  BY <1>6, <1>7
<1> QED
  BY <1>2, <1>5, <1>8 DEF Queues

(* ... or, when the socket has just opened, ahead of it. *)
LEMMA QueueAhead ==
    ASSUME NEW e, NEW rs, NEW rt, NEW r \in Runs, Queues(e, rs),
           rs[r].pc # "call", rt[r].pc = "call",
           \A s \in Runs \ {r} : (rt[s].pc = "call") <=> (rs[s].pc = "call")
    PROVE  Queues(<<r>> \o e, rt)
<1> DEFINE f == <<r>> \o e
<1>1. e \in Seq(Runs) /\ DOMAIN e = 1 .. Len(e) /\ Len(e) \in Nat
  BY DEF Queues
<1>2. /\ f \in Seq(Runs)
      /\ DOMAIN f = 1 .. Len(e) + 1
      /\ f[1] = r
      /\ \A i \in DOMAIN f : i # 1 => i - 1 \in DOMAIN e /\ f[i] = e[i - 1]
      /\ \A i \in DOMAIN e : i + 1 \in DOMAIN f /\ f[i + 1] = e[i]
  BY <1>1
<1>3. \A i \in DOMAIN e : e[i] \in Runs /\ rs[e[i]].pc = "call"
  BY DEF Queues
<1>4. \A i \in DOMAIN e : e[i] # r
  BY <1>3
<1>5. \A i, j \in DOMAIN f : f[i] = f[j] => i = j
  <2> SUFFICES ASSUME NEW i \in DOMAIN f, NEW j \in DOMAIN f, f[i] = f[j]
               PROVE  i = j
    OBVIOUS
  <2>1. CASE i = 1 \/ j = 1
    BY <2>1, <1>2, <1>4
  <2>2. CASE i # 1 /\ j # 1
    <3>1. i - 1 \in DOMAIN e /\ j - 1 \in DOMAIN e /\ e[i - 1] = e[j - 1]
      BY <2>2, <1>2
    <3>2. i - 1 = j - 1
      BY <3>1 DEF Queues
    <3> QED
      BY <3>2, <1>1, <1>2
  <2> QED
    BY <2>1, <2>2
<1>6. \A s \in Runs : rt[s].pc = "call" <=> \E i \in DOMAIN f : f[i] = s
  <2> SUFFICES ASSUME NEW s \in Runs
               PROVE  rt[s].pc = "call" <=> \E i \in DOMAIN f : f[i] = s
    OBVIOUS
  <2>1. CASE s = r
    BY <2>1, <1>1, <1>2
  <2>2. CASE s # r
    <3>1. rs[s].pc = "call" <=> \E i \in DOMAIN e : e[i] = s
      BY DEF Queues
    <3>2. ASSUME NEW i \in DOMAIN e, e[i] = s
          PROVE  \E k \in DOMAIN f : f[k] = s
      BY <3>2, <1>2
    <3>3. ASSUME NEW i \in DOMAIN f, f[i] = s
          PROVE  \E k \in DOMAIN e : e[k] = s
      BY <3>3, <2>2, <1>2
    <3> QED
      BY <2>2, <3>1, <3>2, <3>3
  <2> QED
    BY <2>1, <2>2
<1>7. \A i \in DOMAIN f : f[i] \in Runs
  BY <1>2, <1>3
<1>8. {f[i] : i \in DOMAIN f} = {s \in Runs : rt[s].pc = "call"}
  BY <1>6, <1>7
<1> QED
  BY <1>2, <1>5, <1>8 DEF Queues

(* The run at the head of the queue is in a call, and leaves the queue     *)
(* when its call ends.                                                     *)
LEMMA QueueTail ==
    ASSUME NEW e, NEW rs, Queues(e, rs), e # <<>>
    PROVE  /\ Head(e) \in Runs
           /\ rs[Head(e)].pc = "call"
           /\ \A rt : /\ rt[Head(e)].pc # "call"
                      /\ \A s \in Runs \ {Head(e)} :
                            (rt[s].pc = "call") <=> (rs[s].pc = "call")
                      => Queues(Tail(e), rt)
<1> DEFINE r == Head(e)
           f == Tail(e)
<1>1. e \in Seq(Runs) /\ DOMAIN e = 1 .. Len(e) /\ Len(e) \in Nat /\ Len(e) > 0
  BY DEF Queues
<1>2. /\ r = e[1]
      /\ f \in Seq(Runs)
      /\ \A i \in DOMAIN f : i + 1 \in DOMAIN e /\ i + 1 # 1 /\ f[i] = e[i + 1]
      /\ \A i \in DOMAIN e : i # 1 => i - 1 \in DOMAIN f /\ f[i - 1] = e[i]
      /\ DOMAIN f \subseteq Int
  BY <1>1
<1>3. \A i \in DOMAIN e : e[i] \in Runs /\ rs[e[i]].pc = "call"
  BY DEF Queues
<1>4. r \in Runs /\ rs[r].pc = "call"
  BY <1>1, <1>2, <1>3
<1>5. ASSUME NEW rt, rt[r].pc # "call",
             \A s \in Runs \ {r} : (rt[s].pc = "call") <=> (rs[s].pc = "call")
      PROVE  Queues(f, rt)
  <2>1. \A i, j \in DOMAIN f : f[i] = f[j] => i = j
    <3> SUFFICES ASSUME NEW i \in DOMAIN f, NEW j \in DOMAIN f, f[i] = f[j]
                 PROVE  i = j
      OBVIOUS
    <3>1. i + 1 = j + 1
      BY <1>2 DEF Queues
    <3> QED
      BY <3>1, <1>2
  <2>2. \A i \in DOMAIN f : f[i] \in Runs /\ rt[f[i]].pc = "call"
    <3> SUFFICES ASSUME NEW i \in DOMAIN f
                 PROVE  f[i] \in Runs /\ rt[f[i]].pc = "call"
      OBVIOUS
    <3>1. i + 1 \in DOMAIN e /\ i + 1 # 1 /\ f[i] = e[i + 1] /\ 1 \in DOMAIN e
      BY <1>1, <1>2
    <3>2. e[i + 1] # e[1]
      BY <3>1 DEF Queues
    <3> QED
      BY <3>1, <3>2, <1>2, <1>3, <1>5
  <2>3. ASSUME NEW s \in Runs, rt[s].pc = "call"
        PROVE  \E i \in DOMAIN f : f[i] = s
    <3>1. s # r /\ rs[s].pc = "call"
      BY <2>3, <1>5
    <3>2. PICK k \in DOMAIN e : e[k] = s
      BY <3>1 DEF Queues
    <3> QED
      BY <3>1, <3>2, <1>2
  <2>4. {f[i] : i \in DOMAIN f} = {s \in Runs : rt[s].pc = "call"}
    BY <2>2, <2>3
  <2> QED
    BY <1>2, <2>1, <2>4 DEF Queues
<1> QED
  BY <1>4, <1>5
-----------------------------------------------------------------------------
(* Type correctness.                                                       *)

(* A run that begins, and the absence of one. *)
LEMMA RunFacts ==
    /\ \A kind \in Kinds, sent \in BOOLEAN :
          /\ Run(kind, sent) \in RunRecords
          /\ (Run(kind, sent).pc = "call") <=> sent
    /\ NoRun.pc = "idle"
    /\ NoRun \notin RunRecords
BY DEF Run, RunRecords, Kinds, Ages, NoRun

(* A request of a run that was not in a call. *)
LEMMA RequestType ==
    ASSUME NEW rs \in RunTable, Queues(engine, rs), NEW r \in Runs,
           rs[r].pc # "call", NEW kind \in Kinds, NEW sent \in BOOLEAN,
           NEW opening \in BOOLEAN,
           Request(rs, r, kind, sent, opening)
    PROVE  /\ runs' \in RunTable
           /\ Queues(engine', runs')
<1>1. /\ runs' = [rs EXCEPT ![r] = Run(kind, sent)]
      /\ Run(kind, sent) \in RunRecords
      /\ Run(kind, sent).pc = "call" <=> sent
  BY RunFacts DEF Request
<1>2. /\ runs' \in RunTable
      /\ runs'[r].pc = "call" <=> sent
      /\ \A s \in Runs \ {r} : (runs'[s].pc = "call") <=> (rs[s].pc = "call")
  <2>1. /\ runs' \in RunTable
        /\ runs'[r] = Run(kind, sent)
        /\ \A s \in Runs \ {r} : runs'[s] = rs[s]
    BY <1>1 DEF RunTable
  <2>2. runs'[r].pc = "call" <=> sent
    BY <1>1, <2>1, Zenon
  <2>3. \A s \in Runs \ {r} : (runs'[s].pc = "call") <=> (rs[s].pc = "call")
    BY <2>1
  <2> QED
    BY <2>1, <2>2, <2>3
<1>3. CASE sent
  <2>1. Queues(Append(engine, r), runs') /\ Queues(<<r>> \o engine, runs')
    BY <1>2, <1>3, QueueAppend, QueueAhead
  <2> QED
    BY <1>2, <1>3, <2>1 DEF Request
<1>4. CASE ~sent
  <2>1. Queues(engine, runs')
    BY <1>2, <1>4, QueueSame
  <2> QED
    BY <1>2, <1>4, <2>1 DEF Request
<1> QED
  BY <1>3, <1>4

(* The table of runs and the flags after rebuildNow(). *)
LEMMA RebuildNowType ==
    ASSUME TypeOK, NEW rs \in RunTable,
           \A s \in Runs : rs[s].pc = runs[s].pc,
           NEW show \in BOOLEAN, NEW opening \in BOOLEAN,
           RebuildNow(rs, show, opening)
    PROVE  /\ runs' \in RunTable
           /\ Queues(engine', runs')
           /\ rebuilding' \in BOOLEAN /\ queued' \in BOOLEAN
           /\ drain' \in Runs \cup {None}
           /\ building' \in BOOLEAN
           /\ busy' \in [active : BOOLEAN, id : Runs \cup {None}]
           /\ astray' \in BOOLEAN
<1>1. Queues(engine, runs)
  BY DEF TypeOK, Queues
<1>2. Queues(engine, rs)
  BY <1>1, QueueSame
<1>3. CASE rebuilding
  BY <1>2, <1>3 DEF RebuildNow, AskAgain, Alone, TypeOK
<1>4. CASE ~rebuilding
  <2>1. PICK r \in Free, sent \in BOOLEAN :
           Request(rs, r, "rebuild", sent, opening) /\ drain' = r
    BY <1>4 DEF RebuildNow, Alone
  <2>2. r \in Runs /\ rs[r].pc # "call"
    BY RunFacts DEF Free
  <2>3. /\ runs' \in RunTable
        /\ Queues(engine', runs')
    BY <1>2, <2>1, <2>2, RequestType DEF TypeOK, Kinds
  <2>4. /\ rebuilding' = TRUE
        /\ queued' = FALSE
        /\ busy' = [active |-> TRUE, id |-> None]
        /\ building' = TRUE
        /\ astray' \in BOOLEAN
    BY <1>4 DEF RebuildNow, Alone
  <2> QED
    BY <2>1, <2>2, <2>3, <2>4
<1> QED
  BY <1>3, <1>4

(* The runs when their versions have grown older. *)
LEMMA AgedType ==
    ASSUME runs \in RunTable, NEW by \in Ages
    PROVE  /\ AgedRuns(by) \in RunTable
           /\ \A s \in Runs : /\ AgedRuns(by)[s].pc = runs[s].pc
                              /\ AgedRuns(by)[s].kind = runs[s].kind
                              /\ AgedRuns(by)[s].covers = runs[s].covers
<1> SUFFICES ASSUME NEW s \in Runs
             PROVE  /\ AgedRuns(by)[s] \in RunRecords \cup {NoRun}
                    /\ AgedRuns(by)[s].pc = runs[s].pc
                    /\ AgedRuns(by)[s].kind = runs[s].kind
                    /\ AgedRuns(by)[s].covers = runs[s].covers
  BY DEF AgedRuns, RunTable
<1>1. CASE runs[s] = NoRun
  BY <1>1 DEF AgedRuns
<1>2. CASE runs[s] # NoRun
  <2>1. runs[s] \in RunRecords
    BY <1>2 DEF RunTable
  <2>2. Aged(runs[s].age, by) \in Ages
    BY <2>1 DEF Aged, RunRecords
  <2>3. AgedRuns(by)[s] = [runs[s] EXCEPT !.age = Aged(runs[s].age, by)]
    BY <1>2 DEF AgedRuns
  <2> QED
    BY <2>1, <2>2, <2>3 DEF RunRecords
<1> QED
  BY <1>1, <1>2

(* What a change of the document leaves of the types. *)
LEMMA ChangeType ==
    ASSUME TypeOK, NEW immediate \in BOOLEAN, Change(immediate)
    PROVE  /\ runs' \in RunTable
           /\ Queues(engine', runs')
           /\ rebuilding' \in BOOLEAN /\ queued' \in BOOLEAN
           /\ drain' \in Runs \cup {None}
           /\ building' \in BOOLEAN
           /\ busy' \in [active : BOOLEAN, id : Runs \cup {None}]
           /\ astray' \in BOOLEAN
           /\ timer' \in BOOLEAN
           /\ settled' \in Ages
<1>1. settled' \in Ages
  BY DEF Change, TypeOK, Aged, Ages
<1>2. /\ AgedRuns("old") \in RunTable
      /\ \A s \in Runs : AgedRuns("old")[s].pc = runs[s].pc
  BY AgedType DEF TypeOK, RunTable, Ages
<1>3. CASE immediate
  <2>1. timer' = FALSE /\ RebuildNow(AgedRuns("old"), building, FALSE)
    BY <1>3 DEF Change
  <2> QED
    BY <1>1, <1>2, <2>1, RebuildNowType DEF TypeOK
<1>4. CASE ~immediate
  <2>1. Queues(engine, runs)
    BY DEF TypeOK, Queues
  <2>2. Queues(engine, AgedRuns("old"))
    BY <1>2, <2>1, QueueSame
  <2> QED
    BY <1>1, <1>2, <1>4, <2>2 DEF Change, TypeOK, flags
<1> QED
  BY <1>3, <1>4

(* The valve bounds both the refreshes waiting and those in a row. *)
LEMMA ValveType ==
    ASSUME TypeOK, NEW updates \in BOOLEAN, NEW s \in {0, streak},
           Valve(updates, s)
    PROVE  /\ refreshes' \in 0 .. MaxRefreshes
           /\ streak' \in Nat
           /\ streak' + refreshes' < RefreshLimit + MaxRefreshes
<1>1. /\ streak \in Nat /\ refreshes \in 0 .. MaxRefreshes
      /\ streak + refreshes < RefreshLimit + MaxRefreshes
      /\ s \in Nat /\ s <= streak
      /\ RefreshLimit \in Nat /\ RefreshLimit > 0
      /\ MaxRefreshes \in Nat /\ MaxRefreshes > 0
  BY PipelineAssumption DEF TypeOK
<1>2. \/ streak' = s /\ refreshes' = refreshes
      \/ streak' = 0 /\ refreshes' = refreshes
      \/ /\ streak' = s /\ refreshes' = refreshes + 1
         /\ refreshes < MaxRefreshes /\ ~(s >= RefreshLimit)
  BY DEF Valve, Shut
<1> QED
  BY <1>1, <1>2

(* Publishing an answer keeps the types of what is on screen. *)
LEMMA PublishType ==
    ASSUME TypeOK, NEW r \in Runs, runs[r].pc \in {"call", "failed"},
           NEW ok \in BOOLEAN, Publish(r)
    PROVE  /\ settled' \in Ages
           /\ waiter' \in [on : Runs \cup {None}, met : BOOLEAN] \cup {None}
<1>1. runs[r] \in RunRecords
  BY DEF TypeOK, NoRun
<1>2. runs[r].age \in Ages /\ runs[r].covers \in BOOLEAN
  BY <1>1 DEF RunRecords
<1>3. settled' \in Ages
  BY <1>2 DEF Publish, TypeOK
<1>4. CASE waiter = None
  BY <1>3, <1>4 DEF Publish
<1>5. CASE waiter # None
  <2>1. waiter \in [on : Runs \cup {None}, met : BOOLEAN]
    BY <1>5 DEF TypeOK
  <2>2. waiter' = [waiter EXCEPT !.met = waiter.met \/ runs[r].covers]
    BY <1>5 DEF Publish
  <2>3. (waiter.met \/ runs[r].covers) \in BOOLEAN
    OBVIOUS
  <2> QED
    BY <1>3, <2>1, <2>2, <2>3
<1> QED
  BY <1>4, <1>5

(* The end of a pass: r is not in the rest of the queue. *)
LEMMA EndPassType ==
    ASSUME TypeOK, NEW r \in Runs, runs[r].pc \in {"call", "failed"},
           NEW left, NEW gone, Queues(left, gone), gone[r].pc # "call",
           \A s \in Runs \ {r} : gone[s] = runs[s],
           EndPass(r, left)
    PROVE  /\ runs' \in RunTable
           /\ Queues(engine', runs')
           /\ rebuilding' \in BOOLEAN /\ queued' \in BOOLEAN
           /\ building' \in BOOLEAN
<1>1. runs \in RunTable /\ runs[r] \in RunRecords
  BY DEF TypeOK, RunTable, NoRun
<1>2. /\ gone[r].pc # "call"
      /\ \A s \in Runs \ {r} : gone[s] = runs[s]
  OBVIOUS
<1>3. CASE queued
  <2>1. PICK sent \in BOOLEAN :
           /\ runs' = [runs EXCEPT ![r] = Run("rebuild", sent)]
           /\ engine' = IF sent THEN Append(left, r) ELSE left
    BY <1>3 DEF EndPass
  <2>2. /\ Run("rebuild", sent) \in RunRecords
        /\ Run("rebuild", sent).pc = "call" <=> sent
    BY RunFacts DEF Kinds
  <2>3. /\ runs' \in RunTable
        /\ runs'[r] = Run("rebuild", sent)
        /\ \A s \in Runs \ {r} : runs'[s] = gone[s]
    BY <1>1, <1>2, <2>1, <2>2 DEF RunTable
  <2>4. \A s \in Runs \ {r} : (runs'[s].pc = "call") <=> (gone[s].pc = "call")
    BY <2>3
  <2>5. Queues(engine', runs')
    <3>1. CASE sent
      <4>1. runs'[r].pc = "call"
        BY <2>2, <2>3, <3>1
      <4>2. Queues(Append(left, r), runs')
        BY <1>2, <2>4, <4>1, QueueAppend
      <4> QED
        BY <2>1, <3>1, <4>2
    <3>2. CASE ~sent
      <4>1. runs'[r].pc # "call"
        BY <2>2, <2>3, <3>2
      <4>2. \A s \in Runs : (runs'[s].pc = "call") <=> (gone[s].pc = "call")
        BY <1>2, <2>4, <4>1
      <4>3. Queues(left, runs')
        BY <4>2, QueueSame
      <4> QED
        BY <2>1, <3>2, <4>3
    <3> QED
      BY <3>1, <3>2
  <2>6. queued' = FALSE /\ building' = TRUE /\ rebuilding' = rebuilding
    BY <1>3 DEF EndPass
  <2> QED
    BY <2>1, <2>3, <2>5, <2>6 DEF TypeOK
<1>4. CASE ~queued
  <2>1. /\ runs' = [runs EXCEPT ![r].pc = "teardown"]
        /\ building' = FALSE /\ rebuilding' = FALSE
        /\ engine' = left
        /\ queued' = queued
    BY <1>4 DEF EndPass
  <2>2. [runs[r] EXCEPT !.pc = "teardown"] \in RunRecords
    BY <1>1 DEF RunRecords
  <2>3. /\ runs' \in RunTable
        /\ runs'[r].pc = "teardown"
        /\ \A s \in Runs \ {r} : runs'[s] = gone[s]
    BY <1>1, <1>2, <2>1, <2>2 DEF RunTable, RunRecords
  <2>4. \A s \in Runs : (runs'[s].pc = "call") <=> (gone[s].pc = "call")
    BY <1>2, <2>3
  <2>5. Queues(left, runs')
    BY <2>4, QueueSame
  <2> QED
    BY <2>1, <2>3, <2>5 DEF TypeOK
<1> QED
  BY <1>3, <1>4

(* Whatever a run does with its answer, the types are kept. *)
LEMMA ContinueType ==
    ASSUME TypeOK, NEW r \in Runs, runs[r].pc \in {"call", "failed"},
           NEW ok \in BOOLEAN, NEW updates \in BOOLEAN,
           NEW left, NEW gone, Queues(left, gone), gone[r].pc # "call",
           \A s \in Runs \ {r} : gone[s] = runs[s],
           Continue(r, ok, updates, left),
           UNCHANGED <<connected, preview, astray, events>>
    PROVE  TypeOK'
<1>1. ASSUME runs' = [runs EXCEPT ![r] = NoRun]
      PROVE  /\ runs' \in RunTable
             /\ Queues(left, runs')
  <2>1. /\ runs' \in RunTable
        /\ runs'[r] = NoRun
        /\ \A s \in Runs \ {r} : runs'[s] = gone[s]
    BY <1>1 DEF TypeOK, RunTable
  <2>2. \A s \in Runs : (runs'[s].pc = "call") <=> (gone[s].pc = "call")
    BY <2>1, RunFacts
  <2> QED
    BY <2>1, <2>2, QueueSame
<1>2. CASE /\ runs[r].kind = "rebuild"
           /\ Publish(r)
           /\ IF ok THEN Valve(updates, streak) ELSE UNCHANGED refresh
           /\ EndPass(r, left)
           /\ UNCHANGED <<drain, timer, busy>>
  <2>1. /\ refreshes' \in 0 .. MaxRefreshes
        /\ streak' \in Nat
        /\ streak' + refreshes' < RefreshLimit + MaxRefreshes
    BY <1>2, ValveType DEF refresh, TypeOK
  <2>2. /\ settled' \in Ages
        /\ waiter' \in [on : Runs \cup {None}, met : BOOLEAN] \cup {None}
    BY <1>2, PublishType
  <2>3. /\ runs' \in RunTable
        /\ Queues(engine', runs')
        /\ rebuilding' \in BOOLEAN /\ queued' \in BOOLEAN
        /\ building' \in BOOLEAN
    BY <1>2, EndPassType
  <2> QED
    BY <1>2, <2>1, <2>2, <2>3 DEF TypeOK, Queues, RunTable
<1>3. CASE /\ runs[r].kind = "all"
           /\ Publish(r)
           /\ IF ok THEN Valve(updates, 0) ELSE UNCHANGED refresh
           /\ runs' = [runs EXCEPT ![r] = NoRun]
           /\ rebuilding' = FALSE
           /\ building' = FALSE
           /\ engine' = left
           /\ UNCHANGED <<queued, drain, timer, busy>>
  <2>1. /\ refreshes' \in 0 .. MaxRefreshes
        /\ streak' \in Nat
        /\ streak' + refreshes' < RefreshLimit + MaxRefreshes
    BY <1>3, ValveType DEF refresh, TypeOK
  <2>2. /\ settled' \in Ages
        /\ waiter' \in [on : Runs \cup {None}, met : BOOLEAN] \cup {None}
    BY <1>3, PublishType
  <2>3. /\ runs' \in RunTable
        /\ Queues(engine', runs')
        /\ rebuilding' = FALSE /\ queued' = queued /\ drain' = drain
        /\ building' = FALSE /\ timer' = timer /\ busy' = busy
    BY <1>1, <1>3
  <2> QED
    BY <2>1, <2>2, <2>3 DEF TypeOK, Queues, RunTable
<1>4. CASE /\ runs[r].kind = "op"
           /\ runs' = [runs EXCEPT ![r] = NoRun]
           /\ busy' = [active |-> FALSE, id |-> None]
           /\ engine' = left
           /\ UNCHANGED <<flags, timer, screen, refresh, waiter>>
  BY <1>1, <1>4 DEF TypeOK, Queues, RunTable, flags, screen, refresh
<1> QED
  BY <1>2, <1>3, <1>4 DEF Continue

(* What an answered or failed run leaves at the engine. *)
LEMMA RestOfQueue ==
    ASSUME TypeOK
    PROVE  /\ engine # <<>> =>
                /\ Head(engine) \in Runs
                /\ runs[Head(engine)].pc = "call"
                /\ \E gone : /\ Queues(Tail(engine), gone)
                             /\ gone[Head(engine)].pc # "call"
                             /\ \A s \in Runs \ {Head(engine)} : gone[s] = runs[s]
           /\ \A r \in Runs : runs[r].pc = "failed" =>
                \E gone : /\ Queues(engine, gone)
                          /\ gone[r].pc # "call"
                          /\ \A s \in Runs \ {r} : gone[s] = runs[s]
<1>1. Queues(engine, runs) /\ runs \in RunTable
  BY DEF TypeOK, Queues, RunTable
<1>2. ASSUME engine # <<>>
      PROVE  /\ Head(engine) \in Runs
             /\ runs[Head(engine)].pc = "call"
             /\ \E gone : /\ Queues(Tail(engine), gone)
                          /\ gone[Head(engine)].pc # "call"
                          /\ \A s \in Runs \ {Head(engine)} : gone[s] = runs[s]
  <2> DEFINE r    == Head(engine)
             gone == [s \in Runs |-> IF s = r THEN NoRun ELSE runs[s]]
  <2>1. /\ r \in Runs
        /\ runs[r].pc = "call"
        /\ \A rt : /\ rt[r].pc # "call"
                   /\ \A s \in Runs \ {r} :
                         (rt[s].pc = "call") <=> (runs[s].pc = "call")
                   => Queues(Tail(engine), rt)
    BY <1>1, <1>2, QueueTail
  <2>2. gone[r].pc # "call" /\ \A s \in Runs \ {r} : gone[s] = runs[s]
    BY <2>1, RunFacts
  <2> HIDE DEF gone
  <2>3. \A s \in Runs \ {r} : (gone[s].pc = "call") <=> (runs[s].pc = "call")
    BY <2>2
  <2>4. Queues(Tail(engine), gone)
    BY <2>1, <2>2, <2>3
  <2> QED
    BY <2>1, <2>2, <2>4
<1>3. ASSUME NEW r \in Runs, runs[r].pc = "failed"
      PROVE  \E gone : /\ Queues(engine, gone)
                       /\ gone[r].pc # "call"
                       /\ \A s \in Runs \ {r} : gone[s] = runs[s]
  BY <1>1, <1>3
<1> QED
  BY <1>2, <1>3

(* Every action keeps the types. *)
LEMMA TypeStep == TypeOK /\ [Next]_vars => TypeOK'
<1> SUFFICES ASSUME TypeOK, [Next]_vars PROVE TypeOK'
  OBVIOUS
<1>0. Queues(engine, runs) /\ runs \in RunTable
  BY DEF TypeOK, Queues, RunTable
<1>1. CASE Edit
  <2>1. PICK immediate \in BOOLEAN : Change(immediate)
    BY <1>1 DEF Edit
  <2>2. /\ streak' \in {0, streak} /\ events > 0 /\ events' = events - 1
        /\ UNCHANGED <<connected, refreshes, waiter>>
    BY <1>1 DEF Edit, Event
  <2>3. /\ streak' \in Nat /\ streak' + refreshes' < RefreshLimit + MaxRefreshes
        /\ refreshes' \in 0 .. MaxRefreshes
        /\ events' \in 0 .. MaxEvents
    <3>1. /\ streak \in Nat /\ streak + refreshes < RefreshLimit + MaxRefreshes
          /\ refreshes \in 0 .. MaxRefreshes /\ events \in 0 .. MaxEvents
      BY DEF TypeOK
    <3>2. MaxEvents \in Nat /\ MaxRefreshes \in Nat /\ RefreshLimit \in Nat \ {0}
      BY PipelineAssumption
    <3>3. refreshes' = refreshes
      BY <2>2
    <3>4. events' \in 0 .. MaxEvents
      BY <2>2, <3>1, <3>2
    <3>5. CASE streak' = streak
      BY <3>1, <3>3, <3>4, <3>5
    <3>6. CASE streak' = 0
      BY <3>1, <3>2, <3>3, <3>4, <3>6
    <3> QED
      BY <2>2, <3>5, <3>6
  <2>4. preview' \in BOOLEAN
    BY <1>1 DEF Edit, TypeOK
  <2> QED
    BY <2>1, <2>2, <2>3, <2>4, ChangeType DEF TypeOK, Queues, RunTable
<1>2. CASE Preview
  <2>1. Change(TRUE)
    BY <1>2 DEF Preview
  <2>2. /\ events > 0 /\ events' = events - 1 /\ preview' \in BOOLEAN
        /\ UNCHANGED <<connected, refreshes, streak, waiter>>
    BY <1>2 DEF Preview, Event, refresh
  <2>3. events' \in 0 .. MaxEvents
    BY <2>2, PipelineAssumption DEF TypeOK
  <2> QED
    BY <2>1, <2>2, <2>3, ChangeType DEF TypeOK, Queues, RunTable
<1>3. CASE Replace
  <2>1. RebuildNow(AgedRuns("alien"), FALSE, FALSE)
    BY <1>3 DEF Replace
  <2>2. /\ AgedRuns("alien") \in RunTable
        /\ \A s \in Runs : AgedRuns("alien")[s].pc = runs[s].pc
    BY <1>0, AgedType DEF Ages
  <2>3. /\ runs' \in RunTable
        /\ Queues(engine', runs')
        /\ rebuilding' \in BOOLEAN /\ queued' \in BOOLEAN
        /\ drain' \in Runs \cup {None}
        /\ building' \in BOOLEAN
        /\ busy' \in [active : BOOLEAN, id : Runs \cup {None}]
        /\ astray' \in BOOLEAN
    BY <2>1, <2>2, RebuildNowType
  <2>4. /\ settled' = "alien" /\ timer' = FALSE
        /\ streak' = 0 /\ events > 0 /\ events' = events - 1
        /\ UNCHANGED <<connected, preview, refreshes, waiter>>
    BY <1>3 DEF Replace, Event
  <2>5. /\ streak' \in Nat /\ streak' + refreshes' < RefreshLimit + MaxRefreshes
        /\ events' \in 0 .. MaxEvents
    BY <2>4, PipelineAssumption DEF TypeOK
  <2> QED
    BY <2>3, <2>4, <2>5 DEF TypeOK, Queues, RunTable, Ages
<1>4. CASE TimerFires
  <2>0. runs \in RunTable /\ building \in BOOLEAN
    BY <1>0 DEF TypeOK
  <2>1. RebuildNow(runs, building, FALSE) /\ timer' = FALSE
    BY <1>4 DEF TimerFires
  <2>2. /\ runs' \in RunTable
        /\ Queues(engine', runs')
        /\ rebuilding' \in BOOLEAN /\ queued' \in BOOLEAN
        /\ drain' \in Runs \cup {None}
        /\ building' \in BOOLEAN
        /\ busy' \in [active : BOOLEAN, id : Runs \cup {None}]
        /\ astray' \in BOOLEAN
    BY <2>0, <2>1, RebuildNowType
  <2> QED
    BY <1>4, <2>1, <2>2 DEF TypeOK, Queues, RunTable, TimerFires, refresh
<1>5. CASE AwaitRebuild
  <2> DEFINE rs == [r \in Runs |->
                      IF runs[r] = NoRun THEN NoRun
                      ELSE [runs[r] EXCEPT !.covers = runs[r].age = "now"]]
  <2>1. RebuildNow(rs, building, FALSE)
    BY <1>5 DEF AwaitRebuild
  <2>2. rs \in RunTable /\ \A s \in Runs : rs[s].pc = runs[s].pc
    <3> SUFFICES ASSUME NEW s \in Runs
                 PROVE  rs[s] \in RunRecords \cup {NoRun} /\ rs[s].pc = runs[s].pc
      BY DEF RunTable
    <3>1. runs[s] \in RunRecords \cup {NoRun}
      BY <1>0 DEF RunTable
    <3>2. (runs[s].age = "now") \in BOOLEAN
      OBVIOUS
    <3> QED
      BY <3>1, <3>2 DEF RunRecords
  <2> HIDE DEF rs
  <2>3. /\ runs' \in RunTable
        /\ Queues(engine', runs')
        /\ rebuilding' \in BOOLEAN /\ queued' \in BOOLEAN
        /\ drain' \in Runs \cup {None}
        /\ building' \in BOOLEAN
        /\ busy' \in [active : BOOLEAN, id : Runs \cup {None}]
        /\ astray' \in BOOLEAN
    BY <2>1, <2>2, RebuildNowType DEF TypeOK
  <2>4. /\ waiter' = [on |-> drain', met |-> settled = "now"]
        /\ events > 0 /\ events' = events - 1
        /\ UNCHANGED <<connected, timer, settled, preview, refreshes, streak>>
    BY <1>5 DEF AwaitRebuild, Awaited, Event, refresh
  <2>5. events' \in 0 .. MaxEvents
    BY <2>4, PipelineAssumption DEF TypeOK
  <2>6. waiter' \in [on : Runs \cup {None}, met : BOOLEAN]
    BY <2>3, <2>4
  <2> QED
    BY <2>3, <2>4, <2>5, <2>6 DEF TypeOK, Queues, RunTable
<1>6. CASE ComputeAll
  <2>1. /\ events > 0 /\ events' = events - 1
        /\ UNCHANGED <<connected, drain, timer, settled, preview,
                       refreshes, streak, busy, waiter>>
    BY <1>6 DEF ComputeAll, Event, refresh
  <2>2. events' \in 0 .. MaxEvents
    BY <2>1, PipelineAssumption DEF TypeOK
  <2>3. CASE rebuilding
    <3>1. /\ queued' = TRUE
          /\ UNCHANGED <<rebuilding, runs, engine, building, astray>>
      BY <1>6, <2>3 DEF ComputeAll
    <3> QED
      BY <2>1, <2>2, <3>1 DEF TypeOK
  <2>4. CASE ~rebuilding
    <3>1. PICK r \in Free, sent \in BOOLEAN : Request(runs, r, "all", sent, FALSE)
      BY <1>6, <2>4 DEF ComputeAll
    <3>2. r \in Runs /\ runs[r].pc # "call"
      BY RunFacts DEF Free
    <3>0. "all" \in Kinds /\ FALSE \in BOOLEAN
      BY DEF TypeOK, Kinds
    <3>3. /\ runs' \in RunTable
          /\ Queues(engine', runs')
      BY <1>0, <3>0, <3>1, <3>2, RequestType
    <3>4. /\ rebuilding' = TRUE /\ building' = TRUE /\ queued' = queued
          /\ astray' \in BOOLEAN
      BY <1>6, <2>4 DEF ComputeAll, Alone
    <3> QED
      BY <2>1, <2>2, <3>3, <3>4 DEF TypeOK, Queues, RunTable
  <2> QED
    BY <2>3, <2>4
<1>7. CASE HeavyOp
  <2>1. PICK r \in Free, sent \in BOOLEAN :
           /\ Request(runs, r, "op", sent, FALSE)
           /\ busy' = [active |-> TRUE, id |-> IF sent THEN r ELSE None]
    BY <1>7 DEF HeavyOp
  <2>2. r \in Runs /\ runs[r].pc # "call"
    BY RunFacts DEF Free
  <2>0. "op" \in Kinds /\ FALSE \in BOOLEAN
    BY DEF TypeOK, Kinds
  <2>3. /\ runs' \in RunTable
        /\ Queues(engine', runs')
    BY <1>0, <2>0, <2>1, <2>2, RequestType
  <2>4. /\ events > 0 /\ events' = events - 1
        /\ UNCHANGED <<connected, flags, timer, screen, preview, refresh, waiter, astray>>
    BY <1>7 DEF HeavyOp, Event
  <2>5. events' \in 0 .. MaxEvents
    BY <2>4, PipelineAssumption DEF TypeOK
  <2>6. busy' \in [active : BOOLEAN, id : Runs \cup {None}]
    BY <2>1, <2>2
  <2> QED
    BY <2>3, <2>4, <2>5, <2>6
    DEF TypeOK, Queues, RunTable, flags, screen, refresh
<1>8. CASE Drop
  <2>1. /\ connected' = FALSE /\ engine' = <<>>
        /\ events > 0 /\ events' = events - 1
        /\ runs' = [r \in Runs |-> IF runs[r].pc = "call"
                                   THEN [runs[r] EXCEPT !.pc = "failed"]
                                   ELSE runs[r]]
        /\ UNCHANGED <<flags, timer, screen, preview, refresh, busy, waiter,
                       astray>>
    BY <1>8 DEF Drop, Event
  <2>2. runs' \in RunTable /\ \A r \in Runs : runs'[r].pc # "call"
    <3> SUFFICES ASSUME NEW r \in Runs
                 PROVE  /\ runs'[r] \in RunRecords \cup {NoRun}
                        /\ runs'[r].pc # "call"
      BY <2>1 DEF RunTable
    <3>1. runs[r] \in RunRecords \cup {NoRun}
      BY <1>0 DEF RunTable
    <3>2. CASE runs[r].pc = "call"
      <4>1. runs[r] \in RunRecords /\ runs'[r] = [runs[r] EXCEPT !.pc = "failed"]
        BY <2>1, <3>1, <3>2, RunFacts
      <4> QED
        BY <4>1 DEF RunRecords
    <3>3. CASE runs[r].pc # "call"
      BY <2>1, <3>1, <3>3
    <3> QED
      BY <3>2, <3>3
  <2>3. events' \in 0 .. MaxEvents
    BY <2>1, PipelineAssumption DEF TypeOK
  <2>4. /\ engine' \in Seq(Runs)
        /\ {engine'[i] : i \in DOMAIN engine'} = {r \in Runs : runs'[r].pc = "call"}
        /\ \A i, j \in DOMAIN engine' : engine'[i] = engine'[j] => i = j
    BY <2>1, <2>2
  <2>5. Queues(engine', runs')
    BY <2>4 DEF Queues
  <2>6. /\ connected' \in BOOLEAN
        /\ UNCHANGED <<flags, timer, screen, preview, refresh, busy, waiter,
                       astray>>
    BY <2>1
  <2>7. runs' \in RunTable
    BY <2>2
  <2> QED
    BY <2>3, <2>5, <2>6, <2>7 DEF TypeOK, Queues, RunTable, flags, screen, refresh
<1>9. CASE Connect
  <2>0. building \in BOOLEAN /\ TRUE \in BOOLEAN
    BY DEF TypeOK
  <2>1. RebuildNow(runs, building, TRUE)
    BY <1>9 DEF Connect
  <2>2. /\ runs' \in RunTable
        /\ Queues(engine', runs')
        /\ rebuilding' \in BOOLEAN /\ queued' \in BOOLEAN
        /\ drain' \in Runs \cup {None}
        /\ building' \in BOOLEAN
        /\ busy' \in [active : BOOLEAN, id : Runs \cup {None}]
        /\ astray' \in BOOLEAN
    BY <1>0, <2>1, <2>0, RebuildNowType
  <2> QED
    BY <1>9, <2>2 DEF TypeOK, Queues, RunTable, Connect, refresh
<1>10. CASE Answer
  <2>1. /\ engine # <<>>
        /\ UNCHANGED <<connected, preview, astray, events>>
    BY <1>10 DEF Answer
  <2>2. PICK ok \in BOOLEAN, updates \in BOOLEAN :
           Continue(Head(engine), ok, updates, Tail(engine))
    BY <1>10 DEF Answer
  <2>3. Head(engine) \in Runs /\ runs[Head(engine)].pc = "call"
    BY <2>1, RestOfQueue
  <2>4. PICK gone : /\ Queues(Tail(engine), gone)
                    /\ gone[Head(engine)].pc # "call"
                    /\ \A s \in Runs \ {Head(engine)} : gone[s] = runs[s]
    BY <2>1, RestOfQueue
  <2> QED
    BY <2>1, <2>2, <2>3, <2>4, ContinueType
<1>11. CASE Resync
  <2> DEFINE r == Head(engine)
             rs == [runs EXCEPT ![r].resent = TRUE]
  <2>1. /\ engine # <<>>
        /\ runs' = rs
        /\ engine' = Append(Tail(engine), r)
        /\ UNCHANGED <<connected, flags, timer, screen, preview, refresh, busy,
                       waiter, astray, events>>
    BY <1>11 DEF Resync
  <2>2. r \in Runs /\ runs[r].pc = "call"
    BY <2>1, RestOfQueue
  <2>3. runs[r] \in RunRecords
    BY <1>0, <2>2, RunFacts DEF RunTable
  <2>4. /\ runs' \in RunTable
        /\ runs'[r].pc = "call"
        /\ \A s \in Runs \ {r} : runs'[s] = runs[s]
    BY <1>0, <2>1, <2>2, <2>3 DEF RunTable, RunRecords
  <2>5. PICK gone : /\ Queues(Tail(engine), gone)
                    /\ gone[r].pc # "call"
                    /\ \A s \in Runs \ {r} : gone[s] = runs[s]
    BY <2>1, RestOfQueue
  <2> HIDE DEF r
  <2>6. \A s \in Runs \ {r} : (runs'[s].pc = "call") <=> (gone[s].pc = "call")
    BY <2>4, <2>5
  <2>7. Queues(Append(Tail(engine), r), runs')
    BY <2>2, <2>4, <2>5, <2>6, QueueAppend
  <2> QED
    BY <2>1, <2>2, <2>4, <2>7
    DEF TypeOK, Queues, RunTable, flags, screen, refresh
<1>12. CASE Failed
  <2>1. PICK r \in Runs : runs[r].pc = "failed" /\ Continue(r, FALSE, FALSE, engine)
    BY <1>12 DEF Failed
  <2>2. UNCHANGED <<connected, preview, astray, events>>
    BY <1>12 DEF Failed
  <2>3. PICK gone : /\ Queues(engine, gone)
                    /\ gone[r].pc # "call"
                    /\ \A s \in Runs \ {r} : gone[s] = runs[s]
    BY <2>1, RestOfQueue
  <2> QED
    BY <2>1, <2>2, <2>3, ContinueType
<1>13. CASE Teardown
  <2>1. PICK r \in Runs : /\ runs[r].pc = "teardown"
                          /\ runs' = [runs EXCEPT ![r].pc = "leaving"]
    BY <1>13 DEF Teardown
  <2>2. /\ busy' = [active |-> FALSE, id |-> None]
        /\ UNCHANGED <<connected, engine, flags, timer, screen, preview,
                       refresh, waiter, astray, events>>
    BY <1>13 DEF Teardown
  <2>3. runs[r] \in RunRecords
    BY <1>0, <2>1, RunFacts DEF RunTable
  <2>4. /\ runs' \in RunTable
        /\ \A s \in Runs : (runs'[s].pc = "call") <=> (runs[s].pc = "call")
    BY <1>0, <2>1, <2>3 DEF RunTable, RunRecords
  <2>5. Queues(engine', runs')
    BY <1>0, <2>2, <2>4, QueueSame
  <2> QED
    BY <2>2, <2>4, <2>5 DEF TypeOK, Queues, RunTable, flags, screen, refresh
<1>14. CASE Leave
  <2>1. PICK r \in Runs :
           /\ runs[r].pc = "leaving"
           /\ runs' = [runs EXCEPT ![r] = NoRun]
           /\ waiter' = IF waiter # None /\ waiter.on = r THEN None ELSE waiter
    BY <1>14 DEF Leave
  <2>2. /\ rebuilding' = FALSE /\ drain' = None
        /\ UNCHANGED <<connected, engine, queued, timer, screen, preview,
                       refresh, busy, astray, events>>
    BY <1>14 DEF Leave
  <2>3. /\ runs' \in RunTable
        /\ \A s \in Runs : (runs'[s].pc = "call") <=> (runs[s].pc = "call")
    BY <1>0, <2>1, RunFacts DEF RunTable
  <2>4. Queues(engine', runs')
    BY <1>0, <2>2, <2>3, QueueSame
  <2>6. waiter' \in [on : Runs \cup {None}, met : BOOLEAN] \cup {None}
    BY <2>1 DEF TypeOK
  <2> QED
    BY <2>2, <2>3, <2>4, <2>6
    DEF TypeOK, Queues, RunTable, screen, refresh
<1>15. CASE NothingToAwait
  BY <1>15 DEF NothingToAwait, TypeOK, flags, screen, refresh
<1>16. CASE Refresh
  <2>1. /\ refreshes > 0 /\ refreshes' = refreshes - 1
        /\ UNCHANGED <<connected, preview, waiter, events>>
    BY <1>16 DEF Refresh
  <2>2. refreshes' \in 0 .. MaxRefreshes
    BY <2>1, PipelineAssumption DEF TypeOK
  <2>3. CASE UNCHANGED <<runs, engine, flags, timer, screen, streak, busy, astray>>
    <3>1. streak' + refreshes' < RefreshLimit + MaxRefreshes
      BY <2>1, <2>3, PipelineAssumption DEF TypeOK
    <3> QED
      BY <2>1, <2>2, <2>3, <3>1 DEF TypeOK, flags, screen
  <2>4. CASE CountRefresh /\ Change(TRUE)
    <3>1. /\ streak' \in Nat
          /\ streak' + refreshes' < RefreshLimit + MaxRefreshes
      BY <2>1, <2>4, PipelineAssumption DEF TypeOK, CountRefresh
    <3> QED
      BY <2>1, <2>2, <2>4, <3>1, ChangeType DEF TypeOK, Queues, RunTable
  <2> QED
    BY <1>16, <2>3, <2>4 DEF Refresh
<1>17. CASE UNCHANGED vars
  BY <1>17 DEF vars, flags, screen, refresh, TypeOK
<1> QED
  BY <1>1, <1>2, <1>3, <1>4, <1>5, <1>6, <1>7, <1>8, <1>9, <1>10, <1>11,
     <1>12, <1>13, <1>14, <1>15, <1>16, <1>17 DEF Next

(* The initial state is type correct. *)
LEMMA TypeInit == Init => TypeOK
<1> SUFFICES ASSUME Init PROVE TypeOK
  OBVIOUS
<1>1. runs \in RunTable /\ \A r \in Runs : runs[r].pc # "call"
  BY RunFacts DEF Init, RunTable
<1>2. /\ engine \in Seq(Runs)
      /\ {engine[i] : i \in DOMAIN engine} = {r \in Runs : runs[r].pc = "call"}
      /\ \A i, j \in DOMAIN engine : engine[i] = engine[j] => i = j
  BY <1>1 DEF Init
<1>3. /\ refreshes \in 0 .. MaxRefreshes
      /\ streak \in Nat /\ streak + refreshes < RefreshLimit + MaxRefreshes
      /\ events \in 0 .. MaxEvents
  BY PipelineAssumption DEF Init
<1> QED
  BY <1>1, <1>2, <1>3 DEF Init, TypeOK, RunTable, Ages

(* Every variable keeps its type, the engine's queue holds exactly the     *)
(* calls in progress, once each, and the valve bounds the refreshes.       *)
THEOREM PipelineTypeCorrect == Spec => []TypeOK
BY TypeInit, TypeStep, PTL DEF Spec
-----------------------------------------------------------------------------
(* The inductive invariant.                                                *)

Begun == {"call", "failed"}

(* Which runs build, and which of them loop, is a matter of their kind and *)
(* place alone.                                                            *)
LEMMA SamePlaces ==
    ASSUME \A s \in Runs : runs'[s].kind = runs[s].kind /\ runs'[s].pc = runs[s].pc
    PROVE  Builds' = Builds /\ Drains' = Drains
<1>1. Builds' = Builds
  BY DEF Builds
<1> QED
  BY <1>1 DEF Builds, Drains

(* The slot of a run that begins or ends, and all the others. *)
LEMMA OneSlot ==
    ASSUME NEW rs \in RunTable, NEW r \in Runs, NEW run,
           runs' = [rs EXCEPT ![r] = run]
    PROVE  runs'[r] = run /\ \A s \in Runs \ {r} : runs'[s] = rs[s]
BY DEF RunTable

(* A run that is the only one to build. *)
LEMMA OnlyBuild ==
    ASSUME Builds = {}, NEW r \in Runs, runs'[r].pc \in Begun,
           runs'[r].kind \in {"rebuild", "all"},
           \A s \in Runs \ {r} : runs'[s].kind = runs[s].kind /\ runs'[s].pc = runs[s].pc
    PROVE  /\ Builds' = {r}
           /\ Drains' = IF runs'[r].kind = "rebuild" THEN {r} ELSE {}
<1>1. r \in Builds'
  BY DEF Builds, Begun
<1>2. \A s \in Runs \ {r} : s \notin Builds'
  BY DEF Builds
<1>3. Builds' \subseteq Runs
  BY DEF Builds
<1>4. Builds' = {r}
  BY <1>1, <1>2, <1>3
<1> QED
  BY <1>4 DEF Drains

(* Somebody who waits while nothing builds has been shown what they wait for. *)
LEMMA ServedAlready ==
    ASSUME WaiterIsServed, Builds = {}
    PROVE  waiter # None => waiter.met
BY DEF WaiterIsServed, Drains

(* The parts of the invariant that hold whatever overlaps. *)
Flags == FlagHasBuild /\ BusyHasOwner

(* The parts that hold as long as nothing does. *)
Sound == OneBuild /\ BuildIsDue /\ WaiterIsServed

(* rebuildNow(): the document as it is now is asked for, of the drain that *)
(* is there or of a new one.                                               *)
LEMMA RebuildNowInv ==
    ASSUME IInv, NEW rs \in RunTable,
           \A s \in Runs : rs[s].kind = runs[s].kind /\ rs[s].pc = runs[s].pc,
           NEW show \in BOOLEAN, NEW opening, RebuildNow(rs, show, opening)
    PROVE  /\ Flags'
           /\ ~astray' => /\ OneBuild' /\ BuildIsDue'
                          /\ waiter' = waiter => WaiterIsServed'
                          /\ drain' \in Drains'
                          /\ queued' \/ runs'[drain'].covers
<1>0. TypeOK /\ FlagHasBuild /\ BusyHasOwner /\ (astray \/ Sound)
  BY DEF IInv, Inv, Sound
<1>1. CASE rebuilding
  <2>1. /\ queued' = TRUE /\ building' = show /\ runs' = rs
        /\ rebuilding' = rebuilding /\ drain' = drain /\ busy' = busy
        /\ astray' = (astray \/ Drains = {})
    BY <1>1 DEF RebuildNow, AskAgain
  <2>2. Builds' = Builds /\ Drains' = Drains
    BY <2>1, SamePlaces
  <2>3. FlagHasBuild'
    BY <1>0, <1>1, <2>2 DEF FlagHasBuild
  <2>4. BusyHasOwner'
    BY <1>0, <2>1 DEF BusyHasOwner
  <2>5. ASSUME ~astray'
        PROVE  /\ OneBuild' /\ BuildIsDue'
               /\ waiter' = waiter => WaiterIsServed'
               /\ drain' \in Drains'
               /\ queued' \/ runs'[drain'].covers
    <3>1. Sound /\ Drains # {}
      BY <1>0, <2>1, <2>5
    <3>2. drain \in Drains
      BY <1>1, <3>1 DEF Sound, OneBuild
    <3>3. OneBuild'
      BY <2>1, <2>2, <3>1 DEF Sound, OneBuild
    <3>4. BuildIsDue'
      BY <2>1, <2>2, <3>1 DEF BuildIsDue
    <3>5. waiter' = waiter => WaiterIsServed'
      BY <2>1, <2>2, <3>1 DEF Sound, WaiterIsServed
    <3> QED
      BY <2>1, <2>2, <3>2, <3>3, <3>4, <3>5
  <2> QED
    BY <2>3, <2>4, <2>5 DEF Flags
<1>2. CASE ~rebuilding
  <2>1. PICK r \in Free, sent \in BOOLEAN :
           runs' = [rs EXCEPT ![r] = Run("rebuild", sent)] /\ drain' = r
    BY <1>2 DEF RebuildNow, Request
  <2>2. /\ queued' = FALSE
        /\ astray' = (Builds # {} \/ (astray /\ waiter # None))
    BY <1>2 DEF RebuildNow, Alone
  <2>3. r \in Runs /\ runs'[r] = Run("rebuild", sent)
                   /\ \A s \in Runs \ {r} : runs'[s] = rs[s]
    <3> DEFINE run == Run("rebuild", sent)
    <3>1. r \in Runs /\ runs' = [rs EXCEPT ![r] = run]
      BY <2>1 DEF Free
    <3> HIDE DEF run
    <3>2. runs'[r] = run /\ \A s \in Runs \ {r} : runs'[s] = rs[s]
      BY <3>1, OneSlot
    <3> QED
      BY <3>1, <3>2 DEF run
  <2>4. /\ runs'[r].kind = "rebuild" /\ runs'[r].pc \in Begun
        /\ runs'[r].age = "now" /\ runs'[r].covers = TRUE
    BY <2>3 DEF Run, Begun
  <2>5. FlagHasBuild'
    BY <2>3, <2>4 DEF FlagHasBuild, Builds, Begun
  <2>6. BusyHasOwner'
    BY <2>3, <2>4 DEF BusyHasOwner, Begun
  <2>7. ASSUME ~astray'
        PROVE  /\ OneBuild' /\ BuildIsDue'
               /\ waiter' = waiter => WaiterIsServed'
               /\ drain' \in Drains' /\ runs'[drain'].covers
    <3>1. Builds = {} /\ (waiter # None => Sound)
      BY <1>0, <2>2, <2>7
    <3>2. Builds' = {r} /\ Drains' = {r}
      BY <2>3, <2>4, <3>1, OnlyBuild
    <3>3. OneBuild'
      BY <2>1, <3>2 DEF OneBuild
    <3>4. BuildIsDue'
      BY <2>4, <3>2 DEF BuildIsDue
    <3>5. waiter # None => waiter.met
      BY <3>1, ServedAlready DEF Sound
    <3>6. waiter' = waiter => WaiterIsServed'
      BY <3>5 DEF WaiterIsServed
    <3> QED
      BY <2>1, <2>4, <3>2, <3>3, <3>4, <3>6
  <2> QED
    BY <2>5, <2>6, <2>7 DEF Flags
<1> QED
  BY <1>1, <1>2

(* Runs that stay in their places, and flags that stay as they are, keep   *)
(* the invariant.                                                          *)
LEMMA SameInv ==
    ASSUME IInv, UNCHANGED <<connected, rebuilding, drain, building, settled, astray>>,
           queued => queued', timer => timer',
           waiter' = waiter \/ waiter' = None,
           Builds' = Builds, Drains' = Drains,
           \A s \in Builds : /\ runs'[s].age = runs[s].age
                             /\ runs'[s].covers = runs[s].covers,
           BusyHasOwner'
    PROVE  Inv'
<1>0. TypeOK /\ FlagHasBuild /\ (astray \/ Sound)
  BY DEF IInv, Inv, Sound
<1>1. FlagHasBuild'
  BY <1>0 DEF FlagHasBuild
<1>2. ASSUME ~astray
      PROVE  OneBuild' /\ BuildIsDue' /\ WaiterIsServed'
  <2>0. OneBuild /\ BuildIsDue /\ WaiterIsServed
    BY <1>0, <1>2 DEF Sound
  <2>1. OneBuild'
    BY <2>0 DEF OneBuild
  <2>2. BuildIsDue'
    <3>1. (\E s \in Builds : runs[s].age = "now")
             => (\E s \in Builds : runs[s].age = "now")'
      OBVIOUS
    <3> QED
      BY <2>0, <3>1 DEF BuildIsDue
  <2>3. WaiterIsServed'
    BY <2>0 DEF WaiterIsServed, Drains
  <2> QED
    BY <2>1, <2>2, <2>3
<1> QED
  BY <1>1, <1>2 DEF Inv

(* A change of the document: built at once, or when the timer fires. *)
LEMMA ChangeInv ==
    ASSUME IInv, NEW immediate \in BOOLEAN, Change(immediate), waiter' = waiter
    PROVE  Inv'
<1>0. TypeOK /\ FlagHasBuild /\ BusyHasOwner /\ (astray \/ Sound)
  BY DEF IInv, Inv, Sound
<1>1. /\ AgedRuns("old") \in RunTable
      /\ \A s \in Runs : /\ AgedRuns("old")[s].pc = runs[s].pc
                         /\ AgedRuns("old")[s].kind = runs[s].kind
                         /\ AgedRuns("old")[s].covers = runs[s].covers
  BY <1>0, AgedType DEF TypeOK, RunTable, Ages
<1>2. CASE immediate
  <2>1. RebuildNow(AgedRuns("old"), building, FALSE)
    BY <1>2 DEF Change
  <2>2. building \in BOOLEAN
    BY <1>0 DEF TypeOK
  <2> QED
    BY <1>1, <2>1, <2>2, RebuildNowInv DEF Inv, Flags
<1>3. CASE ~immediate
  <2>1. /\ timer' = TRUE /\ runs' = AgedRuns("old")
        /\ rebuilding' = rebuilding /\ queued' = queued /\ drain' = drain
        /\ busy' = busy /\ building' = building /\ astray' = astray
    BY <1>3 DEF Change, flags
  <2>2. \A s \in Runs : /\ runs'[s].pc = runs[s].pc
                        /\ runs'[s].kind = runs[s].kind
                        /\ runs'[s].covers = runs[s].covers
    BY <1>1, <2>1
  <2>3. Builds' = Builds /\ Drains' = Drains
    BY <2>2, SamePlaces
  <2>4. FlagHasBuild'
    BY <1>0, <2>1, <2>3 DEF FlagHasBuild
  <2>5. BusyHasOwner'
    BY <1>0, <2>1, <2>2 DEF BusyHasOwner
  <2>6. ASSUME ~astray
        PROVE  OneBuild' /\ BuildIsDue' /\ WaiterIsServed'
    <3>1. OneBuild /\ WaiterIsServed /\ Drains \subseteq Runs
      BY <1>0, <2>6 DEF Sound, Drains, Builds
    <3>2. OneBuild'
      BY <2>1, <2>3, <3>1 DEF OneBuild
    <3>3. BuildIsDue'
      BY <2>1 DEF BuildIsDue
    <3>4. WaiterIsServed'
      BY <2>1, <2>2, <2>3, <3>1 DEF WaiterIsServed
    <3> QED
      BY <3>2, <3>3, <3>4
  <2> QED
    BY <2>1, <2>4, <2>5, <2>6 DEF Inv
<1> QED
  BY <1>2, <1>3

(* The published build is what the waiter has been shown, if it covers what *)
(* they asked for.                                                         *)
LEMMA PublishMeets ==
    ASSUME TypeOK, NEW r \in Runs, runs[r] \in RunRecords,
           Publish(r), waiter' # None
    PROVE  /\ waiter # None
           /\ waiter'.on = waiter.on
           /\ waiter.met => waiter'.met
           /\ runs[r].covers => waiter'.met
<1>1. waiter # None /\ waiter' = [waiter EXCEPT !.met = waiter.met \/ runs[r].covers]
  BY DEF Publish
<1>2. waiter \in [on : Runs \cup {None}, met : BOOLEAN]
  BY <1>1 DEF TypeOK
<1>3. waiter'.on = waiter.on /\ waiter'.met = (waiter.met \/ runs[r].covers)
  BY <1>1, <1>2
<1> QED
  BY <1>1, <1>3

(* The last build ends with nothing asked for: it was of the document as   *)
(* it is now, and who waited for it has been shown it.                     *)
LEMMA LastBuildEnds ==
    ASSUME TypeOK, Sound, NEW r \in Builds, runs[r] \in RunRecords,
           Publish(r), ~rebuilding', Builds' = {}, ~queued \/ Drains = {},
           timer' = timer, connected' = connected
    PROVE  OneBuild' /\ BuildIsDue' /\ WaiterIsServed'
<1>1. r \in Runs /\ Builds = {r} /\ Drains \subseteq {r} /\ settled' = runs[r].age
  BY DEF Sound, OneBuild, Builds, Drains, Publish
<1>2. OneBuild'
  BY DEF OneBuild
<1>3. BuildIsDue'
  BY <1>1 DEF Sound, BuildIsDue
<1>4. WaiterIsServed'
  <2> SUFFICES ASSUME waiter' # None
               PROVE  waiter'.met
    BY DEF WaiterIsServed
  <2>1. /\ waiter # None
        /\ waiter.met => waiter'.met
        /\ runs[r].covers => waiter'.met
    BY <1>1, PublishMeets
  <2>2. waiter.met \/ (waiter.on = r /\ runs[r].covers)
    BY <1>1, <2>1 DEF Sound, WaiterIsServed
  <2> QED
    BY <2>1, <2>2
<1> QED
  BY <1>2, <1>3, <1>4

(* What a drain does with its answer: it makes the pass that was asked for *)
(* or, having built the document as it is now, releases the flag.          *)
LEMMA PassInv ==
    ASSUME IInv, NEW r \in Runs, runs[r].pc \in Begun, runs[r].kind = "rebuild",
           NEW left, Publish(r), EndPass(r, left),
           UNCHANGED <<connected, drain, timer, busy, astray>>
    PROVE  Inv'
<1>0. TypeOK /\ FlagHasBuild /\ BusyHasOwner /\ (astray \/ Sound)
  BY DEF IInv, Inv, Sound
<1>1. runs \in RunTable /\ runs[r] \in RunRecords
  BY <1>0, RunFacts DEF TypeOK, RunTable, Begun, NoRun
<1>2. r \in Builds /\ r \in Drains
  BY DEF Builds, Drains, Begun
<1>3. CASE queued
  <2>1. PICK sent \in BOOLEAN :
           runs' = [runs EXCEPT ![r] = Run("rebuild", sent)]
    BY <1>3 DEF EndPass
  <2>2. queued' = FALSE /\ building' = TRUE /\ rebuilding' = rebuilding
    BY <1>3 DEF EndPass
  <2>3. runs'[r] = Run("rebuild", sent) /\ \A s \in Runs \ {r} : runs'[s] = runs[s]
    BY <1>1, <2>1, OneSlot
  <2>4. /\ runs'[r].kind = "rebuild" /\ runs'[r].pc \in Begun
        /\ runs'[r].age = "now" /\ runs'[r].covers = TRUE
    BY <2>3 DEF Run, Begun
  <2>5. Builds' = Builds /\ Drains' = Drains
    <3>1. r \in Builds'
      BY <2>4 DEF Builds, Begun
    <3>2. \A s \in Runs \ {r} : (s \in Builds') <=> (s \in Builds)
      BY <2>3 DEF Builds
    <3>3. Builds' = Builds
      <4>1. Builds' \subseteq Runs /\ Builds \subseteq Runs
        BY DEF Builds
      <4> QED
        BY <1>2, <3>1, <3>2, <4>1
    <3>4. \A s \in Builds : (runs'[s].kind = "rebuild") <=> (runs[s].kind = "rebuild")
      BY <2>3, <2>4 DEF Builds
    <3> QED
      BY <3>3, <3>4 DEF Drains
  <2>6. FlagHasBuild'
    BY <1>2, <2>5 DEF FlagHasBuild
  <2>7. BusyHasOwner'
    BY <2>4 DEF BusyHasOwner, Begun
  <2>8. ASSUME ~astray
        PROVE  OneBuild' /\ BuildIsDue' /\ WaiterIsServed'
    <3>1. Sound /\ Builds = {r} /\ Drains = {r}
      <4>1. Sound
        BY <1>0, <2>8
      <4>2. \A s, u \in Builds : s = u
        BY <4>1 DEF Sound, OneBuild
      <4> QED
        BY <1>2, <4>1, <4>2 DEF Drains
    <3>2. OneBuild'
      BY <2>2, <2>5, <3>1 DEF Sound, OneBuild
    <3>3. BuildIsDue'
      BY <1>2, <2>4, <2>5 DEF BuildIsDue
    <3>4. WaiterIsServed'
      <4> SUFFICES ASSUME waiter' # None
                   PROVE  waiter'.met \/ waiter'.on = r
        BY <1>2, <2>4, <2>5 DEF WaiterIsServed
      <4>1. /\ waiter # None /\ waiter'.on = waiter.on
            /\ waiter.met => waiter'.met
        BY <1>0, <1>1, PublishMeets
      <4> QED
        BY <3>1, <4>1 DEF Sound, WaiterIsServed
    <3> QED
      BY <3>2, <3>3, <3>4
  <2> QED
    BY <2>6, <2>7, <2>8 DEF Inv
<1>4. CASE ~queued
  <2>1. /\ runs' = [runs EXCEPT ![r].pc = "teardown"]
        /\ building' = FALSE /\ rebuilding' = FALSE
    BY <1>4 DEF EndPass
  <2>2. /\ runs'[r].pc = "teardown" /\ runs'[r].kind = "rebuild"
        /\ \A s \in Runs \ {r} : runs'[s] = runs[s]
    BY <1>1, <2>1 DEF RunTable, RunRecords
  <2>3. FlagHasBuild'
    BY <2>1 DEF FlagHasBuild
  <2>4. BusyHasOwner'
    BY <2>2 DEF BusyHasOwner
  <2>5. ASSUME ~astray
        PROVE  OneBuild' /\ BuildIsDue' /\ WaiterIsServed'
    <3>1. Sound
      BY <1>0, <2>5
    <3>2. \A s \in Builds : s = r
      BY <1>2, <3>1 DEF Sound, OneBuild
    <3>3. Builds' = {}
      BY <2>2, <3>2 DEF Builds
    <3> QED
      BY <1>0, <1>1, <1>2, <1>4, <2>1, <3>1, <3>3, LastBuildEnds
  <2> QED
    BY <2>3, <2>4, <2>5 DEF Inv
<1> QED
  BY <1>3, <1>4

(* What a run does with its answer.  Compute All lowers the flag, whoever  *)
(* has raised it; an operation lowers the busy state.                      *)
LEMMA ContinueInv ==
    ASSUME IInv, NEW r \in Runs, runs[r].pc \in Begun, NEW ok \in BOOLEAN,
           NEW updates \in BOOLEAN, NEW left,
           Continue(r, ok, updates, left), UNCHANGED <<connected, astray>>
    PROVE  Inv'
<1>0. TypeOK /\ FlagHasBuild /\ BusyHasOwner /\ (astray \/ Sound)
  BY DEF IInv, Inv, Sound
<1>1. runs \in RunTable /\ runs[r] \in RunRecords
  BY <1>0, RunFacts DEF TypeOK, RunTable, Begun, NoRun
<1>2. CASE /\ runs[r].kind = "rebuild"
           /\ Publish(r)
           /\ EndPass(r, left)
           /\ UNCHANGED <<drain, timer, busy>>
  BY <1>2, PassInv
<1>3. CASE /\ runs[r].kind = "all"
           /\ Publish(r)
           /\ runs' = [runs EXCEPT ![r] = NoRun]
           /\ rebuilding' = FALSE
           /\ building' = FALSE
           /\ UNCHANGED <<queued, drain, timer, busy>>
  <2>1. r \in Builds /\ r \notin Drains
    BY <1>3 DEF Builds, Drains, Begun
  <2>2. runs'[r] = NoRun /\ \A s \in Runs \ {r} : runs'[s] = runs[s]
    BY <1>1, <1>3, OneSlot
  <2>3. FlagHasBuild'
    BY <1>3 DEF FlagHasBuild
  <2>4. BusyHasOwner'
    BY <1>0, <1>3, <2>2 DEF BusyHasOwner
  <2>5. ASSUME ~astray
        PROVE  OneBuild' /\ BuildIsDue' /\ WaiterIsServed'
    <3>1. Sound
      BY <1>0, <2>5
    <3>2. \A s \in Builds : s = r
      BY <2>1, <3>1 DEF Sound, OneBuild
    <3>3. Drains = {}
      BY <2>1, <3>2 DEF Drains
    <3>4. Builds' = {}
      BY <2>2, <3>2 DEF Builds, NoRun
    <3> QED
      BY <1>0, <1>1, <1>3, <2>1, <3>1, <3>3, <3>4, LastBuildEnds
  <2> QED
    BY <2>3, <2>4, <2>5 DEF Inv
<1>4. CASE /\ runs[r].kind = "op"
           /\ runs' = [runs EXCEPT ![r] = NoRun]
           /\ busy' = [active |-> FALSE, id |-> None]
           /\ UNCHANGED <<flags, timer, screen, refresh, waiter>>
  <2>1. /\ UNCHANGED <<connected, rebuilding, drain, building, settled, astray>>
        /\ queued' = queued /\ timer' = timer /\ waiter' = waiter
    BY <1>4 DEF flags, screen
  <2>2. runs'[r] = NoRun /\ \A s \in Runs \ {r} : runs'[s] = runs[s]
    BY <1>1, <1>4, OneSlot
  <2>3. r \notin Builds /\ r \notin Builds'
    BY <1>4, <2>2 DEF Builds, NoRun
  <2>4. Builds' = Builds /\ \A s \in Builds : runs'[s] = runs[s]
    BY <2>2, <2>3 DEF Builds
  <2>5. Drains' = Drains
    BY <2>4 DEF Drains
  <2>6. BusyHasOwner'
    BY <1>4 DEF BusyHasOwner
  <2> QED
    BY <2>1, <2>4, <2>5, <2>6, SameInv
<1> QED
  BY <1>2, <1>3, <1>4 DEF Continue

(* Every step keeps the invariant. *)
LEMMA InvStep == IInv /\ [Next]_vars => Inv'
<1> SUFFICES ASSUME IInv, [Next]_vars
             PROVE  Inv'
  OBVIOUS
<1>0. TypeOK /\ FlagHasBuild /\ BusyHasOwner /\ (astray \/ Sound)
  BY DEF IInv, Inv, Sound
<1>a. runs \in RunTable /\ \A r \in Runs : runs[r].pc # "idle" => runs[r] \in RunRecords
  BY <1>0, RunFacts DEF TypeOK, RunTable, NoRun
<1>1. CASE Edit
  <2>1. PICK immediate \in BOOLEAN : Change(immediate)
    BY <1>1 DEF Edit
  <2>2. waiter' = waiter
    BY <1>1 DEF Edit
  <2> QED
    BY <2>1, <2>2, ChangeInv
<1>2. CASE Preview
  <2>1. waiter' = waiter /\ Change(TRUE)
    BY <1>2 DEF Preview
  <2> QED
    BY <2>1, ChangeInv
<1>3. CASE Replace
  <2>1. waiter' = waiter /\ RebuildNow(AgedRuns("alien"), FALSE, FALSE)
    BY <1>3 DEF Replace
  <2>2. /\ AgedRuns("alien") \in RunTable
        /\ \A s \in Runs : /\ AgedRuns("alien")[s].pc = runs[s].pc
                           /\ AgedRuns("alien")[s].kind = runs[s].kind
    BY <1>0, AgedType DEF TypeOK, RunTable, Ages
  <2> QED
    BY <2>1, <2>2, RebuildNowInv DEF Inv, Flags
<1>4. CASE TimerFires
  <2>1. waiter' = waiter /\ RebuildNow(runs, building, FALSE)
    BY <1>4 DEF TimerFires
  <2>2. building \in BOOLEAN
    BY <1>0 DEF TypeOK
  <2> QED
    BY <1>a, <2>1, <2>2, RebuildNowInv DEF Inv, Flags
<1>5. CASE AwaitRebuild
  <2> DEFINE rs == [r \in Runs |->
                      IF runs[r] = NoRun THEN NoRun
                      ELSE [runs[r] EXCEPT !.covers = runs[r].age = "now"]]
  <2>1. /\ RebuildNow(rs, building, FALSE)
        /\ waiter' = [on |-> drain', met |-> settled = "now"]
    BY <1>5 DEF AwaitRebuild, Awaited
  <2>2. /\ rs \in RunTable
        /\ \A s \in Runs : rs[s].kind = runs[s].kind /\ rs[s].pc = runs[s].pc
    <3>1. \A s \in Runs : /\ rs[s] \in RunRecords \cup {NoRun}
                          /\ rs[s].kind = runs[s].kind
                          /\ rs[s].pc = runs[s].pc
      <4> TAKE s \in Runs
      <4>1. CASE runs[s] = NoRun
        BY <4>1
      <4>2. CASE runs[s] # NoRun
        <5>1. runs[s] \in RunRecords
          BY <1>a, <4>2 DEF RunTable
        <5>2. rs[s] = [runs[s] EXCEPT !.covers = runs[s].age = "now"]
          BY <4>2
        <5> QED
          BY <5>1, <5>2 DEF RunRecords
      <4> QED
        BY <4>1, <4>2
    <3> QED
      BY <3>1 DEF RunTable
  <2> HIDE DEF rs
  <2>3. building \in BOOLEAN
    BY <1>0 DEF TypeOK
  <2>4. /\ Flags'
        /\ ~astray' => /\ OneBuild' /\ BuildIsDue'
                       /\ drain' \in Drains' /\ (queued' \/ runs'[drain'].covers)
    BY <2>1, <2>2, <2>3, RebuildNowInv
  <2>5. waiter'.on = drain'
    BY <2>1
  <2>6. ~astray' => WaiterIsServed'
    BY <2>4, <2>5 DEF WaiterIsServed
  <2> QED
    BY <2>4, <2>6 DEF Inv, Flags
<1>6. CASE ComputeAll
  <2>1. /\ UNCHANGED <<connected, drain, timer, settled, busy, waiter>>
        /\ rebuilding' = TRUE
    BY <1>6 DEF ComputeAll
  <2>2. CASE rebuilding
    <3>1. queued' = TRUE /\ UNCHANGED <<rebuilding, runs, building, astray>>
      BY <1>6, <2>2 DEF ComputeAll
    <3>2. Builds' = Builds /\ Drains' = Drains
      BY <3>1, SamePlaces
    <3>3. BusyHasOwner'
      BY <1>0, <2>1, <3>1 DEF BusyHasOwner
    <3> QED
      BY <2>1, <3>1, <3>2, <3>3, SameInv
  <2>3. CASE ~rebuilding
    <3>1. PICK r \in Free, sent \in BOOLEAN : runs' = [runs EXCEPT ![r] = Run("all", sent)]
      BY <1>6, <2>3 DEF ComputeAll, Request
    <3>2. astray' = (Builds # {} \/ (astray /\ waiter # None))
      BY <1>6, <2>3 DEF ComputeAll, Alone
    <3>3. r \in Runs /\ runs[r] = NoRun
      BY DEF Free
    <3>4. runs'[r] = Run("all", sent) /\ \A s \in Runs \ {r} : runs'[s] = runs[s]
      BY <1>a, <3>1, <3>3, OneSlot
    <3>5. runs'[r].kind = "all" /\ runs'[r].pc \in Begun /\ runs'[r].age = "now"
      BY <3>4 DEF Run, Begun
    <3>6. FlagHasBuild'
      BY <3>3, <3>5 DEF FlagHasBuild, Builds, Begun
    <3>7. BusyHasOwner'
      BY <1>0, <2>1, <3>3, <3>4 DEF BusyHasOwner, NoRun
    <3>8. ASSUME ~astray'
          PROVE  OneBuild' /\ BuildIsDue' /\ WaiterIsServed'
      <4>1. Builds = {} /\ (waiter # None => Sound)
        BY <1>0, <3>2, <3>8
      <4>2. Builds' = {r} /\ Drains' = {}
        BY <3>3, <3>4, <3>5, <4>1, OnlyBuild
      <4>3. waiter # None => waiter.met
        BY <4>1, ServedAlready DEF Sound
      <4>4. OneBuild'
        BY <4>2 DEF OneBuild
      <4>5. BuildIsDue'
        BY <3>5, <4>2 DEF BuildIsDue
      <4>6. WaiterIsServed'
        BY <2>1, <4>3 DEF WaiterIsServed
      <4> QED
        BY <4>4, <4>5, <4>6
    <3> QED
      BY <3>6, <3>7, <3>8 DEF Inv
  <2> QED
    BY <2>2, <2>3
<1>7. CASE HeavyOp
  <2>1. PICK r \in Free, sent \in BOOLEAN : runs' = [runs EXCEPT ![r] = Run("op", sent)]
    BY <1>7 DEF HeavyOp, Request
  <2>2. /\ UNCHANGED <<connected, rebuilding, drain, building, settled, astray>>
        /\ queued' = queued /\ timer' = timer /\ waiter' = waiter
    BY <1>7 DEF HeavyOp, flags, screen
  <2>3. r \in Runs /\ runs[r] = NoRun
    BY DEF Free
  <2>4. runs'[r] = Run("op", sent) /\ \A s \in Runs \ {r} : runs'[s] = runs[s]
    BY <1>a, <2>1, <2>3, OneSlot
  <2>5. runs'[r].kind = "op" /\ runs'[r].pc \in Begun
    BY <2>4 DEF Run, Begun
  <2>6. r \notin Builds /\ r \notin Builds'
    BY <2>3, <2>5 DEF Builds, NoRun
  <2>7. Builds' = Builds /\ \A s \in Builds : runs'[s] = runs[s]
    BY <2>4, <2>6 DEF Builds
  <2>8. Drains' = Drains
    BY <2>7 DEF Drains
  <2>9. BusyHasOwner'
    BY <2>3, <2>5 DEF BusyHasOwner, Begun
  <2> QED
    BY <2>2, <2>7, <2>8, <2>9, SameInv
<1>8. CASE Drop
  <2>1. /\ connected' = FALSE /\ rebuilding' = rebuilding /\ queued' = queued
        /\ drain' = drain /\ building' = building
        /\ waiter' = waiter /\ busy' = busy /\ astray' = astray
    BY <1>8 DEF Drop, flags, screen
  <2>2. \A s \in Runs : runs'[s] = IF runs[s].pc = "call"
                                   THEN [runs[s] EXCEPT !.pc = "failed"]
                                   ELSE runs[s]
    BY <1>8 DEF Drop
  <2>3. \A s \in Runs : /\ runs'[s].kind = runs[s].kind
                        /\ runs'[s].covers = runs[s].covers
                        /\ runs'[s].pc = IF runs[s].pc = "call" THEN "failed"
                                         ELSE runs[s].pc
    BY <1>a, <2>2 DEF RunRecords
  <2>4. Builds' = Builds /\ Builds \subseteq Runs
    BY <2>3 DEF Builds
  <2>5. Drains' = Drains
    BY <2>3, <2>4 DEF Drains
  <2>6. FlagHasBuild'
    BY <1>0, <2>1, <2>4 DEF FlagHasBuild
  <2>7. BusyHasOwner'
    BY <1>0, <2>1, <2>3 DEF BusyHasOwner
  <2>8. ASSUME ~astray
        PROVE  OneBuild' /\ BuildIsDue' /\ WaiterIsServed'
    <3>1. OneBuild /\ WaiterIsServed
      BY <1>0, <2>8 DEF Sound
    <3>2. OneBuild'
      BY <2>1, <2>4, <2>5, <3>1 DEF OneBuild
    <3>3. BuildIsDue'
      BY <2>1 DEF BuildIsDue
    <3>4. WaiterIsServed'
      BY <2>1, <2>3, <2>4, <2>5, <3>1 DEF WaiterIsServed, Drains
    <3> QED
      BY <3>2, <3>3, <3>4
  <2> QED
    BY <2>1, <2>6, <2>7, <2>8 DEF Inv
<1>9. CASE Connect
  <2>1. waiter' = waiter /\ RebuildNow(runs, building, TRUE)
    BY <1>9 DEF Connect
  <2>2. building \in BOOLEAN
    BY <1>0 DEF TypeOK
  <2> QED
    BY <1>a, <2>1, <2>2, RebuildNowInv DEF Inv, Flags
<1>10. CASE Answer
  <2>1. PICK ok \in BOOLEAN, updates \in BOOLEAN :
           Continue(Head(engine), ok, updates, Tail(engine))
    BY <1>10 DEF Answer
  <2>2. UNCHANGED <<connected, astray>> /\ engine # <<>>
    BY <1>10 DEF Answer
  <2>3. Head(engine) \in Runs /\ runs[Head(engine)].pc \in Begun
    BY <1>0, <2>2, RestOfQueue DEF Begun
  <2> QED
    BY <2>1, <2>2, <2>3, ContinueInv
<1>11. CASE Resync
  <2> DEFINE r == Head(engine)
  <2>1. /\ runs' = [runs EXCEPT ![r].resent = TRUE]
        /\ UNCHANGED <<connected, rebuilding, drain, building, settled, astray>>
        /\ queued' = queued /\ timer' = timer /\ waiter' = waiter /\ busy' = busy
        /\ engine # <<>>
    BY <1>11 DEF Resync, flags, screen
  <2>2. r \in Runs /\ runs[r].pc = "call"
    BY <1>0, <2>1, RestOfQueue
  <2> HIDE DEF r
  <2>3. \A s \in Runs : /\ runs'[s].kind = runs[s].kind
                        /\ runs'[s].pc = runs[s].pc
                        /\ runs'[s].age = runs[s].age
                        /\ runs'[s].covers = runs[s].covers
    BY <1>a, <2>1, <2>2 DEF RunTable, RunRecords
  <2>4. Builds' = Builds /\ Drains' = Drains /\ Builds \subseteq Runs
    BY <2>3, SamePlaces DEF Builds
  <2>5. BusyHasOwner'
    BY <1>0, <2>1, <2>3 DEF BusyHasOwner
  <2> QED
    BY <2>1, <2>3, <2>4, <2>5, SameInv
<1>12. CASE Failed
  <2>1. PICK r \in Runs : /\ runs[r].pc = "failed"
                          /\ Continue(r, FALSE, FALSE, engine)
    BY <1>12 DEF Failed
  <2>2. UNCHANGED <<connected, astray>> /\ runs[r].pc \in Begun
    BY <1>12, <2>1 DEF Failed, Begun
  <2> QED
    BY <2>1, <2>2, ContinueInv
<1>13. CASE Teardown
  <2>1. PICK r \in Runs : /\ runs[r].pc = "teardown"
                          /\ runs' = [runs EXCEPT ![r].pc = "leaving"]
    BY <1>13 DEF Teardown
  <2>2. /\ busy' = [active |-> FALSE, id |-> None]
        /\ UNCHANGED <<connected, rebuilding, drain, building, settled, astray>>
        /\ queued' = queued /\ timer' = timer /\ waiter' = waiter
    BY <1>13 DEF Teardown, flags, screen
  <2>3. /\ runs'[r].pc = "leaving"
        /\ \A s \in Runs \ {r} : runs'[s] = runs[s]
    BY <1>a, <2>1 DEF RunTable, RunRecords
  <2>4. r \notin Builds /\ r \notin Builds'
    BY <2>1, <2>3 DEF Builds
  <2>5. Builds' = Builds /\ \A s \in Builds : runs'[s] = runs[s]
    BY <2>3, <2>4 DEF Builds
  <2>6. Drains' = Drains
    BY <2>5 DEF Drains
  <2>7. BusyHasOwner'
    BY <2>2 DEF BusyHasOwner
  <2> QED
    BY <2>2, <2>5, <2>6, <2>7, SameInv
<1>14. CASE Leave
  <2>1. PICK r \in Runs :
           /\ runs[r].pc = "leaving"
           /\ runs' = [runs EXCEPT ![r] = NoRun]
           /\ waiter' = IF waiter # None /\ waiter.on = r THEN None ELSE waiter
    BY <1>14 DEF Leave
  <2>2. /\ rebuilding' = FALSE /\ timer' = timer /\ connected' = connected
        /\ queued' = queued /\ building' = building /\ settled' = settled
        /\ busy' = busy /\ astray' = astray
    BY <1>14 DEF Leave, screen
  <2>3. runs'[r] = NoRun /\ \A s \in Runs \ {r} : runs'[s] = runs[s]
    BY <1>a, <2>1, OneSlot
  <2>4. r \notin Builds /\ r \notin Builds'
    BY <2>1, <2>3 DEF Builds, NoRun
  <2>5. Builds' = Builds /\ \A s \in Builds : runs'[s] = runs[s]
    BY <2>3, <2>4 DEF Builds
  <2>6. Drains' = Drains
    BY <2>5 DEF Drains
  <2>7. FlagHasBuild'
    BY <1>0, <2>2, <2>5 DEF FlagHasBuild
  <2>8. BusyHasOwner'
    BY <1>0, <2>1, <2>2, <2>3 DEF BusyHasOwner
  <2>9. ASSUME ~astray
        PROVE  OneBuild' /\ BuildIsDue' /\ WaiterIsServed'
    <3>1. OneBuild /\ BuildIsDue /\ WaiterIsServed
      BY <1>0, <2>9 DEF Sound
    <3>2. OneBuild'
      BY <2>2, <2>5, <3>1 DEF OneBuild
    <3>3. BuildIsDue'
      <4>1. (\E s \in Builds : runs[s].age = "now")
               => (\E s \in Builds : runs[s].age = "now")'
        BY <2>5
      <4> QED
        BY <2>2, <2>5, <2>6, <3>1, <4>1 DEF BuildIsDue
    <3>4. WaiterIsServed'
      BY <2>1, <2>2, <2>5, <2>6, <3>1 DEF WaiterIsServed, Drains
    <3> QED
      BY <3>2, <3>3, <3>4
  <2> QED
    BY <2>2, <2>7, <2>8, <2>9 DEF Inv
<1>15. CASE NothingToAwait
  <2>1. /\ waiter' = None /\ runs' = runs /\ busy' = busy
        /\ UNCHANGED <<connected, rebuilding, drain, building, settled, astray>>
        /\ queued' = queued /\ timer' = timer
    BY <1>15 DEF NothingToAwait, flags, screen
  <2>2. Builds' = Builds /\ Drains' = Drains
    BY <2>1, SamePlaces
  <2>3. BusyHasOwner'
    BY <1>0, <2>1 DEF BusyHasOwner
  <2> QED
    BY <2>1, <2>2, <2>3, SameInv
<1>16. CASE Refresh
  <2>1. waiter' = waiter /\ connected' = connected
    BY <1>16 DEF Refresh
  <2>2. CASE UNCHANGED <<runs, engine, flags, timer, screen, streak, busy, astray>>
    <3>1. /\ UNCHANGED <<connected, rebuilding, drain, building, settled, astray>>
          /\ queued' = queued /\ timer' = timer /\ runs' = runs /\ busy' = busy
      BY <2>1, <2>2 DEF flags, screen
    <3>2. Builds' = Builds /\ Drains' = Drains
      BY <3>1, SamePlaces
    <3>3. BusyHasOwner'
      BY <1>0, <3>1 DEF BusyHasOwner
    <3> QED
      BY <2>1, <3>1, <3>2, <3>3, SameInv
  <2>3. CASE Change(TRUE)
    BY <2>1, <2>3, ChangeInv
  <2> QED
    BY <1>16, <2>2, <2>3 DEF Refresh
<1>17. CASE UNCHANGED vars
  <2>1. /\ UNCHANGED <<connected, rebuilding, drain, building, settled, astray>>
        /\ queued' = queued /\ timer' = timer /\ waiter' = waiter
        /\ runs' = runs /\ busy' = busy
    BY <1>17 DEF vars, flags, screen
  <2>2. Builds' = Builds /\ Drains' = Drains
    BY <2>1, SamePlaces
  <2>3. BusyHasOwner'
    BY <1>0, <2>1 DEF BusyHasOwner
  <2> QED
    BY <2>1, <2>2, <2>3, SameInv
<1> QED
  BY <1>1, <1>2, <1>3, <1>4, <1>5, <1>6, <1>7, <1>8, <1>9, <1>10, <1>11,
     <1>12, <1>13, <1>14, <1>15, <1>16, <1>17 DEF Next

(* Before anything has happened nothing builds, and the socket is closed. *)
LEMMA InvInit == Init => Inv
<1> SUFFICES ASSUME Init PROVE Inv
  OBVIOUS
<1>1. Builds = {}
  BY DEF Init, Builds, NoRun
<1> QED
  BY <1>1
  DEF Init, Inv, FlagHasBuild, OneBuild, BusyHasOwner, BuildIsDue, WaiterIsServed

(* The inductive invariant holds in every state. *)
THEOREM PipelineInvariance == Spec => []IInv
<1>1. Init => IInv
  BY TypeInit, InvInit DEF IInv
<1>2. IInv /\ [Next]_vars => IInv'
  BY TypeStep, InvStep DEF IInv
<1> QED
  BY <1>1, <1>2, PTL DEF Spec
-----------------------------------------------------------------------------
(* What the invariant is for.                                              *)

(* The flag is never up for a build that is over, the busy state belongs   *)
(* to a call that will clear it, and, until builds overlap or a request is *)
(* left to Compute All, one drain builds, every edit is due to be built    *)
(* and whoever waits will be served.                                       *)
THEOREM PipelineInv == Spec => []Inv
<1>1. IInv => Inv
  BY DEF IInv
<1> QED
  BY <1>1, PipelineInvariance, PTL

(* No edit is lost: at rest nothing is left that says a build goes on,     *)
(* and the last build to settle was of the document as it now is, unless   *)
(* builds overlapped or the edit fell into Compute All.                    *)
THEOREM RestIsBuilt == Spec => []RestMeansBuilt
<1>1. IInv => RestMeansBuilt
  <2> SUFFICES ASSUME IInv, AtRest
               PROVE  /\ ~building /\ ~rebuilding /\ ~busy.active
                      /\ settled = "now" \/ astray
    BY DEF RestMeansBuilt
  <2>1. /\ connected /\ ~timer
        /\ \A r \in Runs : runs[r].pc = "idle"
    BY DEF AtRest, NoRun
  <2>2. Builds = {} /\ Drains = {}
    BY <2>1 DEF Builds, Drains
  <2>3. ~building /\ ~rebuilding
    BY <2>2 DEF IInv, Inv, FlagHasBuild
  <2>4. ~busy.active
    BY <2>1 DEF IInv, Inv, BusyHasOwner
  <2>5. settled = "now" \/ astray
    BY <2>1, <2>2 DEF IInv, Inv, BuildIsDue
  <2> QED
    BY <2>3, <2>4, <2>5
<1> QED
  BY <1>1, PipelineInvariance, PTL

(* Whoever awaits rebuildNow() goes on only when a build of the document   *)
(* as it was when they asked, or of a later one, has settled, with the     *)
(* same exception.                                                         *)
THEOREM AwaitPublishes == Spec => AwaitMeansPublished
<1> DEFINE GoesOn == waiter # None /\ waiter' = None => waiter.met \/ astray
<1>1. IInv /\ [Next]_vars => [GoesOn]_waiter
  <2> SUFFICES ASSUME IInv, [Next]_vars, waiter # None, waiter' = None, ~astray
               PROVE  waiter.met
    OBVIOUS
  <2>0. TypeOK /\ WaiterIsServed
    BY DEF IInv, Inv
  <2>1. waiter \in [on : Runs \cup {None}, met : BOOLEAN]
    BY <2>0 DEF TypeOK
  <2>2. SUFFICES ASSUME waiter.on \in Drains PROVE FALSE
    BY <2>0 DEF WaiterIsServed
  <2>3. waiter.on \in Runs /\ runs[waiter.on].pc \in Begun
    BY <2>2 DEF Builds, Drains, Begun
  <2>4. CASE Leave
    <3>1. PICK r \in Runs :
             /\ runs[r].pc = "leaving"
             /\ waiter' = IF waiter # None /\ waiter.on = r THEN None ELSE waiter
      BY <2>4 DEF Leave
    <3>2. waiter.on = r
      BY <3>1
    <3> QED
      BY <2>3, <3>1, <3>2 DEF Begun
  <2>5. CASE NothingToAwait
    BY <2>3, <2>5, PipelineAssumption DEF NothingToAwait
  <2>6. ASSUME NEW r \in Runs, NEW ok, NEW updates, NEW left,
               Continue(r, ok, updates, left)
        PROVE  FALSE
    <3>1. waiter' = waiter \/ waiter' = [waiter EXCEPT !.met = waiter.met \/ runs[r].covers]
      BY <2>6 DEF Continue, Publish
    <3>2. waiter' = [waiter EXCEPT !.met = waiter.met \/ runs[r].covers]
      BY <3>1
    <3>3. waiter' \in [on : Runs \cup {None}, met : BOOLEAN]
      <4>1. runs[r].covers \in BOOLEAN
        <5>1. runs[r] \in RunRecords \/ runs[r] = NoRun
          BY <2>0, <2>6 DEF TypeOK
        <5>2. NoRun.covers = FALSE
          BY DEF NoRun
        <5> QED
          BY <5>1, <5>2 DEF RunRecords
      <4> QED
        BY <2>1, <3>2, <4>1
    <3> QED
      BY <3>3, PipelineAssumption
  <2>7. CASE Answer
    <3>1. engine # <<>> /\ \E ok, updates \in BOOLEAN :
             Continue(Head(engine), ok, updates, Tail(engine))
      BY <2>7 DEF Answer
    <3>2. Head(engine) \in Runs
      BY <2>0, <3>1, RestOfQueue DEF TypeOK, Queues, RunTable
    <3> QED
      BY <2>6, <3>1, <3>2
  <2>8. CASE Failed
    BY <2>6, <2>8 DEF Failed
  <2> QED
    BY <2>4, <2>5, <2>7, <2>8
    DEF Next, vars, Edit, Preview, Replace, TimerFires, AwaitRebuild,
        ComputeAll, HeavyOp, Drop, Connect, Resync, Teardown, Refresh
<1> QED
  BY <1>1, PipelineInvariance, PTL DEF Spec, AwaitMeansPublished
=============================================================================
