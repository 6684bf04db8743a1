-------------------------- MODULE EditHistoryProofs --------------------------
(***************************************************************************)
(* The history is a chain of the user's edits, a refresh takes nothing     *)
(* back, and whatever is not yet as it should be is waited for.            *)
(***************************************************************************)
EXTENDS EditHistory, SequenceTheorems, TLAPS

-----------------------------------------------------------------------------
(* The inductive invariant.                                                *)

(* HistoryIsAChain, by the parts of the line. *)
UndoIsAChain ==
    /\ \A i \in 1 .. Len(undo) - 1 : undo[i + 1].after = undo[i].step
    /\ undo # <<>> => doc.after = undo[Len(undo)].step

RedoIsAChain ==
    /\ redo # <<>> => redo[Len(redo)].after = doc.step
    /\ \A i \in 1 .. Len(redo) - 1 : redo[i].after = redo[i + 1].step

(* A refresh that nobody has overtaken has the sketch and the parameter    *)
(* that the document still has.                                            *)
LiveJobIsCurrent ==
    job # None /\ job.kind = "refresh" /\ job.live =>
        /\ HasSketch
        /\ job.sketch.shape = doc.sketch.shape
        /\ job.param = doc.param

(* A commit waits for the solver only with a sketch to solve.              *)
DraftHasSketch ==
    job # None /\ job.kind = "param" => job.draft.sketch # None

(* The running build was sent the document as it is viewed, or another is  *)
(* on its way.                                                             *)
BuildIsCurrent == build # None => due \/ again \/ build = Sent(doc, view)

(* A projection that shows another solid than there is will be looked at,  *)
(* by a build or by a commit that waits, unless there is a reason not to.  *)
StaleIsOwed ==
    HasSketch /\ doc.sketch.proj # doc.solid /\ pad = None /\ ~owed =>
        \/ due
        \/ build # None
        \/ chain # <<>>
        \/ job # None /\ (job.kind = "param" \/ job.live)
        \/ failed \/ Shut \/ view # "whole"

(* A sketch satisfies its document's parameter: in the document, in those  *)
(* that undo and redo bring back, and in the editor.                       *)
Satisfied(d) == d.sketch # None => d.sketch.solved = d.param

AllSatisfied ==
    \/ strayed
    \/ /\ Satisfied(doc)
       /\ \A i \in 1 .. Len(undo) : Satisfied(undo[i])
       /\ \A i \in 1 .. Len(redo) : Satisfied(redo[i])
       /\ pad # None /\ HasSketch => pad.solved = doc.param

IInv ==
    /\ TypeOK
    /\ UndoIsAChain /\ RedoIsAChain
    /\ LiveJobIsCurrent /\ DraftHasSketch /\ BuildIsCurrent /\ StaleIsOwed /\ AllSatisfied
-----------------------------------------------------------------------------
(* The helpers keep types.                                                 *)

LEMMA EditTyped ==
    ASSUME TypeOK, Step
    PROVE  Edit \in Edits /\ steps' \in Edits /\ moves' \in 0 .. MaxMoves
BY HistoryAssumption DEF TypeOK, Step, Edit, Edits

LEMMA MoveTyped ==
    ASSUME TypeOK, Move
    PROVE  steps' \in Edits /\ moves' \in 0 .. MaxMoves
BY HistoryAssumption DEF TypeOK, Move, Edits

(* An undo step more, at most UndoCap of them. *)
LEMMA CappedAppend ==
    ASSUME NEW s \in Seq(Docs), Len(s) <= UndoCap, NEW d \in Docs
    PROVE  LET t == Capped(Append(s, d))
               k == IF Len(s) = UndoCap THEN 1 ELSE 0
           IN  /\ t \in Seq(Docs)
               /\ Len(t) = Len(s) + 1 - k
               /\ Len(t) <= UndoCap /\ Len(t) > 0
               /\ t[Len(t)] = d
               /\ \A i \in 1 .. Len(t) - 1 : i + k \in 1 .. Len(s) /\ t[i] = s[i + k]
<1> DEFINE a == Append(s, d)
           k == IF Len(s) = UndoCap THEN 1 ELSE 0
           t == Capped(a)
<1>1. /\ a \in Seq(Docs) /\ Len(a) = Len(s) + 1 /\ a # <<>>
      /\ \A i \in 1 .. Len(s) : a[i] = s[i]
      /\ a[Len(s) + 1] = d
  BY AppendProperties
<1>2. Len(s) \in Nat /\ UndoCap \in Nat \ {0}
  BY HistoryAssumption
<1>3. CASE Len(s) = UndoCap
  <2>1. t = Tail(a) /\ k = 1
    BY <1>1, <1>2, <1>3 DEF Capped
  <2>2. /\ Tail(a) \in Seq(Docs) /\ Len(Tail(a)) = Len(s)
        /\ \A i \in 1 .. Len(Tail(a)) : Tail(a)[i] = a[i + 1]
    BY <1>1, HeadTailProperties
  <2> HIDE DEF a, t, k
  <2> QED
    BY <2>1, <2>2, <1>1, <1>2, <1>3 DEF t, a, k
<1>4. CASE Len(s) # UndoCap
  <2>1. t = a /\ k = 0
    BY <1>1, <1>2, <1>4 DEF Capped
  <2> HIDE DEF a, t, k
  <2> QED
    BY <2>1, <1>1, <1>2, <1>4 DEF t, a, k
<1> QED
  BY <1>3, <1>4

(* All of a sequence but its last element. *)
LEMMA FrontLast ==
    ASSUME NEW s \in Seq(Docs), s # <<>>
    PROVE  /\ Front(s) \in Seq(Docs)
           /\ Len(Front(s)) = Len(s) - 1 /\ Len(s) > 0
           /\ \A i \in 1 .. Len(s) - 1 : Front(s)[i] = s[i]
           /\ Last(s) \in Docs /\ Last(s) = s[Len(s)]
<1>1. Len(s) \in Nat /\ Len(s) > 0 /\ \A i \in 1 .. Len(s) : s[i] \in Docs
  BY EmptySeq
<1>2. \A i \in 1 .. Len(s) - 1 : s[i] \in Docs
  BY <1>1
<1>3. /\ SubSeq(s, 1, Len(s) - 1) \in Seq(Docs)
      /\ Len(SubSeq(s, 1, Len(s) - 1)) = IF 1 <= Len(s) - 1 THEN Len(s) - 1 - 1 + 1 ELSE 0
      /\ \A i \in 1 .. Len(s) - 1 - 1 + 1 : SubSeq(s, 1, Len(s) - 1)[i] = s[1 + i - 1]
  BY <1>1, <1>2, SubSeqProperties
<1>4. Front(s) = SubSeq(s, 1, Len(s) - 1) /\ Last(s) = s[Len(s)]
  BY Zenon DEF Front, Last
<1>5. Len(s) \in 1 .. Len(s)
  BY <1>1
<1> DEFINE n == Len(s) - 1
           f == SubSeq(s, 1, n)
<1> HIDE DEF f
<1>6. Len(f) = IF 1 <= n THEN n - 1 + 1 ELSE 0
  BY <1>3, Zenon DEF f
<1>7. Len(f) = n
  BY <1>1, <1>6
<1>8. \A i \in 1 .. n - 1 + 1 : f[i] = s[1 + i - 1]
  BY <1>3, Zenon DEF f
<1>9. \A i \in 1 .. n : f[i] = s[i]
  BY <1>1, <1>8
<1>10. f \in Seq(Docs) /\ f = Front(s)
  BY <1>3, <1>4, Zenon DEF f
<1> QED
  BY <1>1, <1>4, <1>5, <1>7, <1>9, <1>10

LEMMA HeadTyped ==
    ASSUME TypeOK, chain # <<>>
    PROVE  /\ Head(chain) \in Commits /\ Head(chain).value \in Edits
           /\ Tail(chain) \in Seq(Commits)
<1>1. Head(chain) \in Commits /\ Tail(chain) \in Seq(Commits)
  BY HeadTailProperties DEF TypeOK
<1> QED
  BY <1>1 DEF Commits

(* The open sketch takes a projection. *)
LEMMA PadTyped ==
    ASSUME NEW p \in Pads, NEW v \in Edits
    PROVE  LET q == [p EXCEPT !.proj = v]
           IN  q \in Pads /\ q # None /\ q.solved = p.solved
<1>1. [p EXCEPT !.proj = v] \in Pads /\ [p EXCEPT !.proj = v].solved = p.solved
  BY DEF Pads
<1> QED
  BY <1>1, NoneAssumption

LEMMA MutateTyped ==
    ASSUME TypeOK, NEW d \in Docs, NEW n \in Edits, Mutate(d, n)
    PROVE  /\ doc' \in Docs /\ doc' = [d EXCEPT !.step = n, !.after = doc.step]
           /\ undo' \in Seq(Docs) /\ Len(undo') <= UndoCap
           /\ redo' \in Seq(Docs)
<1>1. doc' \in Docs /\ doc' = [d EXCEPT !.step = n, !.after = doc.step]
  BY DEF Mutate, TypeOK, Docs
<1>2. undo' \in Seq(Docs) /\ Len(undo') <= UndoCap
  BY CappedAppend DEF Mutate, TypeOK
<1>3. redo' \in Seq(Docs)
  BY DEF Mutate, Cleared
<1> QED
  BY <1>1, <1>2, <1>3

LEMMA SentTyped ==
    ASSUME NEW d \in Docs, NEW v
    PROVE  Sent(d, v) \in Sendings /\ Sent(d, v) # None
BY NoneAssumption DEF Sent, Sendings, Docs, Sketches

LEMMA AtOnceTyped ==
    ASSUME TypeOK, NEW d \in Docs, NEW v, AtOnce(d, v)
    PROVE  /\ build' \in Sendings /\ build' # None
           /\ {again', due', failed', owed'} \subseteq BOOLEAN
           /\ due' = FALSE
           /\ again' \/ build' = Sent(d, v)
BY SentTyped, NoneAssumption DEF TypeOK, AtOnce

LEMMA SeveredTyped ==
    ASSUME TypeOK, Severed
    PROVE  /\ job' \in Jobs \cup {None}
           /\ job = None => job' = None
           /\ job # None => job' # None /\ job'.kind = job.kind /\ job'.live = FALSE
           /\ job # None /\ job.kind = "param" => job'.draft = job.draft
<1>1. CASE job = None
  BY <1>1 DEF Severed
<1>2. CASE job # None
  <2>1. job \in Jobs /\ job' = [job EXCEPT !.live = FALSE]
    BY <1>2 DEF TypeOK, Severed
  <2>2. job' \in Jobs /\ job'.kind = job.kind /\ job'.live = FALSE
        /\ (job.kind = "param" => job'.draft = job.draft)
    BY <2>1 DEF Jobs
  <2> QED
    BY <1>2, <2>2, NoneAssumption
<1> QED
  BY <1>1, <1>2
-----------------------------------------------------------------------------
(* Types.                                                                  *)

(* The draft of a commit that has taken what the solver answered. *)
LEMMA SolvedTyped ==
    ASSUME NEW sk \in Sketches, NEW n \in Edits, NEW ok \in BOOLEAN
    PROVE  /\ Solved(sk, n, ok) \in Sketches
           /\ ok => Solved(sk, n, ok).solved = n
           /\ Solved(sk, n, ok).shape = sk.shape
           /\ Solved(sk, n, ok).proj = sk.proj
BY DEF Solved, Sketches

LEMMA DraftTyped ==
    ASSUME TypeOK, DraftHasSketch, job # None, job.kind = "param", NEW ok \in BOOLEAN
    PROVE  LET d == [job.draft EXCEPT !.sketch = Solved(@, job.draft.param, ok)]
           IN  d \in Docs /\ d.sketch # None /\ (ok => d.sketch.solved = d.param)
<1>1. job \in Jobs
  BY DEF TypeOK
<1>2. job.draft \in Docs
  BY <1>1 DEF Jobs
<1>3. job.draft.sketch \in Sketches /\ job.draft.param \in Edits
  BY <1>2 DEF Docs, DraftHasSketch
<1> DEFINE sk == Solved(job.draft.sketch, job.draft.param, ok)
<1>4. sk \in Sketches /\ (ok => sk.solved = job.draft.param) /\ sk # None
  BY <1>3, SolvedTyped, NoneAssumption
<1> HIDE DEF sk
<1> QED
  BY <1>2, <1>4 DEF Docs, sk

LEMMA LandDraftTyped ==
    ASSUME TypeOK, NEW d \in Docs, LandDraft(d)
    PROVE  /\ doc' \in Docs
           /\ doc' = [d EXCEPT !.step = d.param, !.after = doc.step]
           /\ undo' \in Seq(Docs) /\ Len(undo') <= UndoCap
           /\ redo' \in Seq(Docs)
           /\ pad' \in Pads \cup {None}
           /\ pad = None <=> pad' = None
           /\ pad # None => pad'.solved = d.param
<1>1. d.param \in Edits
  BY DEF Docs
<1>2. Mutate(d, d.param)
  BY DEF LandDraft
<1>3. /\ pad' \in Pads \cup {None}
      /\ pad = None <=> pad' = None
      /\ pad # None => pad'.solved = d.param
  BY <1>1, NoneAssumption DEF LandDraft, Synced, TypeOK, Pads
<1> QED
  BY <1>1, <1>2, <1>3, MutateTyped

(* The count of refreshes and the view. *)
LEMMA ViewTyped ==
    ASSUME TypeOK, [Next]_vars
    PROVE  streak' \in Nat /\ view' \in Views
<1>1. streak \in Nat /\ view \in Views
  BY DEF TypeOK
<1>2. streak' \in {0, streak, streak + 1}
  BY DEF Next, vars, EditSolid, AddSketch, RemoveSketch, Undo, Redo, Load, New, OpenSketch,
         Finish, CancelSketch, SetParam, BeginParam, LandDraft, LandParam, BeginRefresh,
         LandRefresh, TimerFires, ChangeView, BuildEnds, Answered, Queued, Mutate
<1>3. view' \in Views
  BY <1>1
  DEF Next, vars, EditSolid, AddSketch, RemoveSketch, Undo, Redo, Load, New, OpenSketch,
      Finish, CancelSketch, SetParam, BeginParam, LandDraft, LandParam, BeginRefresh,
      LandRefresh, TimerFires, ChangeView, BuildEnds, PreviewEnds, Views, Previews
<1> QED
  BY <1>1, <1>2, <1>3

LEMMA TypeStep ==
    ASSUME TypeOK, DraftHasSketch, LiveJobIsCurrent, [Next]_vars
    PROVE  TypeOK'
<1>v. streak' \in Nat /\ view' \in Views
  BY ViewTyped
<1>0. Edits = 0 .. MaxSteps /\ MaxSteps \in Nat /\ MaxMoves \in Nat
  BY HistoryAssumption DEF Edits
<1>1. CASE EditSolid
  <2>1. Edit \in Edits /\ [doc EXCEPT !.solid = Edit] \in Docs
    BY <1>1, EditTyped DEF EditSolid, TypeOK, Docs, stacks, rebuild
  <2>2. doc' \in Docs
    BY <1>1, <2>1, MutateTyped DEF EditSolid
  <2>3. /\ build' \in Sendings \cup {None}
        /\ {again', due', failed', owed'} \subseteq BOOLEAN
        /\ again' => build' # None
    <3>1. CASE AtOnce(doc', view')
      BY <2>2, <3>1, AtOnceTyped
    <3>2. CASE Soon
      BY <3>2 DEF Soon, TypeOK
    <3> QED
      BY <1>v, <1>1, <3>1, <3>2 DEF EditSolid
  <2> QED
    BY <1>v, <1>1, <2>1, <2>3, EditTyped, MutateTyped DEF EditSolid, TypeOK, stacks, rebuild
<1>2. CASE AddSketch
  <2> DEFINE sk == [shape |-> Edit, proj |-> doc.solid, solved |-> doc.param]
  <2>1. Edit \in Edits /\ sk \in Sketches
    BY <1>2, EditTyped DEF AddSketch, TypeOK, Docs, Sketches, stacks, rebuild
  <2> HIDE DEF sk
  <2>2. [doc EXCEPT !.sketch = sk] \in Docs
    BY <2>1 DEF TypeOK, Docs
  <2> QED
    BY <1>v, <1>2, <2>1, <2>2, EditTyped, MutateTyped, AtOnceTyped DEF AddSketch, TypeOK, sk, stacks, rebuild
<1>3. CASE RemoveSketch
  <2>1. Edit \in Edits /\ [doc EXCEPT !.sketch = None] \in Docs
    BY <1>3, EditTyped DEF RemoveSketch, TypeOK, Docs, stacks, rebuild
  <2> QED
    BY <1>v, <1>3, <2>1, EditTyped, MutateTyped, AtOnceTyped, SeveredTyped
    DEF RemoveSketch, TypeOK, stacks, rebuild
<1>4. CASE Undo
  <2>1. /\ Last(undo) \in Docs /\ Front(undo) \in Seq(Docs)
        /\ Len(Front(undo)) <= UndoCap
    BY <1>4, FrontLast, HistoryAssumption DEF Undo, TypeOK, stacks, rebuild
  <2>2. Append(redo, doc) \in Seq(Docs)
    BY AppendProperties DEF TypeOK
  <2> QED
    BY <1>v, <1>4, <2>1, <2>2, MoveTyped, AtOnceTyped, SeveredTyped DEF Undo, TypeOK, stacks, rebuild
<1>5. CASE Redo
  <2>1. Last(redo) \in Docs /\ Front(redo) \in Seq(Docs)
    BY <1>5, FrontLast DEF Redo, TypeOK, stacks, rebuild
  <2>2. undo' \in Seq(Docs) /\ Len(undo') <= UndoCap
    BY <1>5, CappedAppend DEF Redo, TypeOK, stacks, rebuild
  <2> QED
    BY <1>v, <1>5, <2>1, <2>2, MoveTyped, AtOnceTyped, SeveredTyped DEF Redo, TypeOK, stacks, rebuild
<1>6. CASE Load
  <2>1. Edit \in Edits /\ Fresh(Edit, doc.step) \in Docs
    BY <1>6, EditTyped DEF Load, TypeOK, Docs, Fresh, Sketches, stacks, rebuild
  <2>2. undo' \in Seq(Docs) /\ Len(undo') <= UndoCap
    BY <1>6, CappedAppend DEF Load, TypeOK, stacks, rebuild
  <2>3. strayed' \in BOOLEAN
    BY <1>6 DEF Load, TypeOK, stacks, rebuild
  <2> QED
    BY <1>v, <1>6, <2>1, <2>2, <2>3, EditTyped, AtOnceTyped, SeveredTyped, EmptySeq
    DEF Load, TypeOK, stacks, rebuild
<1>7. CASE New
  <2>1. Edit \in Edits /\ Blank(Edit) \in Docs
    BY <1>7, EditTyped DEF New, TypeOK, Docs, Blank, Fresh, Sketches, stacks, rebuild
  <2>2. <<>> \in Seq(Docs) /\ Len(<<>>) <= UndoCap
    BY EmptySeq, HistoryAssumption
  <2> QED
    BY <1>v, <1>7, <2>1, <2>2, EditTyped, AtOnceTyped, SeveredTyped DEF New, TypeOK, stacks, rebuild
<1>8. CASE OpenSketch
  <2>1. doc.sketch \in Sketches
    BY <1>8 DEF OpenSketch, HasSketch, TypeOK, Docs, stacks, rebuild
  <2>2. [doc.sketch EXCEPT !.shape = None] \in Pads
    BY <2>1 DEF Sketches, Pads
  <2> QED
    BY <1>v, <1>8, <2>2, MoveTyped DEF OpenSketch, TypeOK, stacks, rebuild
<1>9. CASE Finish
  <2>1. Edit \in Edits /\ pad \in Pads
    BY <1>9, EditTyped DEF Finish, TypeOK, stacks, rebuild
  <2> DEFINE sk == IF HasSketch THEN [pad EXCEPT !.shape = Edit] ELSE None
  <2>2. sk \in Sketches \cup {None}
    BY <2>1 DEF Pads, Sketches
  <2> HIDE DEF sk
  <2>3. [doc EXCEPT !.sketch = sk] \in Docs
    BY <2>2 DEF TypeOK, Docs
  <2>4. Mutate([doc EXCEPT !.sketch = sk], Edit)
    BY <1>9 DEF Finish, sk
  <2> QED
    BY <1>v, <1>9, <2>1, <2>3, <2>4, EditTyped, MutateTyped, AtOnceTyped, SeveredTyped
    DEF Finish, TypeOK, stacks, rebuild
<1>10. CASE CancelSketch
  BY <1>v, <1>10 DEF CancelSketch, TypeOK, stacks, rebuild
<1>11. CASE SetParam
  <2>1. Edit \in Edits /\ [kind |-> "param", value |-> Edit] \in Commits
    BY <1>11, EditTyped DEF SetParam, Commits
  <2>2. chain' \in Seq(Commits)
    BY <1>11, <2>1, AppendProperties DEF SetParam, Enqueue, TypeOK, stacks, rebuild
  <2> QED
    BY <1>v, <1>11, <2>2, EditTyped DEF SetParam, TypeOK, stacks, rebuild
<1>12. CASE BeginParam
  <2>1. Head(chain) \in Commits /\ Tail(chain) \in Seq(Commits)
    BY <1>12, HeadTyped DEF BeginParam
  <2> DEFINE d == [doc EXCEPT !.param = Head(chain).value]
  <2>2. d \in Docs
    BY <2>1 DEF TypeOK, Docs, Commits
  <2> HIDE DEF d
  <2>3. CASE Skips
    <3>1. LandDraft(d) /\ strayed' = (strayed \/ HasSketch)
      BY <1>12, <2>3 DEF BeginParam, d
    <3>2. strayed' \in BOOLEAN
      BY <3>1 DEF TypeOK, HasSketch
    <3> QED
      BY <1>v, <1>12, <2>1, <2>2, <3>1, <3>2, LandDraftTyped
      DEF BeginParam, LandDraft, Soon, TypeOK, stacks, rebuild
  <2>4. CASE ~Skips
    <3>1. job' = [kind |-> "param", draft |-> d, live |-> TRUE]
      BY <1>12, <2>4 DEF BeginParam, d
    <3>2. job' \in Jobs
      BY <2>2, <3>1 DEF Jobs
    <3> QED
      BY <1>v, <1>12, <2>1, <2>4, <3>2 DEF BeginParam, TypeOK, stacks, rebuild
  <2> QED
    BY <2>3, <2>4
<1>13. CASE LandParam
  <2>1. PICK ok \in BOOLEAN :
            /\ LandDraft([job.draft EXCEPT !.sketch = Solved(@, job.draft.param, ok)])
            /\ strayed' = (strayed \/ ~ok)
    BY <1>13 DEF LandParam
  <2>2. [job.draft EXCEPT !.sketch = Solved(@, job.draft.param, ok)] \in Docs
    BY <1>13, DraftTyped DEF LandParam
  <2> QED
    BY <1>v, <1>13, <2>1, <2>2, LandDraftTyped DEF LandParam, LandDraft, Soon, TypeOK, stacks, rebuild
<1>14. CASE BeginRefresh
  <2>1. Head(chain) \in Commits /\ Tail(chain) \in Seq(Commits)
    BY <1>14, HeadTyped DEF BeginRefresh
  <2>2. Head(chain).value \in Edits
    BY <2>1 DEF Commits
  <2>3. CASE Skips
    <3>1. pad' \in Pads \cup {None}
      BY <1>14, <2>2, <2>3 DEF BeginRefresh, Skips, TypeOK, Pads, stacks, rebuild
    <3> QED
      BY <1>v, <1>14, <2>1, <2>3, <3>1 DEF BeginRefresh, TypeOK, stacks, rebuild
  <2>4. CASE ~Skips
    <3>1. doc.sketch \in Sketches /\ doc.param \in Edits
      BY <2>4 DEF Skips, HasSketch, TypeOK, Docs
    <3>2. [doc.sketch EXCEPT !.proj = Head(chain).value] \in Sketches
      BY <2>2, <3>1 DEF Sketches
    <3> DEFINE sk == [doc.sketch EXCEPT !.proj = Head(chain).value]
    <3> HIDE DEF sk
    <3>3. job' = [kind |-> "refresh", live |-> TRUE, param |-> doc.param, sketch |-> sk]
      BY <1>14, <2>4 DEF BeginRefresh, sk
    <3>4. job' \in Jobs
      BY <3>1, <3>2, <3>3 DEF Jobs, sk
    <3> QED
      BY <1>v, <1>14, <2>1, <2>4, <3>4 DEF BeginRefresh, TypeOK, stacks, rebuild
  <2> QED
    BY <2>3, <2>4
<1>15. CASE LandRefresh
  <2>1. job \in Jobs /\ job.kind = "refresh"
    BY <1>15 DEF LandRefresh, TypeOK, stacks, rebuild
  <2>2. job.sketch \in Sketches /\ job.param \in Edits
    BY <2>1 DEF Jobs
  <2>3. CASE SameObject
    <3>1. PICK ok \in BOOLEAN :
              /\ doc' = [doc EXCEPT !.sketch = Solved(job.sketch, job.param, ok)]
              /\ strayed' = (strayed \/ ~ok)
      BY <1>15, <2>3 DEF LandRefresh
    <3>2. doc' \in Docs
      BY <2>2, <3>1, SolvedTyped DEF TypeOK, Docs
    <3>3. AtOnce(doc', view) /\ view' = view
      BY <1>15, <2>3 DEF LandRefresh
    <3> QED
      BY <1>v, <1>15, <3>1, <3>2, <3>3, AtOnceTyped DEF LandRefresh, TypeOK, stacks, rebuild
  <2>4. CASE ~SameObject
    BY <1>v, <1>15, <2>4 DEF LandRefresh, TypeOK, stacks, rebuild
  <2> QED
    BY <2>3, <2>4
<1>16. CASE TimerFires
  <2>1. AtOnce(doc, view) /\ doc \in Docs
    BY <1>16 DEF TimerFires, TypeOK, stacks, rebuild
  <2> QED
    BY <1>v, <1>16, <2>1, AtOnceTyped DEF TimerFires, TypeOK, stacks, rebuild
<1>17. CASE ChangeView
  <2>1. AtOnce(doc, view') /\ doc \in Docs /\ UNCHANGED <<doc, undo, redo, chain, job, pad, strayed>>
    BY <1>17 DEF ChangeView, TypeOK, stacks
  <2> QED
    BY <1>v, <1>17, <2>1, MoveTyped, AtOnceTyped DEF ChangeView, TypeOK
<1>18. CASE BuildEnds
  <2>1. build \in Sendings /\ Answered
    BY <1>18 DEF BuildEnds, TypeOK
  <2>2. chain' \in Seq(Commits)
    <3>1. [kind |-> "refresh", value |-> build.source] \in Commits
      BY <2>1 DEF Sendings, Commits
    <3>2. Append(chain, [kind |-> "refresh", value |-> build.source]) \in Seq(Commits)
      BY <3>1, AppendProperties DEF TypeOK
    <3> QED
      BY <2>1, <3>2 DEF Answered, Queued, Enqueue, TypeOK
  <2>3. build' \in Sendings \cup {None} /\ owed' \in BOOLEAN /\ failed' \in BOOLEAN
    BY <1>18, <2>1, SentTyped DEF BuildEnds, Answered, NextBuild, TypeOK
  <2>4. steps' \in Edits /\ moves' \in 0 .. MaxMoves
    BY <2>1, MoveTyped DEF Answered, TypeOK
  <2> QED
    BY <1>v, <1>18, <2>2, <2>3, <2>4 DEF BuildEnds, TypeOK, stacks
<1>19. CASE UNCHANGED vars
  BY <1>v, <1>19 DEF vars, TypeOK, stacks, rebuild
<1> QED
  BY <1>1, <1>2, <1>3, <1>4, <1>5, <1>6, <1>7, <1>8, <1>9, <1>10, <1>11, <1>12,
     <1>13, <1>14, <1>15, <1>16, <1>17, <1>18, <1>19
  DEF Next
-----------------------------------------------------------------------------
(* Undo and redo.                                                          *)

(* A step that puts the document on the undo stack and another that        *)
(* follows it in its place.                                                *)
LEMMA PushedIsAChain ==
    ASSUME TypeOK, UndoIsAChain, undo' = Capped(Append(undo, doc)),
           doc'.after = doc.step
    PROVE  UndoIsAChain'
<1> DEFINE k == IF Len(undo) = UndoCap THEN 1 ELSE 0
<1>1. Len(undo) \in Nat /\ k \in {0, 1}
  BY DEF TypeOK
<1>2. /\ Len(undo') = Len(undo) + 1 - k
      /\ Len(undo') > 0
      /\ undo'[Len(undo')] = doc
      /\ \A i \in 1 .. Len(undo') - 1 :
            i + k \in 1 .. Len(undo) /\ undo'[i] = undo[i + k]
  BY CappedAppend DEF TypeOK
<1>3. undo # <<>> <=> Len(undo) > 0
  BY EmptySeq DEF TypeOK
<1> HIDE DEF k
<1>4. ASSUME NEW i \in 1 .. Len(undo') - 1
      PROVE  undo'[i + 1].after = undo'[i].step
  <2>1. undo'[i] = undo[i + k] /\ i + k \in 1 .. Len(undo)
    BY <1>2
  <2>2. CASE i = Len(undo') - 1
    <3>1. i + k = Len(undo) /\ i + 1 = Len(undo')
      BY <1>1, <1>2, <2>2
    <3>2. undo'[i + 1] = doc /\ doc.after = undo[Len(undo)].step
      BY <1>1, <1>2, <1>3, <2>1, <3>1 DEF UndoIsAChain
    <3> QED
      BY <2>1, <3>1, <3>2
  <2>3. CASE i # Len(undo') - 1
    <3>1. i + 1 \in 1 .. Len(undo') - 1 /\ i + k \in 1 .. Len(undo) - 1
      BY <1>1, <1>2, <2>1, <2>3
    <3>2. undo'[i + 1] = undo[(i + k) + 1]
      BY <1>1, <1>2, <3>1
    <3> QED
      BY <2>1, <3>1, <3>2 DEF UndoIsAChain
  <2> QED
    BY <2>2, <2>3
<1> QED
  BY <1>2, <1>4 DEF UndoIsAChain

LEMMA MutateChains ==
    ASSUME TypeOK, UndoIsAChain, NEW d \in Docs, NEW n \in Edits, Mutate(d, n)
    PROVE  UndoIsAChain' /\ RedoIsAChain'
<1>1. doc'.after = doc.step
  BY MutateTyped DEF Docs
<1>2. undo' = Capped(Append(undo, doc)) /\ redo' = <<>>
  BY DEF Mutate, Cleared
<1>3. UndoIsAChain'
  BY <1>1, <1>2, PushedIsAChain
<1>4. RedoIsAChain'
  BY <1>2 DEF RedoIsAChain
<1> QED
  BY <1>3, <1>4

(* The stacks with the document between them hold the same steps whatever  *)
(* else of the document changes.                                           *)
LEMMA ChainsUnmoved ==
    ASSUME UndoIsAChain, RedoIsAChain, undo' = undo, redo' = redo,
           doc'.after = doc.after, doc'.step = doc.step
    PROVE  UndoIsAChain' /\ RedoIsAChain'
BY DEF UndoIsAChain, RedoIsAChain

LEMMA ChainStep ==
    ASSUME TypeOK, UndoIsAChain, RedoIsAChain, DraftHasSketch, LiveJobIsCurrent,
           [Next]_vars
    PROVE  UndoIsAChain' /\ RedoIsAChain'
<1>0. doc \in Docs /\ undo \in Seq(Docs) /\ redo \in Seq(Docs)
  BY DEF TypeOK
<1>1. CASE EditSolid
  <2>1. Edit \in Edits /\ [doc EXCEPT !.solid = Edit] \in Docs
    BY <1>1, EditTyped DEF EditSolid, TypeOK, Docs
  <2> QED
    BY <1>1, <2>1, MutateChains DEF EditSolid
<1>2. CASE AddSketch
  <2> DEFINE sk == [shape |-> Edit, proj |-> doc.solid, solved |-> doc.param]
  <2>1. Edit \in Edits /\ sk \in Sketches
    BY <1>2, EditTyped DEF AddSketch, TypeOK, Docs, Sketches
  <2> HIDE DEF sk
  <2>2. [doc EXCEPT !.sketch = sk] \in Docs
    BY <2>1 DEF TypeOK, Docs
  <2> QED
    BY <1>2, <2>1, <2>2, MutateChains DEF AddSketch, sk
<1>3. CASE RemoveSketch
  <2>1. Edit \in Edits /\ [doc EXCEPT !.sketch = None] \in Docs
    BY <1>3, EditTyped DEF RemoveSketch, TypeOK, Docs
  <2> QED
    BY <1>3, <2>1, MutateChains DEF RemoveSketch
<1>4. CASE Undo
  <2>1. /\ undo # <<>> /\ doc' = Last(undo) /\ undo' = Front(undo)
        /\ redo' = Append(redo, doc)
    BY <1>4 DEF Undo
  <2>2. /\ Len(undo') = Len(undo) - 1 /\ Len(undo) > 0 /\ Len(undo) \in Nat
        /\ undo' \in Seq(Docs)
        /\ \A i \in 1 .. Len(undo) - 1 : undo'[i] = undo[i]
        /\ doc' = undo[Len(undo)]
    BY <1>0, <2>1, FrontLast, LenProperties
  <2>3. /\ redo' # <<>> /\ Len(redo') = Len(redo) + 1 /\ Len(redo) \in Nat
        /\ \A i \in 1 .. Len(redo) : redo'[i] = redo[i]
        /\ redo'[Len(redo) + 1] = doc
    BY <1>0, <2>1, AppendProperties
  <2>4. UndoIsAChain'
    <3>1. ASSUME NEW i \in 1 .. Len(undo') - 1
          PROVE  undo'[i + 1].after = undo'[i].step
      <4>1. i \in 1 .. Len(undo) - 1 /\ i + 1 \in 1 .. Len(undo) - 1
        BY <2>2
      <4> QED
        BY <2>2, <4>1 DEF UndoIsAChain
    <3>2. ASSUME undo' # <<>>
          PROVE  doc'.after = undo'[Len(undo')].step
      <4>1. Len(undo') > 0
        BY <2>2, <3>2, EmptySeq
      <4>2. Len(undo) - 1 \in 1 .. Len(undo) - 1 /\ Len(undo) = (Len(undo) - 1) + 1
        BY <2>2, <4>1
      <4>3. undo[(Len(undo) - 1) + 1].after = undo[Len(undo) - 1].step
        BY <4>2 DEF UndoIsAChain
      <4> QED
        BY <2>2, <4>2, <4>3
    <3> QED
      BY <3>1, <3>2 DEF UndoIsAChain
  <2>5. RedoIsAChain'
    <3>1. redo'[Len(redo')].after = doc'.step
      BY <2>1, <2>2, <2>3 DEF UndoIsAChain
    <3>2. ASSUME NEW i \in 1 .. Len(redo') - 1
          PROVE  redo'[i].after = redo'[i + 1].step
      <4>1. i \in 1 .. Len(redo)
        BY <2>3
      <4>2. CASE i = Len(redo)
        <5>1. redo # <<>>
          BY <4>1, <4>2
        <5> QED
          BY <2>3, <4>1, <4>2, <5>1 DEF RedoIsAChain
      <4>3. CASE i # Len(redo)
        BY <2>3, <4>1, <4>3 DEF RedoIsAChain
      <4> QED
        BY <4>2, <4>3
    <3> QED
      BY <3>1, <3>2 DEF RedoIsAChain
  <2> QED
    BY <2>4, <2>5
<1>5. CASE Redo
  <2>1. /\ redo # <<>> /\ doc' = Last(redo) /\ redo' = Front(redo)
        /\ undo' = Capped(Append(undo, doc))
    BY <1>5 DEF Redo
  <2>2. /\ Len(redo') = Len(redo) - 1 /\ Len(redo) > 0 /\ Len(redo) \in Nat
        /\ redo' \in Seq(Docs)
        /\ \A i \in 1 .. Len(redo) - 1 : redo'[i] = redo[i]
        /\ doc' = redo[Len(redo)]
    BY <1>0, <2>1, FrontLast, LenProperties
  <2>3. doc'.after = doc.step
    BY <2>1, <2>2 DEF RedoIsAChain
  <2>4. UndoIsAChain'
    BY <2>1, <2>3, PushedIsAChain
  <2>5. RedoIsAChain'
    <3>1. ASSUME redo' # <<>>
          PROVE  redo'[Len(redo')].after = doc'.step
      <4>1. Len(redo') > 0
        BY <2>2, <3>1, EmptySeq
      <4>2. Len(redo) - 1 \in 1 .. Len(redo) - 1 /\ Len(redo) = (Len(redo) - 1) + 1
        BY <2>2, <4>1
      <4>3. redo[Len(redo) - 1].after = redo[(Len(redo) - 1) + 1].step
        BY <4>2 DEF RedoIsAChain
      <4> QED
        BY <2>2, <4>2, <4>3
    <3>2. ASSUME NEW i \in 1 .. Len(redo') - 1
          PROVE  redo'[i].after = redo'[i + 1].step
      <4>1. i \in 1 .. Len(redo) - 1 /\ i + 1 \in 1 .. Len(redo) - 1
        BY <2>2
      <4> QED
        BY <2>2, <4>1 DEF RedoIsAChain
    <3> QED
      BY <3>1, <3>2 DEF RedoIsAChain
  <2> QED
    BY <2>4, <2>5
<1>6. CASE Load
  <2>1. undo' = Capped(Append(undo, doc)) /\ redo' = <<>> /\ doc'.after = doc.step
    BY <1>6 DEF Load, Fresh
  <2> QED
    BY <2>1, PushedIsAChain DEF RedoIsAChain
<1>7. CASE New
  BY <1>7 DEF New, UndoIsAChain, RedoIsAChain
<1>8. CASE Finish
  <2>1. Edit \in Edits /\ pad \in Pads
    BY <1>8, EditTyped DEF Finish, TypeOK
  <2> DEFINE sk == IF HasSketch THEN [pad EXCEPT !.shape = Edit] ELSE None
  <2>2. sk \in Sketches \cup {None}
    BY <2>1 DEF Pads, Sketches
  <2> HIDE DEF sk
  <2>3. [doc EXCEPT !.sketch = sk] \in Docs
    BY <2>2 DEF TypeOK, Docs
  <2>4. Mutate([doc EXCEPT !.sketch = sk], Edit)
    BY <1>8 DEF Finish, sk
  <2> QED
    BY <2>1, <2>3, <2>4, MutateChains
<1>9. ASSUME NEW d \in Docs, LandDraft(d)
      PROVE  UndoIsAChain' /\ RedoIsAChain'
  BY <1>9, MutateChains DEF LandDraft, Docs
<1>10. CASE BeginParam
  <2>1. Head(chain) \in Commits
    BY <1>10, HeadTyped DEF BeginParam
  <2> DEFINE d == [doc EXCEPT !.param = Head(chain).value]
  <2>2. d \in Docs
    BY <2>1 DEF TypeOK, Docs, Commits
  <2> HIDE DEF d
  <2>3. CASE Skips
    BY <1>9, <1>10, <2>2, <2>3 DEF BeginParam, d
  <2>4. CASE ~Skips
    BY <1>10, <2>4, ChainsUnmoved DEF BeginParam, stacks
  <2> QED
    BY <2>3, <2>4
<1>11. CASE LandParam
  BY <1>9, <1>11, DraftTyped DEF LandParam
<1>12. CASE LandRefresh
  <2>1. undo' = undo /\ redo' = redo /\ doc'.after = doc.after /\ doc'.step = doc.step
    BY <1>0, <1>12 DEF LandRefresh, Docs, stacks
  <2> QED
    BY <2>1, ChainsUnmoved
<1>13. CASE UNCHANGED <<doc, undo, redo>>
  BY <1>13, ChainsUnmoved
<1> QED
  BY <1>1, <1>2, <1>3, <1>4, <1>5, <1>6, <1>7, <1>8, <1>10, <1>11, <1>12, <1>13
  DEF Next, vars, OpenSketch, CancelSketch, SetParam, BeginRefresh, TimerFires, ChangeView,
      BuildEnds, stacks
-----------------------------------------------------------------------------
(* The commit that waits for the solver.                                   *)

LEMMA SeveredJob ==
    ASSUME TypeOK, DraftHasSketch, Severed
    PROVE  LiveJobIsCurrent' /\ DraftHasSketch'
BY SeveredTyped DEF LiveJobIsCurrent, DraftHasSketch

LEMMA JobStep ==
    ASSUME TypeOK, LiveJobIsCurrent, DraftHasSketch, [Next]_vars
    PROVE  LiveJobIsCurrent' /\ DraftHasSketch'
<1>1. CASE EditSolid
  <2>1. Edit \in Edits /\ [doc EXCEPT !.solid = Edit] \in Docs
    BY <1>1, EditTyped DEF EditSolid, TypeOK, Docs
  <2> DEFINE d == [doc EXCEPT !.solid = Edit]
  <2>2. d.sketch = doc.sketch /\ d.param = doc.param
    BY DEF Docs, TypeOK
  <2> HIDE DEF d
  <2>3. doc' = [d EXCEPT !.step = Edit, !.after = doc.step] /\ d \in Docs
    BY <1>1, <2>1, MutateTyped DEF EditSolid, d
  <2>4. doc'.sketch = doc.sketch /\ doc'.param = doc.param
    BY <2>2, <2>3 DEF Docs
  <2> QED
    BY <1>1, <2>4 DEF EditSolid, LiveJobIsCurrent, DraftHasSketch, HasSketch
<1>2. CASE AddSketch
  BY <1>2 DEF AddSketch, LiveJobIsCurrent, DraftHasSketch, HasSketch
<1>3. CASE Severed
  BY <1>3, SeveredJob
<1>4. CASE BeginParam \/ LandParam \/ LandRefresh
  <2>1. CASE job' = None
    BY <2>1 DEF LiveJobIsCurrent, DraftHasSketch
  <2>2. CASE BeginParam /\ ~Skips
    <3>1. job' = [kind |-> "param", live |-> TRUE,
                  draft |-> [doc EXCEPT !.param = Head(chain).value]]
      BY <2>2 DEF BeginParam
    <3>2. job'.kind = "param" /\ job'.draft.sketch = doc.sketch
      BY <3>1 DEF TypeOK, Docs
    <3> QED
      BY <2>2, <3>2 DEF Skips, HasSketch, LiveJobIsCurrent, DraftHasSketch
  <2> QED
    BY <1>4, <2>1, <2>2 DEF BeginParam, LandParam, LandRefresh, LandDraft
<1>5. CASE BeginRefresh
  <2>1. CASE Skips
    BY <1>5, <2>1 DEF BeginRefresh, LiveJobIsCurrent, DraftHasSketch
  <2>2. CASE ~Skips
    <3>1. doc.sketch \in Sketches
      BY <2>2 DEF Skips, HasSketch, TypeOK, Docs
    <3> DEFINE sk == [doc.sketch EXCEPT !.proj = Head(chain).value]
    <3>2. sk.shape = doc.sketch.shape
      BY <3>1 DEF Sketches
    <3> HIDE DEF sk
    <3>3. /\ job' = [kind |-> "refresh", live |-> TRUE, param |-> doc.param, sketch |-> sk]
          /\ doc' = doc
      BY <1>5, <2>2 DEF BeginRefresh, sk
    <3> QED
      BY <2>2, <3>2, <3>3 DEF Skips, HasSketch, LiveJobIsCurrent, DraftHasSketch
  <2> QED
    BY <2>1, <2>2
<1>6. CASE UNCHANGED <<doc, job>>
  BY <1>6 DEF LiveJobIsCurrent, DraftHasSketch, HasSketch
<1> QED
  BY <1>1, <1>2, <1>3, <1>4, <1>5, <1>6
  DEF Next, vars, RemoveSketch, Undo, Redo, Load, New, OpenSketch, Finish,
      CancelSketch, SetParam, TimerFires, ChangeView, BuildEnds
-----------------------------------------------------------------------------
(* What is stale is looked at.                                             *)

(* A document that a rebuild starts with, or that one is scheduled for, is *)
(* looked at. *)
LEMMA ScheduledIsOwed ==
    ASSUME TypeOK, doc' \in Docs, AtOnce(doc', view') \/ Soon
    PROVE  StaleIsOwed' /\ BuildIsCurrent'
<1>1. CASE AtOnce(doc', view')
  BY <1>1, AtOnceTyped DEF StaleIsOwed, BuildIsCurrent
<1>2. CASE Soon
  BY <1>2 DEF StaleIsOwed, BuildIsCurrent, Soon
<1> QED
  BY <1>1, <1>2

(* The end of a good build that was sent the document as it is: a stale    *)
(* sketch is reported.                                                     *)
LEMMA StaleIsReported ==
    ASSUME TypeOK, HasSketch, doc.sketch.proj # doc.solid, view = "whole",
           build = Sent(doc, view), build # None, ~again, Answered
    PROVE  failed' \/ Shut' \/ chain' # <<>>
<1>1. doc.sketch \in Sketches
  BY DEF TypeOK, Docs, HasSketch
<1>2. build.shown = doc.sketch.proj /\ build.source = doc.solid
  BY DEF Sent, HasSketch
<1>3. build.shown # None
  BY <1>1, <1>2, NoneAssumption DEF Sketches
<1>4. Stale
  BY <1>2, <1>3 DEF Stale
<1>5. failed' \/ Queued(TRUE)
  BY <1>4 DEF Answered
<1>6. Append(chain, [kind |-> "refresh", value |-> build.source]) # <<>>
  BY AppendProperties DEF TypeOK
<1>7. CASE Queued(TRUE)
  <2>1. view \notin Previews
    BY DEF Previews
  <2>2. streak' = streak /\ (Shut \/ chain' # <<>>)
    BY <1>6, <1>7, <2>1 DEF Queued, Enqueue
  <2> QED
    BY <2>2 DEF Shut
<1> QED
  BY <1>5, <1>7

LEMMA StaleStep ==
    ASSUME TypeOK, TypeOK', LiveJobIsCurrent, BuildIsCurrent, StaleIsOwed, [Next]_vars
    PROVE  StaleIsOwed' /\ BuildIsCurrent'
<1>0. doc' \in Docs
  BY DEF TypeOK
<1>1. CASE AtOnce(doc', view') \/ Soon
  BY <1>0, <1>1, ScheduledIsOwed
<1>a. CASE AtOnce(doc', view) /\ view' = view
  <2>1. AtOnce(doc', view')
    BY <1>a
  <2> QED
    BY <1>1, <2>1
<1>2. CASE OpenSketch
  <2>1. doc.sketch \in Sketches
    BY <1>2 DEF OpenSketch, HasSketch, TypeOK, Docs
  <2>2. pad' \in Pads
    BY <1>2, <2>1 DEF OpenSketch, Sketches, Pads
  <2> QED
    BY <1>2, <2>2, NoneAssumption DEF OpenSketch, rebuild, StaleIsOwed, BuildIsCurrent
<1>3. CASE CancelSketch
  BY <1>3 DEF CancelSketch, StaleIsOwed, BuildIsCurrent
<1>4. CASE SetParam
  <2>1. chain' # <<>>
    BY <1>4, AppendProperties DEF SetParam, Enqueue, TypeOK
  <2> QED
    BY <1>4, <2>1 DEF SetParam, rebuild, StaleIsOwed, BuildIsCurrent
<1>5. CASE BeginParam
  <2>1. CASE Skips
    BY <1>1, <1>5, <2>1 DEF BeginParam, LandDraft
  <2>2. CASE ~Skips
    <3>1. job' = [kind |-> "param", live |-> TRUE,
                  draft |-> [doc EXCEPT !.param = Head(chain).value]]
      BY <1>5, <2>2 DEF BeginParam
    <3> DEFINE d == [doc EXCEPT !.param = Head(chain).value]
    <3>2. Head(chain).value \in Edits
      BY <1>5, HeadTyped DEF BeginParam
    <3>3. d \in Docs
      BY <3>2 DEF TypeOK, Docs
    <3> HIDE DEF d
    <3>4. job' = [kind |-> "param", live |-> TRUE, draft |-> d]
      BY <3>1 DEF d
    <3>5. job' \in Jobs /\ job'.kind = "param"
      BY <3>3, <3>4 DEF Jobs
    <3>6. job'.kind = "param" /\ job' # None
      BY <3>5, NoneAssumption
    <3> QED
      BY <1>5, <2>2, <3>6 DEF BeginParam, rebuild, StaleIsOwed, BuildIsCurrent
  <2> QED
    BY <2>1, <2>2
<1>6. CASE BeginRefresh
  <2>0. Head(chain).value \in Edits
    BY <1>6, HeadTyped DEF BeginRefresh
  <2>1. CASE Skips
    <3>1. pad # None => pad' # None
      BY <1>6, <2>0, <2>1, PadTyped DEF BeginRefresh, TypeOK
    <3> QED
      BY <1>6, <2>1, <3>1
      DEF BeginRefresh, Skips, StaleIsOwed, BuildIsCurrent, HasSketch, rebuild
  <2>2. CASE ~Skips
    <3>0. doc.sketch \in Sketches /\ doc.param \in Edits
      BY <2>2 DEF Skips, HasSketch, TypeOK, Docs
    <3> DEFINE sk == [doc.sketch EXCEPT !.proj = Head(chain).value]
    <3>sk. sk \in Sketches
      BY <2>0, <3>0 DEF Sketches
    <3> HIDE DEF sk
    <3>1. job' = [kind |-> "refresh", live |-> TRUE, param |-> doc.param, sketch |-> sk]
      BY <1>6, <2>2 DEF BeginRefresh, sk
    <3>2. job' \in Jobs /\ job'.live
      BY <3>0, <3>sk, <3>1 DEF Jobs
    <3>3. job' # None /\ job'.live
      BY <3>2, NoneAssumption
    <3> QED
      BY <1>6, <3>3 DEF BeginRefresh, rebuild, StaleIsOwed, BuildIsCurrent
  <2> QED
    BY <2>1, <2>2
<1>7. CASE LandRefresh
  <2>1. CASE SameObject
    BY <1>a, <1>7, <2>1 DEF LandRefresh
  <2>2. CASE ~SameObject
    BY <1>7, <2>2
    DEF LandRefresh, SameObject, StaleIsOwed, BuildIsCurrent, HasSketch, Shut, rebuild
  <2> QED
    BY <2>1, <2>2
<1>8. CASE TimerFires
  <2>1. AtOnce(doc', view) /\ view' = view
    BY <1>8 DEF TimerFires
  <2> QED
    BY <1>a, <2>1
<1>9. CASE BuildEnds
  <2>1. /\ doc' = doc /\ pad' = pad /\ job' = job /\ due' = due /\ view' = view
        /\ build # None /\ Answered
    BY <1>9 DEF BuildEnds
  <2>2. CASE again
    <3>1. build' = Sent(doc', view') /\ build' # None
      BY <1>9, <2>1, <2>2, SentTyped DEF BuildEnds, NextBuild, TypeOK
    <3> QED
      BY <3>1 DEF StaleIsOwed, BuildIsCurrent
  <2>3. CASE ~again
    <3>1. build' = None /\ owed' = owed
      BY <1>9, <2>3 DEF BuildEnds, NextBuild, TypeOK
    <3>2. BuildIsCurrent'
      BY <3>1 DEF BuildIsCurrent
    <3>3. CASE ~(HasSketch /\ doc.sketch.proj # doc.solid /\ view = "whole")
      BY <2>1, <3>2, <3>3 DEF StaleIsOwed, HasSketch
    <3>4. CASE due
      BY <2>1, <3>2, <3>4 DEF StaleIsOwed
    <3>5. CASE HasSketch /\ doc.sketch.proj # doc.solid /\ view = "whole" /\ ~due
      <4>1. build = Sent(doc, view)
        BY <2>1, <2>3, <3>5 DEF BuildIsCurrent
      <4>2. failed' \/ Shut' \/ chain' # <<>>
        BY <2>1, <2>3, <3>5, <4>1, StaleIsReported
      <4> QED
        BY <3>2, <4>2 DEF StaleIsOwed
    <3> QED
      BY <3>2, <3>3, <3>4, <3>5
  <2> QED
    BY <2>2, <2>3
<1>10. CASE ChangeView
  <2>1. AtOnce(doc', view')
    BY <1>10 DEF ChangeView
  <2> QED
    BY <1>1, <2>1
<1>11. CASE UNCHANGED vars
  BY <1>11 DEF vars, rebuild, StaleIsOwed, BuildIsCurrent, HasSketch, Shut
<1>12. CASE EditSolid \/ AddSketch \/ RemoveSketch \/ Load \/ New
  <2>1. AtOnce(doc', view') \/ Soon
    BY <1>12 DEF EditSolid, AddSketch, RemoveSketch, Load, New
  <2> QED
    BY <1>1, <2>1
<1>13. CASE Undo \/ Redo \/ Finish
  <2>1. AtOnce(doc', view) /\ view' = view
    BY <1>13 DEF Undo, Redo, Finish
  <2> QED
    BY <1>a, <2>1
<1>14. CASE LandParam
  BY <1>1, <1>14 DEF LandParam, LandDraft
<1> QED
  BY <1>2, <1>3, <1>4, <1>5, <1>6, <1>7, <1>8, <1>9, <1>10, <1>11, <1>12, <1>13, <1>14
  DEF Next
-----------------------------------------------------------------------------
(* What is solved for the parameter.                                       *)

(* A document that is satisfied, put where undo finds it. *)
LEMMA PushedSatisfied ==
    ASSUME TypeOK, NEW d \in Docs, Satisfied(d),
           \A i \in 1 .. Len(undo) : Satisfied(undo[i]),
           undo' = Capped(Append(undo, d))
    PROVE  \A i \in 1 .. Len(undo') : Satisfied(undo'[i])
<1> DEFINE k == IF Len(undo) = UndoCap THEN 1 ELSE 0
<1>1. /\ Len(undo') > 0 /\ Len(undo') = Len(undo) + 1 - k /\ undo'[Len(undo')] = d
      /\ \A i \in 1 .. Len(undo') - 1 : i + k \in 1 .. Len(undo) /\ undo'[i] = undo[i + k]
  BY CappedAppend DEF TypeOK
<1>2. Len(undo) \in Nat /\ k \in {0, 1}
  BY DEF TypeOK
<1> HIDE DEF k
<1> SUFFICES ASSUME NEW i \in 1 .. Len(undo') PROVE Satisfied(undo'[i])
  OBVIOUS
<1>3. CASE i = Len(undo')
  BY <1>1, <1>3
<1>4. CASE i # Len(undo')
  BY <1>1, <1>2, <1>4
<1> QED
  BY <1>3, <1>4

(* An edit that leaves a satisfied document, with the editor in step. *)
LEMMA MutateSatisfied ==
    ASSUME TypeOK, AllSatisfied, NEW d \in Docs, NEW n \in Edits, Mutate(d, n),
           strayed' = strayed, Satisfied(d),
           pad' # None /\ d.sketch # None => pad'.solved = d.param
    PROVE  AllSatisfied'
<1>1. CASE strayed
  BY <1>1 DEF AllSatisfied
<1>2. CASE ~strayed
  <2>1. /\ Satisfied(doc)
        /\ \A i \in 1 .. Len(undo) : Satisfied(undo[i])
    BY <1>2 DEF AllSatisfied
  <2>2. /\ doc'.sketch = d.sketch /\ doc'.param = d.param
        /\ undo' = Capped(Append(undo, doc)) /\ redo' = <<>>
    BY MutateTyped DEF Mutate, Cleared, Docs
  <2>3. \A i \in 1 .. Len(undo') : Satisfied(undo'[i])
    BY <2>1, <2>2, PushedSatisfied DEF TypeOK
  <2>4. \A i \in 1 .. Len(redo') : Satisfied(redo'[i])
    BY <2>2
  <2>5. Satisfied(doc')
    BY <2>2 DEF Satisfied
  <2> QED
    BY <2>2, <2>3, <2>4, <2>5 DEF AllSatisfied, HasSketch
<1> QED
  BY <1>1, <1>2

(* A commit lands: the draft was solved, or the document has strayed. *)
LEMMA LandDraftSatisfied ==
    ASSUME TypeOK, AllSatisfied, NEW d \in Docs, LandDraft(d),
           strayed' = strayed, Satisfied(d)
    PROVE  AllSatisfied'
<1>1. pad' # None => pad'.solved = d.param
  BY LandDraftTyped
<1>2. Mutate(d, d.param) /\ d.param \in Edits
  BY DEF LandDraft, Docs
<1> QED
  BY <1>1, <1>2, MutateSatisfied

LEMMA SatisfiedStep ==
    ASSUME TypeOK, TypeOK', LiveJobIsCurrent, DraftHasSketch, AllSatisfied,
           [Next]_vars
    PROVE  AllSatisfied'
<1>0. CASE strayed'
  BY <1>0 DEF AllSatisfied
<1> SUFFICES ASSUME ~strayed' PROVE AllSatisfied'
  BY <1>0
<1>1. ~strayed
  BY DEF TypeOK, Next, vars, EditSolid, AddSketch, RemoveSketch, Undo, Redo, Load, New,
         OpenSketch, Finish, CancelSketch, SetParam, BeginParam, LandDraft, LandParam,
         BeginRefresh, LandRefresh, TimerFires, ChangeView, BuildEnds
<1>2. /\ strayed' = strayed
      /\ Satisfied(doc)
      /\ \A i \in 1 .. Len(undo) : Satisfied(undo[i])
      /\ \A i \in 1 .. Len(redo) : Satisfied(redo[i])
      /\ pad # None /\ HasSketch => pad.solved = doc.param
  BY <1>1 DEF AllSatisfied, TypeOK
<1>3. CASE EditSolid
  <2>1. Edit \in Edits
    BY <1>3, EditTyped DEF EditSolid
  <2> DEFINE d == [doc EXCEPT !.solid = Edit]
  <2>2. d \in Docs /\ d.sketch = doc.sketch /\ d.param = doc.param
    BY <2>1 DEF TypeOK, Docs
  <2> HIDE DEF d
  <2>3. Mutate(d, Edit) /\ pad' = pad
    BY <1>3 DEF EditSolid, d
  <2> QED
    BY <1>2, <2>1, <2>2, <2>3, MutateSatisfied DEF Satisfied, HasSketch
<1>4. CASE AddSketch
  <2> DEFINE sk == [shape |-> Edit, proj |-> doc.solid, solved |-> doc.param]
             d == [doc EXCEPT !.sketch = sk]
  <2>1. Edit \in Edits /\ sk \in Sketches /\ sk.solved = doc.param
    BY <1>4, EditTyped DEF AddSketch, TypeOK, Docs, Sketches
  <2>2. Mutate(d, Edit) /\ pad' = None
    BY <1>4 DEF AddSketch
  <2> HIDE DEF sk
  <2>3. d \in Docs /\ d.sketch = sk /\ d.param = doc.param
    BY <2>1 DEF TypeOK, Docs
  <2> HIDE DEF d
  <2> QED
    BY <1>2, <2>1, <2>2, <2>3, MutateSatisfied DEF Satisfied
<1>5. CASE RemoveSketch
  <2> DEFINE d == [doc EXCEPT !.sketch = None]
  <2>1. Edit \in Edits /\ d \in Docs /\ d.sketch = None
    BY <1>5, EditTyped DEF RemoveSketch, TypeOK, Docs
  <2> HIDE DEF d
  <2>2. Mutate(d, Edit)
    BY <1>5 DEF RemoveSketch, d
  <2> QED
    BY <1>2, <2>1, <2>2, MutateSatisfied DEF Satisfied
<1>6. CASE Undo
  <2>1. /\ undo # <<>> /\ doc' = Last(undo) /\ undo' = Front(undo)
        /\ redo' = Append(redo, doc) /\ pad' = None
    BY <1>6 DEF Undo
  <2>2. /\ Len(undo') = Len(undo) - 1 /\ Len(undo) > 0 /\ Len(undo) \in Nat
        /\ \A i \in 1 .. Len(undo) - 1 : undo'[i] = undo[i]
        /\ doc' = undo[Len(undo)]
    BY <2>1, FrontLast, LenProperties DEF TypeOK
  <2>3. /\ Len(redo') = Len(redo) + 1 /\ Len(redo) \in Nat
        /\ \A i \in 1 .. Len(redo) : redo'[i] = redo[i]
        /\ redo'[Len(redo) + 1] = doc
    BY <2>1, AppendProperties DEF TypeOK
  <2>4. Satisfied(doc') /\ \A i \in 1 .. Len(undo') : Satisfied(undo'[i])
    BY <1>2, <2>2
  <2>5. \A i \in 1 .. Len(redo') : Satisfied(redo'[i])
    BY <1>2, <2>3
  <2> QED
    BY <2>1, <2>4, <2>5 DEF AllSatisfied
<1>7. CASE Redo
  <2>1. /\ redo # <<>> /\ doc' = Last(redo) /\ redo' = Front(redo)
        /\ undo' = Capped(Append(undo, doc)) /\ pad' = None
    BY <1>7 DEF Redo
  <2>2. /\ Len(redo') = Len(redo) - 1 /\ Len(redo) > 0 /\ Len(redo) \in Nat
        /\ \A i \in 1 .. Len(redo) - 1 : redo'[i] = redo[i]
        /\ doc' = redo[Len(redo)]
    BY <2>1, FrontLast, LenProperties DEF TypeOK
  <2>3. Satisfied(doc') /\ \A i \in 1 .. Len(redo') : Satisfied(redo'[i])
    BY <1>2, <2>2
  <2>4. \A i \in 1 .. Len(undo') : Satisfied(undo'[i])
    BY <1>2, <2>1, PushedSatisfied DEF TypeOK
  <2> QED
    BY <2>1, <2>3, <2>4 DEF AllSatisfied
<1>8. CASE Load
  <2>1. /\ undo' = Capped(Append(undo, doc)) /\ redo' = <<>> /\ pad' = None
        /\ doc'.sketch.solved = doc'.param
    BY <1>2, <1>8 DEF Load, Fresh, TypeOK
  <2>2. \A i \in 1 .. Len(undo') : Satisfied(undo'[i])
    BY <1>2, <2>1, PushedSatisfied DEF TypeOK
  <2> QED
    BY <2>1, <2>2 DEF AllSatisfied, Satisfied
<1>9. CASE New
  <2>1. undo' = <<>> /\ redo' = <<>> /\ doc'.sketch = None
    BY <1>9 DEF New, Blank, Fresh
  <2> QED
    BY <2>1 DEF AllSatisfied, Satisfied, HasSketch
<1>10. CASE OpenSketch
  <2>1. doc.sketch \in Sketches
    BY <1>10 DEF OpenSketch, HasSketch, TypeOK, Docs
  <2>2. pad'.solved = doc.sketch.solved /\ UNCHANGED <<doc, undo, redo>>
    BY <1>10, <2>1 DEF OpenSketch, Sketches, stacks
  <2> QED
    BY <1>2, <2>2 DEF AllSatisfied, Satisfied, HasSketch
<1>11. CASE Finish
  <2>1. Edit \in Edits /\ pad \in Pads /\ pad # None
    BY <1>11, EditTyped DEF Finish, TypeOK
  <2> DEFINE sk == IF HasSketch THEN [pad EXCEPT !.shape = Edit] ELSE None
             d == [doc EXCEPT !.sketch = sk]
  <2>2. /\ sk \in Sketches \cup {None}
        /\ sk # None => sk.solved = doc.param
    BY <1>2, <2>1 DEF Pads, Sketches
  <2>3. Mutate(d, Edit) /\ pad' = None
    BY <1>11 DEF Finish
  <2> HIDE DEF sk
  <2>4. d \in Docs /\ d.sketch = sk /\ d.param = doc.param
    BY <2>2 DEF TypeOK, Docs
  <2> HIDE DEF d
  <2> QED
    BY <1>2, <2>1, <2>2, <2>3, <2>4, MutateSatisfied DEF Satisfied
<1>12. CASE CancelSketch
  BY <1>2, <1>12 DEF CancelSketch, AllSatisfied, HasSketch, stacks
<1>13. CASE BeginParam
  <2>1. CASE ~Skips
    BY <1>2, <1>13, <2>1 DEF BeginParam, AllSatisfied, HasSketch, stacks
  <2>2. CASE Skips
    <3>1. Head(chain).value \in Edits
      BY <1>13, HeadTyped DEF BeginParam
    <3> DEFINE d == [doc EXCEPT !.param = Head(chain).value]
    <3>2. d \in Docs /\ d.sketch = doc.sketch
      BY <3>1 DEF TypeOK, Docs
    <3> HIDE DEF d
    <3>3. LandDraft(d) /\ ~HasSketch
      BY <1>13, <2>2 DEF BeginParam, d
    <3> QED
      BY <1>2, <3>2, <3>3, LandDraftSatisfied DEF Satisfied, HasSketch
  <2> QED
    BY <2>1, <2>2
<1>14. CASE LandParam
  <2>1. PICK ok \in BOOLEAN :
            /\ LandDraft([job.draft EXCEPT !.sketch = Solved(@, job.draft.param, ok)])
            /\ strayed' = (strayed \/ ~ok)
    BY <1>14 DEF LandParam
  <2> DEFINE d == [job.draft EXCEPT !.sketch = Solved(@, job.draft.param, ok)]
  <2>2. d \in Docs /\ d.sketch.solved = d.param
    BY <1>14, <2>1, DraftTyped DEF LandParam
  <2>3. LandDraft(d)
    BY <2>1
  <2> HIDE DEF d
  <2> QED
    BY <1>2, <2>2, <2>3, LandDraftSatisfied DEF Satisfied
<1>15. CASE BeginRefresh
  <2>1. pad # None => pad' # None /\ pad'.solved = pad.solved
    <3>1. Head(chain).value \in Edits
      BY <1>15, HeadTyped DEF BeginRefresh
    <3> QED
      BY <1>15, <3>1, PadTyped DEF BeginRefresh, TypeOK
  <2>2. pad = None => pad' = None \/ ~HasSketch'
    BY <1>15 DEF BeginRefresh, Skips, HasSketch
  <2> QED
    BY <1>2, <1>15, <2>1, <2>2 DEF BeginRefresh, AllSatisfied, HasSketch, stacks
<1>16. CASE LandRefresh
  <2>1. job \in Jobs /\ job.kind = "refresh"
    BY <1>16 DEF LandRefresh, TypeOK
  <2>2. job.sketch \in Sketches /\ job.param \in Edits
    BY <2>1 DEF Jobs
  <2>3. CASE SameObject
    <3>1. PICK ok \in BOOLEAN :
              /\ doc' = [doc EXCEPT !.sketch = Solved(job.sketch, job.param, ok)]
              /\ strayed' = (strayed \/ ~ok)
      BY <1>16, <2>3 DEF LandRefresh
    <3> DEFINE sk == Solved(job.sketch, job.param, ok)
    <3>2. sk.solved = job.param
      BY <2>2, <3>1, SolvedTyped
    <3>3. HasSketch /\ job.param = doc.param
      BY <1>16, <2>3 DEF LandRefresh, SameObject, LiveJobIsCurrent
    <3> HIDE DEF sk
    <3>4. doc'.sketch = sk /\ doc'.param = doc.param
      BY <3>1 DEF TypeOK, Docs, sk
    <3>5. Satisfied(doc') /\ (pad' # None => pad'.solved = doc'.param)
      BY <1>2, <1>16, <3>2, <3>3, <3>4 DEF LandRefresh, Satisfied
    <3> QED
      BY <1>2, <1>16, <3>5 DEF LandRefresh, AllSatisfied, stacks
  <2>4. CASE ~SameObject
    BY <1>2, <1>16, <2>4 DEF LandRefresh, AllSatisfied, HasSketch, stacks
  <2> QED
    BY <2>3, <2>4
<1>17. CASE UNCHANGED <<doc, undo, redo, pad>>
  BY <1>2, <1>17 DEF AllSatisfied, HasSketch
<1> QED
  BY <1>3, <1>4, <1>5, <1>6, <1>7, <1>8, <1>9, <1>10, <1>11, <1>12, <1>13, <1>14,
     <1>15, <1>16, <1>17
  DEF Next, vars, stacks, SetParam, TimerFires, ChangeView, BuildEnds
-----------------------------------------------------------------------------
(* The theorems.                                                           *)

LEMMA InitInv == Init => IInv
<1> SUFFICES ASSUME Init PROVE IInv
  OBVIOUS
<1>1. 0 \in Edits /\ MaxMoves \in 0 .. MaxMoves /\ UndoCap >= 0
  BY HistoryAssumption DEF Edits
<1>2. doc = [step |-> 0, after |-> None, param |-> 0, solid |-> 0,
             sketch |-> [shape |-> 0, proj |-> 0, solved |-> 0]]
  BY DEF Init, Fresh
<1>3. doc.sketch \in Sketches /\ doc.sketch.solved = 0 /\ doc.sketch.proj = 0
  BY <1>1, <1>2 DEF Sketches
<1>4. doc \in Docs /\ doc.param = 0 /\ doc.solid = 0
  BY <1>1, <1>2, <1>3 DEF Docs
<1>5. TypeOK
  <2>1. build \in Sendings /\ view \in Views /\ streak \in Nat
    BY <1>4, SentTyped DEF Init, Views
  <2> QED
    BY <1>1, <1>4, <2>1, EmptySeq DEF Init, TypeOK
<1>6. BuildIsCurrent
  BY DEF Init, BuildIsCurrent
<1> QED
  BY <1>3, <1>4, <1>5, <1>6
  DEF Init, IInv, UndoIsAChain, RedoIsAChain, LiveJobIsCurrent, DraftHasSketch,
      StaleIsOwed, AllSatisfied, Satisfied

LEMMA NextInv == IInv /\ [Next]_vars => IInv'
<1> SUFFICES ASSUME IInv, [Next]_vars PROVE IInv'
  OBVIOUS
<1>1. TypeOK'
  BY TypeStep DEF IInv
<1> QED
  BY <1>1, ChainStep, JobStep, StaleStep, SatisfiedStep DEF IInv

(* The invariant holds, for any number of edits and any depth of undo.     *)
THEOREM HistoryInvariance == Spec => []IInv
BY InitInv, NextInv, PTL DEF Spec

(* The document, the stacks, the commits and the build keep their types.  *)
THEOREM HistoryTypeCorrect == Spec => []TypeOK
<1>1. IInv => TypeOK
  BY DEF IInv
<1> QED
  BY <1>1, HistoryInvariance, PTL

LEMMA LineIsAChain ==
    ASSUME TypeOK, UndoIsAChain, RedoIsAChain
    PROVE  HistoryIsAChain
<1> DEFINE u == Len(undo)
           r == Len(redo)
           back == Reverse(redo)
           front == undo \o <<doc>>
<1>1. u \in Nat /\ r \in Nat /\ undo \in Seq(Docs) /\ redo \in Seq(Docs) /\ doc \in Docs
  BY LenProperties DEF TypeOK
<1>2. /\ back \in Seq(Docs) /\ Len(back) = r
      /\ \A i \in 1 .. r : back[i] = redo[(r - i) + 1]
  <2>1. back = [i \in 1 .. r |-> redo[(r - i) + 1]]
    BY DEF Reverse
  <2>2. \A i \in 1 .. r : redo[(r - i) + 1] \in Docs
    <3>1. \A i \in 1 .. r : (r - i) + 1 \in 1 .. r
      BY <1>1
    <3> QED
      BY <1>1, <3>1, ElementOfSeq
  <2>3. back \in [1 .. r -> Docs]
    BY <2>1, <2>2
  <2>4. back \in Seq(Docs)
    BY <1>1, <2>3, SeqDef
  <2> QED
    BY <1>1, <2>1, <2>3, <2>4, LenProperties
<1>3. /\ front \in Seq(Docs) /\ Len(front) = u + 1
      /\ front[u + 1] = doc
      /\ \A i \in 1 .. u : front[i] = undo[i]
  <2>1. front = Append(undo, doc)
    BY <1>1, AppendIsConcat
  <2> HIDE DEF front
  <2> QED
    BY <1>1, <2>1, AppendProperties
<1>4. Line = front \o back
  BY DEF Line
<1> HIDE DEF front, back
<1>5. /\ Len(Line) = u + 1 + r
      /\ \A i \in 1 .. (u + 1 + r) :
            Line[i] = IF i <= u + 1 THEN front[i] ELSE back[i - (u + 1)]
  <2>1. /\ Len(front \o back) = Len(front) + Len(back)
        /\ \A i \in 1 .. Len(front) + Len(back) :
              (front \o back)[i] = IF i <= Len(front) THEN front[i] ELSE back[i - Len(front)]
    <3>1. front \in Seq(Docs) /\ back \in Seq(Docs)
      BY <1>2, <1>3
    <3> QED
      BY <3>1, ConcatProperties, Zenon
  <2> HIDE DEF u, r
  <2>2. Len(front) = u + 1 /\ Len(back) = r
    BY <1>2, <1>3
  <2> QED
    BY <1>4, <2>1, <2>2
<1>6. /\ \A i \in 1 .. u : Line[i] = undo[i]
      /\ Line[u + 1] = doc
      /\ \A i \in (u + 2) .. (u + 1 + r) : Line[i] = redo[(u + r + 2) - i]
  <2>1. ASSUME NEW i \in 1 .. u PROVE Line[i] = undo[i]
    BY <1>1, <1>3, <1>5
  <2>2. Line[u + 1] = doc
    BY <1>1, <1>3, <1>5
  <2>3. ASSUME NEW i \in (u + 2) .. (u + 1 + r) PROVE Line[i] = redo[(u + r + 2) - i]
    <3>1. Line[i] = back[i - (u + 1)] /\ i - (u + 1) \in 1 .. r
      BY <1>1, <1>5
    <3>2. (r - (i - (u + 1))) + 1 = (u + r + 2) - i
      BY <1>1
    <3> QED
      BY <1>2, <3>1, <3>2
  <2> QED
    BY <2>1, <2>2, <2>3
<1>7. SUFFICES ASSUME NEW i \in 1 .. u + r
               PROVE  Line[i + 1].after = Line[i].step
  BY <1>1, <1>5 DEF HistoryIsAChain
<1>8. CASE i < u
  BY <1>1, <1>6, <1>8 DEF UndoIsAChain
<1>9. CASE i = u
  <2>1. undo # <<>>
    BY <1>1, <1>9
  <2> QED
    BY <1>1, <1>6, <1>9, <2>1 DEF UndoIsAChain
<1>10. CASE i = u + 1
  <2>1. redo # <<>> /\ Line[i + 1] = redo[r]
    BY <1>1, <1>6, <1>10
  <2> QED
    BY <1>6, <1>10, <2>1 DEF RedoIsAChain
<1>11. CASE i > u + 1
  <2> DEFINE j == (u + r + 2) - (i + 1)
  <2>1. j \in 1 .. r - 1 /\ j + 1 = (u + r + 2) - i
    BY <1>1, <1>11
  <2>2. i \in (u + 2) .. (u + 1 + r) /\ i + 1 \in (u + 2) .. (u + 1 + r)
    BY <1>1, <1>11
  <2>3. Line[i + 1] = redo[j] /\ Line[i] = redo[j + 1]
    BY <1>6, <2>1, <2>2
  <2> QED
    BY <2>1, <2>3 DEF RedoIsAChain
<1> QED
  BY <1>1, <1>8, <1>9, <1>10, <1>11

(* Undo and redo walk through the user's edits in the order they were      *)
(* made, however commits and refreshes fell between them (store.ts mutate, *)
(* undo, redo, load).                                                      *)
THEOREM HistoryChain == Spec => []HistoryIsAChain
<1>1. IInv => HistoryIsAChain
  BY LineIsAChain DEF IInv
<1> QED
  BY <1>1, HistoryInvariance, PTL

(* At rest the projected curve of the sketch shows the solid there is,     *)
(* unless the last build failed, the timeline is viewed cut or with a      *)
(* preview, the valve is shut, or the editor was left without a commit.    *)
THEOREM QuietIsFresh == Spec => []QuietMeansFresh
<1>1. IInv => QuietMeansFresh
  BY DEF IInv, TypeOK, QuietMeansFresh, Quiet, StaleIsOwed
<1> QED
  BY <1>1, HistoryInvariance, PTL

(* At rest the sketch satisfies the parameter, unless it strayed.          *)
THEOREM SketchFollows == Spec => []SketchFollowsParameter
<1>1. IInv => SketchFollowsParameter
  BY DEF IInv, SketchFollowsParameter, AllSatisfied, Satisfied, HasSketch
<1> QED
  BY <1>1, HistoryInvariance, PTL

(* A refresh that waited for the solver takes nothing back.                *)
THEOREM RefreshTakesNothing == Spec => RefreshKeepsEdits
<1> DEFINE Keeps ==
        job # None /\ job.kind = "refresh" /\ job' = None
            => Drawn(doc') = Drawn(doc) /\ undo' = undo /\ redo' = redo
<1>1. IInv /\ [Next]_vars => [Keeps]_vars
  <2> SUFFICES ASSUME IInv, [Next]_vars,
                      job # None, job.kind = "refresh", job' = None
               PROVE  Drawn(doc') = Drawn(doc) /\ undo' = undo /\ redo' = redo
    OBVIOUS
  <2>0. TypeOK
    BY DEF IInv
  <2>1. LandRefresh
    <3>1. ~Severed
      BY <2>0, SeveredTyped
    <3> QED
      BY <3>1
      DEF Next, vars, EditSolid, AddSketch, RemoveSketch, Undo, Redo, Load, New, OpenSketch,
          Finish, CancelSketch, SetParam, BeginParam, LandParam, BeginRefresh,
          TimerFires, ChangeView, BuildEnds
  <2>2. CASE ~SameObject
    BY <2>1, <2>2 DEF LandRefresh, stacks
  <2>3. CASE SameObject
    <3>1. PICK ok \in BOOLEAN :
              doc' = [doc EXCEPT !.sketch = Solved(job.sketch, job.param, ok)]
      BY <2>1, <2>3 DEF LandRefresh
    <3>2. job \in Jobs
      BY <2>0 DEF TypeOK
    <3>3. job.sketch \in Sketches /\ job.param \in Edits
      BY <3>2 DEF Jobs
    <3> DEFINE sk == Solved(job.sketch, job.param, ok)
    <3>4. sk \in Sketches /\ sk.shape = job.sketch.shape /\ sk # None
      BY <3>3, SolvedTyped, NoneAssumption
    <3>5. doc.sketch # None /\ sk.shape = doc.sketch.shape
      BY <2>3, <3>4 DEF IInv, LiveJobIsCurrent, HasSketch, SameObject
    <3> HIDE DEF sk
    <3>6. doc' = [doc EXCEPT !.sketch = sk] /\ doc \in Docs
      BY <2>0, <3>1 DEF TypeOK, sk
    <3>7. Drawn(doc') = [doc EXCEPT !.sketch = sk.shape]
      BY <3>4, <3>6 DEF Drawn, Docs
    <3>8. Drawn(doc) = [doc EXCEPT !.sketch = doc.sketch.shape]
      BY <3>5 DEF Drawn
    <3> QED
      BY <2>1, <3>5, <3>7, <3>8 DEF LandRefresh, stacks
  <2> QED
    BY <2>2, <2>3
<1> QED
  BY <1>1, HistoryInvariance, PTL DEF Spec, RefreshKeepsEdits
=============================================================================
