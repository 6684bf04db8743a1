---------------------------- MODULE EditHistory ----------------------------
(***************************************************************************)
(* The document in the store: the user's edits, undo and redo, parameter   *)
(* commits, and the refresh of projected sketches.                         *)
(*   src/src/document/store.ts      DocumentStore                          *)
(*   src/src/sketch/sketchMode.ts   enter, finish, cancel, sync..          *)
(*                                                                         *)
(* A document is a parameter, a solid, and a sketch whose dimension takes  *)
(* the parameter and whose projected curve follows the solid.  What each   *)
(* holds is the number of the edit that wrote it.  Commits that have to    *)
(* solve the sketch run one after the other and wait for the solver; every *)
(* other edit is done at once, also while they wait.                       *)
(*                                                                         *)
(* What is built is the document as it is viewed: whole, cut before the    *)
(* sketch by the rollback marker or by suppression, or with the live       *)
(* preview of a tool, which a tool that edits an earlier feature shows in  *)
(* place of all that follows, the sketch included.                         *)
(***************************************************************************)
EXTENDS Integers, Sequences, SequencesExt

CONSTANTS None,         \* absent
          UndoCap,      \* undo steps kept: 50
          RefreshLimit, \* refreshes in a row before the valve shuts: 5
          MaxSteps,     \* edits (a bound)
          MaxWaiting,   \* commits that wait (a bound)
          MaxMoves      \* undos, redos, visits to the editor, changes of
                        \* the view and flaps (a bound)

ASSUME HistoryAssumption ==
    /\ UndoCap \in Nat \ {0} /\ RefreshLimit \in Nat \ {0}
    /\ MaxSteps \in Nat /\ MaxWaiting \in Nat \ {0} /\ MaxMoves \in Nat

VARIABLES
    doc,        \* the document
    undo,       \* undoStack, the latest last
    redo,       \* redoStack, the next last
    chain,      \* paramChain: the commits that wait
    job,        \* the one that waits for the solver
    build,      \* what the running rebuild was sent
    again,      \* another is asked for
    due,        \* the timer of the next one runs
    failed,     \* the last one failed, in whole or in part, and says so
    streak,     \* projStreak
    view,       \* which of the document is built
    pad,        \* the sketch open in the editor
    owed,       \* a sketch was left since a rebuild began (history)
    strayed,    \* a sketch was left unsolved (history)
    steps,      \* edits so far
    moves       \* what is left of MaxMoves

stacks  == <<undo, redo>>
rebuild == <<build, again, due, failed, owed>>
vars == <<doc, stacks, chain, job, rebuild, streak, view, pad, strayed,
          steps, moves>>

(* An edit and its number. *)
Edit == steps + 1
Step == steps < MaxSteps /\ steps' = Edit /\ UNCHANGED moves

Move == moves > 0 /\ moves' = moves - 1 /\ UNCHANGED steps

Enqueue(c) == Len(c) <= MaxWaiting /\ chain' = c

Fresh(n, after) ==
    [step |-> n, after |-> after, param |-> n, solid |-> n,
     sketch |-> [shape |-> n, proj |-> n, solved |-> n]]
Blank(n) == [Fresh(n, None) EXCEPT !.sketch = None]

HasSketch == doc.sketch # None

Previews == {"preview", "editPreview"}
Views    == {"whole", "cut"} \cup Previews
-----------------------------------------------------------------------------
(* scheduleRebuild(), rebuildNow().                                        *)

(* effectiveDoc() *)
Sent(d, v) ==
    [source |-> d.solid,
     shown  |-> IF d.sketch = None \/ v \in {"cut", "editPreview"} THEN None
                ELSE d.sketch.proj]

AtOnce(d, v) ==
    /\ due' = FALSE
    /\ IF build = None
       THEN build' = Sent(d, v) /\ failed' = FALSE /\ owed' = FALSE /\ UNCHANGED again
       ELSE again' = TRUE /\ UNCHANGED <<build, failed, owed>>

Soon == due' = TRUE /\ UNCHANGED <<build, again, failed, owed>>

TimerFires ==
    /\ due
    /\ AtOnce(doc, view)
    /\ UNCHANGED <<doc, stacks, chain, job, streak, view, pad, strayed, steps, moves>>

(* The rollback marker, suppression, and the previews but for their silent *)
(* end.                                                                    *)
ChangeView ==
    /\ Move
    /\ view' \in Views \ {view}
    /\ AtOnce(doc, view')
    /\ UNCHANGED <<doc, stacks, chain, job, streak, pad, strayed>>

(* A preview may end with the edit that its tool commits. *)
PreviewEnds == view' \in {view} \cup (IF view \in Previews THEN {"whole"} ELSE {})
-----------------------------------------------------------------------------
(* mutate() and applyDerived().                                            *)

Uncapped(s) == s                     \* mutant: documents of many megabytes
Capped(s) == IF Len(s) > UndoCap THEN Tail(s) ELSE s
KeepRedo(s) == redo                  \* mutant: an edit after an undo
Cleared(s) == <<>>

Mutate(d, n) ==
    /\ undo' = Capped(Append(undo, doc))
    /\ redo' = Cleared(redo)
    /\ streak' = 0
    /\ doc' = [d EXCEPT !.step = n, !.after = doc.step]

(* The sketch in the document is no longer the object a commit began with. *)
Severed == job' = IF job = None THEN None ELSE [job EXCEPT !.live = FALSE]

EditSolid ==
    /\ Step
    /\ Mutate([doc EXCEPT !.solid = Edit], Edit)
    /\ PreviewEnds
    /\ AtOnce(doc', view') \/ Soon
    /\ UNCHANGED <<chain, job, pad, strayed>>

AddSketch ==
    /\ Step /\ ~HasSketch /\ pad = None
    /\ Mutate([doc EXCEPT !.sketch = [shape |-> Edit, proj |-> doc.solid,
                                      solved |-> doc.param]],
              Edit)
    /\ PreviewEnds
    /\ AtOnce(doc', view')
    /\ UNCHANGED <<chain, job, pad, strayed>>

RemoveSketch ==
    /\ Step /\ HasSketch /\ pad = None
    /\ Mutate([doc EXCEPT !.sketch = None], Edit)
    /\ PreviewEnds
    /\ AtOnce(doc', view')
    /\ Severed
    /\ UNCHANGED <<chain, pad, strayed>>

Undo ==
    /\ Move /\ pad = None /\ undo # <<>>
    /\ doc' = Last(undo) /\ undo' = Front(undo)
    /\ redo' = Append(redo, doc)
    /\ streak' = 0
    /\ AtOnce(doc', view)
    /\ Severed
    /\ UNCHANGED <<chain, view, pad, strayed>>

Redo ==
    /\ Move /\ pad = None /\ redo # <<>>
    /\ doc' = Last(redo) /\ redo' = Front(redo)
    /\ undo' = Capped(Append(undo, doc))
    /\ streak' = 0
    /\ AtOnce(doc', view)
    /\ Severed
    /\ UNCHANGED <<chain, view, pad, strayed>>

(* load(): the user's Open leaves the sketch editor first, an assistant's  *)
(* or a plugin's document does not.                                        *)
Load ==
    /\ Step
    /\ undo' = Capped(Append(undo, doc)) /\ redo' = <<>>
    /\ doc' = Fresh(Edit, doc.step)
    /\ streak' = 0
    /\ view' \in (IF view \in Previews THEN {view} ELSE {"whole", "cut"})
    /\ AtOnce(doc', view')
    /\ Severed
    /\ pad' \in {None, pad}
    /\ strayed' = (strayed \/ pad' # None)
    /\ UNCHANGED chain

New ==
    /\ Step
    /\ undo' = <<>> /\ redo' = <<>>
    /\ doc' = Blank(Edit)
    /\ streak' = 0
    /\ view' = IF view \in Previews THEN view ELSE "whole"
    /\ AtOnce(doc', view')
    /\ Severed
    /\ pad' \in {None, pad}
    /\ UNCHANGED <<chain, strayed>>
-----------------------------------------------------------------------------
(* The sketch editor.                                                      *)

OpenSketch ==
    /\ Move /\ HasSketch /\ pad = None
    /\ pad' = [doc.sketch EXCEPT !.shape = None]
    /\ UNCHANGED <<doc, stacks, chain, job, rebuild, streak, view, strayed>>

(* finish(): the sketch replaces the one in the document, if there is one. *)
Finish ==
    /\ Step /\ pad # None
    /\ Mutate([doc EXCEPT !.sketch =
                  IF HasSketch THEN [pad EXCEPT !.shape = Edit] ELSE None],
              Edit)
    /\ pad' = None
    /\ AtOnce(doc', view)
    /\ Severed
    /\ UNCHANGED <<chain, view, strayed>>

(* cancel(): nothing is rebuilt. *)
CancelSketch ==
    /\ pad # None
    /\ pad' = None
    /\ owed' = TRUE
    /\ UNCHANGED <<doc, stacks, chain, job, build, again, due, failed, streak, view, strayed,
                   steps, moves>>
-----------------------------------------------------------------------------
(* Parameter commits.                                                      *)

(* The parameter is given a value: checked now, committed in turn. *)
SetParam ==
    /\ Step
    /\ Enqueue(Append(chain, [kind |-> "param", value |-> Edit]))
    /\ UNCHANGED <<doc, stacks, job, rebuild, streak, view, pad, strayed>>

Unsynced(p, v) == p                  \* mutant: the editor is not told
Synced(p, v) == IF p = None THEN None ELSE [p EXCEPT !.solved = v]

(* The draft replaces whatever the document holds by now; the sketch that  *)
(* is open takes the parameter for itself.                                 *)
LandDraft(d) ==
    /\ Mutate(d, d.param)
    /\ pad' = Synced(pad, d.param)
    /\ Soon
    /\ job' = None
    /\ UNCHANGED <<view, steps, moves>>

(* The solver answers; when it cannot, the user is told. *)
Solved(sk, p, ok) == IF ok THEN [sk EXCEPT !.solved = p] ELSE sk

(* commitWithCascade(), to the solver if the sketch is not open. *)
Skips == pad # None \/ ~HasSketch
BeginParam ==
    /\ job = None /\ chain # <<>> /\ Head(chain).kind = "param"
    /\ chain' = Tail(chain)
    /\ LET draft == [doc EXCEPT !.param = Head(chain).value]
       IN  IF Skips
           THEN LandDraft(draft) /\ strayed' = (strayed \/ HasSketch)
           ELSE /\ job' = [kind |-> "param", draft |-> draft, live |-> TRUE]
                /\ UNCHANGED <<doc, stacks, rebuild, streak, view, pad, strayed,
                               steps, moves>>

LandParam ==
    /\ job # None /\ job.kind = "param"
    /\ \E ok \in BOOLEAN :
          /\ LandDraft([job.draft EXCEPT !.sketch = Solved(@, job.draft.param, ok)])
          /\ strayed' = (strayed \/ ~ok)
    /\ UNCHANGED chain
-----------------------------------------------------------------------------
(* Projection refresh.                                                     *)

(* commitProjectionRefresh(), to the solver.  The open sketch takes its    *)
(* update itself and a sketch that is gone takes none.                     *)
BeginRefresh ==
    /\ job = None /\ chain # <<>> /\ Head(chain).kind = "refresh"
    /\ chain' = Tail(chain)
    /\ IF Skips
       THEN /\ pad' = IF HasSketch THEN [pad EXCEPT !.proj = Head(chain).value] ELSE pad
            /\ UNCHANGED job
       ELSE /\ job' = [kind |-> "refresh", live |-> TRUE, param |-> doc.param,
                       sketch |-> [doc.sketch EXCEPT !.proj = Head(chain).value]]
            /\ UNCHANGED pad
    /\ UNCHANGED <<doc, stacks, rebuild, streak, view, strayed, steps, moves>>

StillThere == doc.sketch # None      \* mutant: its name is enough
SameObject == job.live

LandRefresh ==
    /\ job # None /\ job.kind = "refresh"
    /\ job' = None
    /\ IF SameObject
       THEN /\ streak' = streak + 1
            /\ \E ok \in BOOLEAN :
                  /\ doc' = [doc EXCEPT !.sketch = Solved(job.sketch, job.param, ok)]
                  /\ strayed' = (strayed \/ ~ok)
            /\ AtOnce(doc', view)
       ELSE UNCHANGED <<doc, rebuild, streak, strayed>>
    /\ UNCHANGED <<stacks, chain, view, pad, steps, moves>>
-----------------------------------------------------------------------------
(* A rebuild ends.                                                         *)

(* Its curve shows an older solid. *)
Stale == build.shown \notin {None, build.source}

Shut == streak >= RefreshLimit

(* maybeQueueProjectionRefresh(): a preview is no reason to look, a quiet  *)
(* build opens the valve, and the shut valve withholds the report.         *)
Queued(reported) ==
    \/ view \in Previews /\ UNCHANGED <<chain, streak>>
    \/ view \notin Previews /\ ~reported /\ streak' = 0 /\ UNCHANGED chain
    \/ /\ view \notin Previews /\ reported
       /\ \/ Shut /\ UNCHANGED chain
          \/ ~Shut /\ Enqueue(Append(chain, [kind |-> "refresh", value |-> build.source]))
       /\ UNCHANGED streak

LostWish(d) == None                  \* mutant: the wish for another is lost
NextBuild(d) == IF again THEN Sent(d, view) ELSE None

(* A build that failed says nothing of the sketch.  Another reports it if  *)
(* it is stale, or the numbers flap; where some feature of it failed, the  *)
(* solid it was to show may not be there to compare with.                  *)
Answered ==
    \/ failed' = ~again /\ UNCHANGED <<chain, streak, steps, moves>>
    \/ \E partial \in BOOLEAN :
          /\ failed' = (partial /\ ~again)
          /\ \/ Stale /\ Queued(TRUE) /\ UNCHANGED <<steps, moves>>
             \/ (~Stale \/ partial) /\ Queued(FALSE) /\ UNCHANGED <<steps, moves>>
             \/ ~Stale /\ build.shown # None /\ Move /\ Queued(TRUE)

BuildEnds ==
    /\ build # None
    /\ Answered
    /\ build' = NextBuild(doc)
    /\ again' = FALSE
    /\ owed' = (owed /\ build' = None)
    /\ UNCHANGED <<doc, stacks, job, due, view, pad, strayed>>
-----------------------------------------------------------------------------
Init ==
    /\ doc = Fresh(0, None)
    /\ undo = <<>> /\ redo = <<>> /\ chain = <<>> /\ job = None
    /\ view = "whole"
    /\ build = Sent(doc, view) /\ again = FALSE /\ due = FALSE
    /\ failed = FALSE /\ streak = 0
    /\ pad = None
    /\ owed = FALSE /\ strayed = FALSE
    /\ steps = 0 /\ moves = MaxMoves

Next ==
    \/ EditSolid \/ AddSketch \/ RemoveSketch
    \/ Undo \/ Redo \/ Load \/ New
    \/ OpenSketch \/ Finish \/ CancelSketch
    \/ SetParam \/ BeginParam \/ LandParam
    \/ BeginRefresh \/ LandRefresh
    \/ TimerFires \/ ChangeView \/ BuildEnds

Spec == Init /\ [][Next]_vars
-----------------------------------------------------------------------------
(* Properties.                                                             *)

Edits == 0 .. MaxSteps
Sketches == [shape : Edits, proj : Edits, solved : Edits]
Docs == [step : Edits, after : Edits \cup {None}, param : Edits, solid : Edits,
         sketch : Sketches \cup {None}]
Commits == [kind : {"param", "refresh"}, value : Edits]
Jobs == [kind : {"param"}, draft : Docs, live : BOOLEAN]
        \cup [kind : {"refresh"}, live : BOOLEAN, param : Edits, sketch : Sketches]
Sendings == [source : Edits, shown : Edits \cup {None}]
Pads == [shape : {None}, proj : Edits, solved : Edits]

ASSUME NoneAssumption == None \notin Edits \cup Sketches \cup Jobs \cup Sendings \cup Pads

TypeOK ==
    /\ doc \in Docs
    /\ undo \in Seq(Docs) /\ Len(undo) <= UndoCap
    /\ redo \in Seq(Docs)
    /\ chain \in Seq(Commits)
    /\ job \in Jobs \cup {None}
    /\ build \in Sendings \cup {None}
    /\ pad \in Pads \cup {None}
    /\ {again, due, owed, failed, strayed} \subseteq BOOLEAN
    /\ streak \in Nat /\ view \in Views
    /\ steps \in Edits /\ moves \in 0 .. MaxMoves
    /\ again => build # None

(* Undo and redo walk through the user's edits in the order they were      *)
(* made: none is skipped, none is there twice, and what the program did by *)
(* itself is no step, however it fell between them.                        *)
Line == undo \o <<doc>> \o Reverse(redo)
HistoryIsAChain ==
    \A i \in 1 .. Len(Line) - 1 : Line[i + 1].after = Line[i].step

(* A refresh that waited for the solver takes nothing back that the user   *)
(* did meanwhile, brings no deleted sketch back and costs no undo step.    *)
Drawn(d) == [d EXCEPT !.sketch = IF @ = None THEN None ELSE @.shape]
RefreshKeepsEdits ==
    [][job # None /\ job.kind = "refresh" /\ job' = None
          => Drawn(doc') = Drawn(doc) /\ undo' = undo /\ redo' = redo]_vars

Quiet == /\ chain = <<>> /\ job = None /\ build = None
         /\ ~due /\ pad = None

(* Once everything has settled a projected curve shows the solid there is, *)
(* also when its refresh was dropped, undone or landed late.  It need not  *)
(* when the last build failed (the error is on screen), when the timeline  *)
(* is viewed cut or with a preview, when the valve is shut until the next  *)
(* edit, or after the editor was left without a commit, which rebuilds     *)
(* nothing.                                                                *)
QuietMeansFresh ==
    Quiet /\ view = "whole" /\ ~failed /\ ~Shut /\ ~owed /\ HasSketch
        => doc.sketch.proj = doc.solid

(* Then a sketch also satisfies the parameter: unless the solver could not *)
(* make it, or it was open when the parameter or the document changed.     *)
SketchFollowsParameter ==
    Quiet /\ ~strayed /\ HasSketch
        => doc.sketch.solved = doc.param

(* A parameter commit changes the parameter, and nothing the user did      *)
(* while it waited for the solver.  The code does not keep this.           *)
CommitKeepsEdits ==
    [][job # None /\ job.kind = "param" /\ job' = None
          => doc'.solid = doc.solid]_vars
=============================================================================
