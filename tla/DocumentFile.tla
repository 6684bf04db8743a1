---------------------------- MODULE DocumentFile ----------------------------
(***************************************************************************)
(* The open document, its file, and the snapshots that outlive a crash.    *)
(*   src/src/io/files.ts                open, save                         *)
(*   src/src/io/recovery.ts             autosave, the prompt at launch     *)
(*   src/src/document/store.ts          path, dirty flag                   *)
(*   src/src-tauri/src/container.rs     how a file is written              *)
(*   src/src-tauri/src/lib.rs           how a snapshot is written          *)
(*                                                                         *)
(* The window awaits the shell for every write and read, and nothing stops *)
(* the user meanwhile.  What a document holds is its content: the line of  *)
(* documents it descends from, and a number of its own, larger than the    *)
(* number of what it was made from.                                        *)
(***************************************************************************)
EXTENDS Integers, Sequences, SequencesExt, SequenceFilter

CONSTANTS Paths,        \* files
          Ops,          \* saves and opens that may be under way together
          None,         \* absent
          Torn,         \* bytes that are no document
          MaxDocs,      \* contents of this world (a bound)
          MaxMishaps    \* failures and crashes (a bound)

(* A snapshot is filed under its document's path, or as "untitled". *)
Untitled == None
SlotFor(p) == p

Contents  == [line : 0 .. MaxDocs + MaxMishaps, rev : 0 .. MaxDocs + MaxMishaps]
Slots     == Paths \cup {Untitled}
Snapshots == [slot : Slots, doc : Contents]
Filings   == [slot : Slots, doc : Contents \cup {Torn}]   \* one may be torn
Calls     == [kind : {"save", "saveAs", "open"}, path : Paths, doc : Contents,
              stage : {"built", "renamed", "done", "read"}]

ASSUME FileAssumption ==
    /\ None \notin Paths \cup Contents \cup Snapshots \cup Calls
    /\ Torn \notin Contents
    /\ MaxDocs \in Nat \ {0} /\ MaxMishaps \in Nat

VARIABLES
    running,   \* "on", "prompt" (the question at launch), or "off"
    doc,       \* the content of the open document
    path,      \* its file
    dirty,     \* the dirty flag
    op,        \* each save or open under way
    clears,    \* the snapshots a save still has to clear, in order
    timer,     \* the autosave timer is armed
    writing,   \* the snapshot being written
    slots,     \* the snapshots, newest first
    disk,      \* what a reader of each file finds
    durable,   \* what a power cut leaves of each file
    docs,      \* contents so far; the last is the newest number
    lost,      \* the snapshot that covered what the last crash took (history)
    happened,  \* what the promises below make exceptions for (history)
    mishaps    \* mishaps left

memory == <<doc, path, dirty, op, clears, timer, writing>>
vars == <<running, memory, slots, disk, durable, docs, lost, happened, mishaps>>

Mishap == mishaps > 0 /\ mishaps' = mishaps - 1
Note(events) == happened' = happened \cup events

Busy(kinds) == \E o \in Ops : op[o] # None /\ op[o].kind \in kinds
Saving == Busy({"save", "saveAs"})

Fresh(content) == docs' = docs + 1 /\ doc' = content
Blank == [line |-> docs + 1, rev |-> docs + 1]

Init ==
    /\ running = "on"
    /\ doc = [line |-> 1, rev |-> 1] /\ docs = 1
    /\ path = None
    /\ dirty = FALSE
    /\ op = [o \in Ops |-> None]
    /\ clears = <<>>
    /\ timer = FALSE
    /\ writing = None
    /\ slots = <<>>
    /\ \E old \in Paths :
          disk = [p \in Paths |-> IF p = old THEN [line |-> 0, rev |-> 0] ELSE None]
    /\ durable = disk
    /\ lost = None
    /\ happened = {}
    /\ mishaps = MaxMishaps
-----------------------------------------------------------------------------
(* The document.                                                           *)

OnceDirty == timer \/ ~dirty         \* mutant: only the flag arms the timer
Armed == TRUE

(* An edit marks the document dirty and reports the change, which arms the *)
(* timer (schedule() returns at once when the document is clean).          *)
Edit ==
    /\ running = "on" /\ docs < MaxDocs + MaxMishaps - mishaps
    /\ Fresh([doc EXCEPT !.rev = docs + 1])
    /\ dirty' = TRUE
    /\ timer' = Armed
    /\ IF Saving THEN Note({"race"}) ELSE UNCHANGED happened
    /\ UNCHANGED <<running, path, op, clears, writing, slots, disk, durable,
                   lost, mishaps>>

(* A name, a colour, a material, a version: markDirty() reports the first  *)
(* change of a clean document and no other.                                *)
SilentEdit ==
    /\ running = "on" /\ docs < MaxDocs + MaxMishaps - mishaps
    /\ Fresh([doc EXCEPT !.rev = docs + 1])
    /\ dirty' = TRUE
    /\ timer' = (timer \/ ~dirty)
    /\ Note((IF Saving THEN {"race"} ELSE {})
            \cup (IF dirty THEN {"missed"} ELSE {}))
    /\ UNCHANGED <<running, path, op, clears, writing, slots, disk, durable,
                   lost, mishaps>>

(* New, agreed to if there was something to discard. *)
PathStays == path                     \* mutant: the path outlives its document
NoPath == None

New ==
    /\ running = "on" /\ docs < MaxDocs + MaxMishaps - mishaps
    /\ Fresh(Blank)
    /\ path' = NoPath
    /\ dirty' = FALSE
    /\ IF Saving THEN Note({"race"}) ELSE UNCHANGED happened
    /\ UNCHANGED <<running, op, clears, timer, writing, slots, disk, durable,
                   lost, mishaps>>
-----------------------------------------------------------------------------
(* Saving and opening.                                                     *)

Start(o, r) ==
    /\ running = "on" /\ op[o] = None
    /\ clears = <<>>       \* a bound: the clearing calls are answered first
    /\ op' = [op EXCEPT ![o] = r]
    /\ IF \E x \in Ops : op[x] # None THEN Note({"race"})
       ELSE UNCHANGED happened
    /\ UNCHANGED <<running, doc, path, dirty, clears, timer, writing, slots,
                   disk, durable, docs, lost, mishaps>>

(* The document is turned into text now, and written from the text.  (The  *)
(* module awaited before has been loaded since the launch.)                *)
Save(o) ==
    /\ path # None
    /\ Start(o, [kind |-> "save", path |-> path, doc |-> doc, stage |-> "built"])

SaveAs(o, p) ==
    Start(o, [kind |-> "saveAs", path |-> p, doc |-> doc, stage |-> "built"])

Stage(o, from, to) ==
    /\ op[o] # None /\ op[o].stage = from
    /\ op' = [op EXCEPT ![o].stage = to]

(* The file, built beside its target and synced, is renamed over it ...    *)
Rename(o) ==
    /\ Stage(o, "built", "renamed")
    /\ disk' = [disk EXCEPT ![op[o].path] = op[o].doc]
    /\ UNCHANGED <<running, doc, path, dirty, clears, timer, writing, slots,
                   durable, docs, lost, happened, mishaps>>

(* ... and the directory synced.                                           *)
Synced(p) == [durable EXCEPT ![p] = disk[p]]

SyncDirectory(o) ==
    /\ Stage(o, "renamed", "done")
    /\ durable' = Synced(op[o].path)
    /\ UNCHANGED <<running, doc, path, dirty, clears, timer, writing, slots,
                   disk, docs, lost, happened, mishaps>>

OldPathOnly(p) == <<SlotFor(path), Untitled>>   \* mutant: before markSaved()
ToClear(p) == <<SlotFor(p), Untitled>>

(* The save returns.  Save looks up the path again.  The snapshots under   *)
(* it and "untitled" are cleared, one call after the other.                *)
Saved(o) ==
    /\ op[o] # None /\ op[o].stage = "done"
    /\ op' = [op EXCEPT ![o] = None]
    /\ LET p == IF op[o].kind = "save" THEN path ELSE op[o].path
       IN  /\ path' = p
           /\ clears' = clears \o ToClear(p)
    /\ dirty' = FALSE
    /\ UNCHANGED <<running, doc, timer, writing, slots, disk, durable, docs,
                   lost, happened, mishaps>>

(* A save that fails (geometry missing from the store, no room, no right   *)
(* to write) leaves everything as it was.                                  *)
MarkedAnyway(d) == FALSE              \* mutant: marked saved whatever came of it
AfterFailure(d) == d

SaveFails(o) ==
    /\ Mishap
    /\ op[o] # None /\ op[o].stage = "built"
    /\ op' = [op EXCEPT ![o] = None]
    /\ dirty' = AfterFailure(dirty)
    /\ UNCHANGED <<running, doc, path, clears, timer, writing, slots, disk,
                   durable, docs, lost, happened>>

Open(o, p) ==
    /\ disk[p] \notin {None, Torn}
    /\ Start(o, [kind |-> "open", path |-> p, doc |-> disk[p], stage |-> "read"])

(* load() marks the document dirty, which arms the timer, and markSaved()  *)
(* clears the flag.  Nobody asks about unsaved changes.                    *)
Opened(o) ==
    /\ op[o] # None /\ op[o].kind = "open"
    /\ op' = [op EXCEPT ![o] = None]
    /\ doc' = op[o].doc
    /\ path' = op[o].path
    /\ dirty' = FALSE
    /\ timer' = TRUE
    /\ IF Saving THEN Note({"race"}) ELSE UNCHANGED happened
    /\ UNCHANGED <<running, clears, writing, slots, disk, durable, docs, lost,
                   mishaps>>
-----------------------------------------------------------------------------
(* Snapshots.                                                              *)

TimerFires ==
    /\ running = "on" /\ timer
    /\ timer' = FALSE
    /\ IF dirty /\ writing = None
       THEN writing' = [slot |-> SlotFor(path), doc |-> doc]
       ELSE UNCHANGED writing
    /\ IF dirty /\ writing # None THEN Note({"missed"})
       ELSE UNCHANGED happened
    /\ UNCHANGED <<running, doc, path, dirty, op, clears, slots, disk, durable,
                   docs, lost, mishaps>>

Others(slot) == Filtered(slots, {s \in Range(slots) : s.slot # slot})
FiledTwice(s) == <<s>> \o slots       \* mutant: the old snapshot stays beside it
OldestFirst(s) == Append(Others(s.slot), s)   \* mutant: listed the wrong way
Filed(s) == <<s>> \o Others(s.slot)

Written ==
    /\ writing # None
    /\ slots' = Filed(writing)
    /\ writing' = None
    /\ UNCHANGED <<running, doc, path, dirty, op, clears, timer, disk, durable,
                   docs, lost, happened, mishaps>>

(* A snapshot that fails is not tried again before the next change. *)
WriteFails ==
    /\ Mishap /\ writing # None
    /\ writing' = None
    /\ Note({"missed"})
    /\ UNCHANGED <<running, doc, path, dirty, op, clears, timer, slots, disk,
                   durable, docs, lost>>

(* The call that clears a snapshot.  It may find one written since. *)
Clear ==
    /\ clears # <<>>
    /\ clears' = Tail(clears)
    /\ slots' = Others(Head(clears))
    /\ Note((IF dirty THEN {"missed"} ELSE {})
            \cup (IF writing # None THEN {"leftBehind"} ELSE {}))
    /\ UNCHANGED <<running, doc, path, dirty, op, timer, writing, disk, durable,
                   docs, lost, mishaps>>

(* One that fails leaves its snapshot, and the other is not tried. *)
ClearFails ==
    /\ clears # <<>>
    /\ clears' = IF Len(clears) % 2 = 1 THEN Tail(clears) ELSE Tail(Tail(clears))
    /\ Note({"leftBehind"})
    /\ UNCHANGED <<running, doc, path, dirty, op, timer, writing, slots, disk,
                   durable, docs, lost, mishaps>>
-----------------------------------------------------------------------------
(* The end of the process, and the next launch.                            *)

(* The snapshot that holds exactly what was unsaved. *)
Snapshot == [slot |-> SlotFor(path), doc |-> doc]
Covered == Contains(slots, Snapshot)

Forget ==
    /\ running' = "off"
    /\ op' = [o \in Ops |-> None]
    /\ path' = None /\ dirty' = FALSE /\ clears' = <<>>
    /\ timer' = FALSE /\ writing' = None
    /\ doc' = doc /\ docs' = docs

Interrupted == IF Saving \/ clears # <<>> THEN {"crashedSaving"} ELSE {}

(* The process ends: a crash, or the user quits, who is not asked. *)
Crash ==
    /\ Mishap /\ running # "off"
    /\ Forget
    /\ lost' = IF dirty /\ Covered THEN Snapshot ELSE None
    /\ Note(Interrupted)
    /\ UNCHANGED <<slots, disk, durable>>

(* The machine goes down with it.  A rename that was not synced may be     *)
(* undone; a snapshot, which never is synced, may be torn.                 *)
PowerCut ==
    /\ Mishap /\ running # "off"
    /\ Forget
    /\ lost' = None
    /\ \E undone \in SUBSET Paths :
          disk' = [p \in Paths |-> IF p \in undone THEN durable[p] ELSE disk[p]]
    /\ durable' = disk'
    /\ \E torn \in SUBSET (DOMAIN slots) :
          slots' = [i \in DOMAIN slots |->
                       IF i \in torn THEN [slots[i] EXCEPT !.doc = Torn]
                       ELSE slots[i]]
    /\ Note(Interrupted)

(* The newest snapshot is offered, and no other.  One that cannot be read  *)
(* is not offered, and hides the others.                                   *)
Launch ==
    /\ running = "off"
    /\ Fresh(Blank)
    /\ running' = IF slots = <<>> \/ slots[1].doc = Torn THEN "on" ELSE "prompt"
    /\ UNCHANGED <<path, dirty, op, clears, timer, writing, slots, disk,
                   durable, lost, happened, mishaps>>

Answer ==
    /\ running = "prompt" /\ running' = "on"
    /\ lost' = None
    /\ UNCHANGED <<path, op, clears, writing, disk, durable, docs, mishaps>>

(* The recovered document has no path, and its snapshot stays. *)
Recover ==
    /\ Answer
    /\ doc' = slots[1].doc
    /\ dirty' = TRUE /\ timer' = TRUE
    /\ UNCHANGED <<slots, happened>>

Discard ==
    /\ Answer
    /\ slots' = Tail(slots)
    /\ UNCHANGED <<doc, dirty, timer, happened>>

(* Escape: "keep the snapshot for next launch, load nothing". *)
Keep ==
    /\ Answer
    /\ UNCHANGED <<doc, dirty, timer, slots, happened>>
-----------------------------------------------------------------------------
Next ==
    \/ Edit
    \/ SilentEdit
    \/ New
    \/ \E o \in Ops : Save(o)
    \/ \E o \in Ops, p \in Paths : SaveAs(o, p)
    \/ \E o \in Ops : Rename(o)
    \/ \E o \in Ops : SyncDirectory(o)
    \/ \E o \in Ops : Saved(o)
    \/ \E o \in Ops : SaveFails(o)
    \/ \E o \in Ops, p \in Paths : Open(o, p)
    \/ \E o \in Ops : Opened(o)
    \/ TimerFires
    \/ Written
    \/ WriteFails
    \/ Clear
    \/ ClearFails
    \/ Crash
    \/ PowerCut
    \/ Launch
    \/ Recover
    \/ Discard
    \/ Keep

Spec == Init /\ [][Next]_vars
-----------------------------------------------------------------------------
(* Properties.                                                             *)

TypeOK ==
    /\ running \in {"on", "prompt", "off"}
    /\ doc \in Contents
    /\ path \in Paths \cup {None}
    /\ dirty \in BOOLEAN /\ timer \in BOOLEAN
    /\ op \in [Ops -> {None} \cup Calls]
    /\ clears \in Seq(Slots)
    /\ writing \in {None} \cup Snapshots
    /\ slots \in Seq(Filings)
    /\ \A i, j \in DOMAIN slots : slots[i].slot = slots[j].slot => i = j
    /\ disk \in [Paths -> Contents \cup {None}]
    /\ durable \in [Paths -> Contents \cup {None}]
    /\ docs \in 1 .. MaxDocs + MaxMishaps
    /\ lost \in {None} \cup Snapshots
    /\ happened \subseteq
           {"race", "missed", "leftBehind", "crashedSaving"}
    /\ mishaps \in 0 .. MaxMishaps

Unless(events) == happened \cap events = {}

(* A document that is shown as saved is what its file holds, also after a  *)
(* power cut.  (Unless it changed while a save was under way, or two saves *)
(* or opens were: the flag is cleared for whatever is open when a save     *)
(* returns.)                                                               *)
CleanMeansSaved ==
    running = "on" /\ ~dirty /\ path # None =>
        /\ Unless({"race"}) => disk[path] = doc
        /\ Unless({"race", "crashedSaving"}) =>
               durable[path] = doc

(* ... which the code does not promise: the flag it clears is that of the  *)
(* document that is open now, not of the one that was written.             *)
ShownSavedIsSaved ==
    running = "on" /\ ~dirty /\ path # None => disk[path] = doc

(* A plain save writes over no other document than the one it came from.   *)
SaveStaysInItsDocument ==
    [][\A p \in Paths :
          \/ disk'[p] = disk[p] \/ disk[p] = None \/ running' = "off"
          \/ disk'[p].line = disk[p].line
          \/ \E o \in Ops : op[o] # None /\ op[o].kind = "saveAs" /\ op[o].path = p
          \/ ~Unless({"race"})]_vars

(* Unsaved work that nobody is about to snapshot has its snapshot.         *)
(* (Unless a snapshot failed or its timer found another under way, the     *)
(* last change was one the timer does not hear of, or a save cleared late.)*)
UnsavedIsCovered ==
    running = "on" /\ dirty /\ ~timer /\ writing = None =>
        \/ Covered
        \/ ~Unless({"missed", "race"})

(* The work a crash took is what the next launch offers.                   *)
NewestIsOffered ==
    running = "prompt" /\ lost # None => slots[1] = lost

(* A snapshot filed under a file holds what the file does not: whoever is  *)
(* asked whether to recover it has something to gain.  (Unless its save    *)
(* left it behind or was cut off by a crash.)                              *)
Superseded(s) ==
    /\ s.slot # Untitled /\ s.doc # Torn
    /\ disk[s.slot] # None /\ disk[s.slot].line = s.doc.line
    /\ s.doc.rev <= disk[s.slot].rev

SnapshotsAreUnsaved ==
    \A i \in DOMAIN slots :
        Superseded(slots[i]) =>
            \/ Contains(clears, slots[i].slot)
            \/ \E o \in Ops : op[o] # None /\ op[o].path = slots[i].slot
            \/ ~Unless({"leftBehind", "crashedSaving", "race"})

(* A snapshot goes when its work is saved or the user discards it: also    *)
(* one that was kept for the next launch.                                  *)
KeptSnapshotStays ==
    [][\A i \in DOMAIN slots :
          LET s == slots[i]
          IN  \/ \E j \in DOMAIN slots' : slots'[j].slot = s.slot
              \/ running = "prompt" \/ s.doc = Torn
              \/ \E p \in Paths : disk[p] # None /\ disk[p].line = s.doc.line
                                  /\ s.doc.rev <= disk[p].rev]_vars
=============================================================================
