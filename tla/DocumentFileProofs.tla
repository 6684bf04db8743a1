------------------------- MODULE DocumentFileProofs -------------------------
(***************************************************************************)
(* The open document, its file and its snapshots: what is shown as saved   *)
(* is in the file, what is unsaved has its snapshot, and what a crash took *)
(* is what the next launch offers.                                         *)
(***************************************************************************)
EXTENDS DocumentFile, SequenceFilterProofs

-----------------------------------------------------------------------------
(* The inductive invariant.                                                *)

(* Before the document is shown nothing is under way. *)
NothingYet ==
    running # "on" =>
        /\ path = None /\ ~dirty /\ ~timer /\ clears = <<>> /\ writing = None
        /\ \A o \in Ops : op[o] = None

(* A crash is paid for before the launch that follows it. *)
DocsAreBudgeted ==
    /\ docs + mishaps <= MaxDocs + MaxMishaps
    /\ running = "off" => docs + 1 + mishaps <= MaxDocs + MaxMishaps

(* No content is newer than the newest. *)
Known(c) == c.rev <= docs

ContentsAreKnown ==
    /\ Known(doc)
    /\ \A p \in Paths : /\ disk[p] \in Contents => Known(disk[p])
                        /\ durable[p] \in Contents => Known(durable[p])
    /\ \A o \in Ops : op[o] # None => Known(op[o].doc)
    /\ writing # None => Known(writing.doc)
    /\ \A i \in DOMAIN slots : slots[i].doc # Torn => Known(slots[i].doc)

(* A call that reads has one stage, a call that writes has the others. *)
CallsAreReads ==
    \A o \in Ops : op[o] # None => (op[o].kind = "open" <=> op[o].stage = "read")

(* The file of a call that has renamed is in its place. *)
InPlace == {"renamed", "done"}
Landed(p) == \E o \in Ops : op[o] # None /\ op[o].path = p /\ op[o].stage \in InPlace

NoRace == Unless({"race"})

(* One call at a time is under way; a save holds the open document, and    *)
(* what has landed is in the file.                                         *)
OneAtATime == \A o, x \in Ops : op[o] # None /\ op[x] # None => o = x

CallIsTrue(c) ==
    /\ c.kind # "open" => c.doc = doc
    /\ c.kind = "save" => c.path = path
    /\ c.stage # "built" => disk[c.path] = c.doc
    /\ c.stage = "done" => durable[c.path] = disk[c.path]

CallsAreTrue ==
    NoRace => OneAtATime /\ \A o \in Ops : op[o] # None => CallIsTrue(op[o])

(* The file of the open document holds an earlier state of it, and what    *)
(* it holds is older than what is unsaved.                                 *)
FileIsOurs ==
    NoRace /\ path # None =>
        /\ disk[path] \in Contents /\ disk[path].line = doc.line
        /\ dirty => disk[path].rev < doc.rev \/ Landed(path)

(* The disk keeps what a reader finds, except between rename and sync.     *)
DiskIsDurable ==
    Unless({"race", "crashedSaving"}) =>
        \A p \in Paths :
            \/ durable[p] = disk[p]
            \/ \E o \in Ops : op[o] # None /\ op[o].path = p /\ op[o].stage = "renamed"

(* Unsaved work that the timer does not wait for is being snapshotted, or  *)
(* has its snapshot.                                                       *)
UnsavedIsKept ==
    Unless({"missed"}) /\ running = "on" /\ dirty /\ ~timer =>
        IF writing = None THEN Covered ELSE writing = Snapshot

(* The snapshot of what is unsaved is the newest, and stays so.            *)
NewestFirst ==
    running = "on" /\ dirty /\ Covered =>
        slots # <<>> /\ slots[1] = Snapshot /\ writing \in {None, Snapshot}

LostIsFirst ==
    running # "on" /\ lost # None => slots # <<>> /\ slots[1] = lost

OfferIsReadable == running = "prompt" => slots # <<>> /\ slots[1].doc # Torn

(* Work that has a file has never been snapshotted without one, so what is *)
(* recovered from the snapshot of a file is not in an untitled one.        *)
NotUntitled(c) == \A i \in DOMAIN slots : slots[i] # [slot |-> Untitled, doc |-> c]

UntitledFirst ==
    /\ \A i, j \in DOMAIN slots :
          slots[i].slot = Untitled /\ slots[i].doc = slots[j].doc /\ slots[i].doc # Torn
             => i <= j
    /\ writing # None /\ writing.slot # Untitled => NotUntitled(writing.doc)
    /\ running = "on" /\ dirty /\ path # None =>
          /\ NotUntitled(doc)
          /\ writing # [slot |-> Untitled, doc |-> doc]

(* A snapshot the file has caught up with is about to be cleared.          *)
Leaving(slot) == Contains(clears, slot) \/ Landed(slot)

SupersededAreLeaving ==
    Unless({"leftBehind", "crashedSaving", "race"}) =>
        /\ \A i \in DOMAIN slots : Superseded(slots[i]) => Leaving(slots[i].slot)
        /\ writing # None /\ Superseded(writing) => Leaving(writing.slot)

IInv ==
    /\ TypeOK /\ NothingYet /\ DocsAreBudgeted /\ ContentsAreKnown
    /\ CallsAreReads /\ CallsAreTrue /\ FileIsOurs /\ DiskIsDurable /\ CleanMeansSaved
    /\ UnsavedIsKept /\ NewestFirst /\ LostIsFirst /\ OfferIsReadable /\ UntitledFirst
    /\ SupersededAreLeaving
-----------------------------------------------------------------------------
(* What the parts of the steps come to.                                    *)

(* The snapshots that are left keep their order. *)
Embeds(r, s) ==
    \E e \in [DOMAIN r -> DOMAIN s] :
        /\ \A k \in DOMAIN r : r[k] = s[e[k]]
        /\ \A k, l \in DOMAIN r : k < l => e[k] < e[l]

OnePerSlot(s) == \A i, j \in DOMAIN s : s[i].slot = s[j].slot => i = j

LEMMA EmbeddedAre ==
    ASSUME NEW s \in Seq(Filings), NEW r \in Seq(Filings), Embeds(r, s)
    PROVE  /\ OnePerSlot(s) => OnePerSlot(r)
           /\ \A k \in DOMAIN r : \E i \in DOMAIN s : r[k] = s[i]
<1>1. PICK e \in [DOMAIN r -> DOMAIN s] :
         /\ \A k \in DOMAIN r : r[k] = s[e[k]]
         /\ \A k, l \in DOMAIN r : k < l => e[k] < e[l]
  BY DEF Embeds
<1>2. DOMAIN r = 1 .. Len(r) /\ Len(r) \in Nat /\ DOMAIN s = 1 .. Len(s) /\ Len(s) \in Nat
  BY LenProperties
<1>3. \A k, l \in DOMAIN r : k < l \/ k = l \/ l < k
  BY <1>2
<1>4. \A k, l \in DOMAIN r : e[k] = e[l] => k = l
  <2> SUFFICES ASSUME NEW k \in DOMAIN r, NEW l \in DOMAIN r, e[k] = e[l], k # l
               PROVE  FALSE
    OBVIOUS
  <2>1. e[k] \in Int /\ e[l] \in Int
    BY <1>2
  <2>2. e[k] < e[l] \/ e[l] < e[k]
    BY <1>1, <1>3
  <2> QED
    BY <2>1, <2>2
<1>5. ASSUME OnePerSlot(s) PROVE OnePerSlot(r)
  <2> SUFFICES ASSUME NEW k \in DOMAIN r, NEW l \in DOMAIN r, r[k].slot = r[l].slot
               PROVE  k = l
    BY DEF OnePerSlot
  <2>1. s[e[k]].slot = s[e[l]].slot
    BY <1>1
  <2>2. e[k] = e[l]
    BY <1>1, <1>5, <2>1 DEF OnePerSlot
  <2> QED
    BY <1>4, <2>2
<1> QED
  BY <1>1, <1>5

LEMMA OthersAre ==
    ASSUME slots \in Seq(Filings), NEW slot
    PROVE  /\ Others(slot) \in Seq(Filings) /\ Embeds(Others(slot), slots)
           /\ \A k \in DOMAIN Others(slot) : Others(slot)[k].slot # slot
           /\ \A i \in DOMAIN slots : slots[i].slot # slot =>
                 \E k \in DOMAIN Others(slot) : Others(slot)[k] = slots[i]
           /\ slots # <<>> /\ slots[1].slot # slot =>
                 Others(slot) # <<>> /\ Others(slot)[1] = slots[1]
<1> DEFINE T == {s \in Range(slots) : s.slot # slot}
           r == Filtered(slots, T)
<1>1. r = Others(slot)
  BY DEF Others
<1>2. \A i \in DOMAIN slots : slots[i] \in T <=> slots[i].slot # slot
  BY DEF Range
<1>3. \A x \in T : x.slot # slot
  OBVIOUS
<1>4. slots # <<>> => 1 \in DOMAIN slots
  <2>1. Len(slots) \in Nat /\ DOMAIN slots = 1 .. Len(slots) /\ (slots # <<>> => Len(slots) # 0)
    BY LenProperties, EmptySeq
  <2> QED
    BY <2>1
<1> HIDE DEF T
<1>5. /\ r \in Seq(Filings)
      /\ \E e \in [DOMAIN r -> Places(slots, T)] :
            /\ \A k \in DOMAIN r : r[k] = slots[e[k]]
            /\ \A k, l \in DOMAIN r : k < l => e[k] < e[l]
  BY FilterEmbeds
<1>6. Places(slots, T) \subseteq DOMAIN slots
  BY DEF Places
<1>7. /\ \A k \in DOMAIN r : r[k] \in T
      /\ \A i \in DOMAIN slots : slots[i] \in T => \E k \in DOMAIN r : r[k] = slots[i]
  BY FilterKeeps
<1>8. slots # <<>> /\ slots[1] \in T => r # <<>> /\ r[1] = slots[1]
  BY FirstStays
<1> HIDE DEF r
<1>9. Embeds(r, slots)
  <2>1. PICK e \in [DOMAIN r -> Places(slots, T)] :
           /\ \A k \in DOMAIN r : r[k] = slots[e[k]]
           /\ \A k, l \in DOMAIN r : k < l => e[k] < e[l]
    BY <1>5
  <2>2. e \in [DOMAIN r -> DOMAIN slots]
    BY <1>6
  <2> QED
    BY <2>1, <2>2 DEF Embeds
<1> QED
  BY <1>1, <1>2, <1>3, <1>4, <1>5, <1>7, <1>8, <1>9

(* A snapshot goes in front of the others. *)
LEMMA FiledIs ==
    ASSUME slots \in Seq(Filings), NEW s \in Filings
    PROVE  /\ Filed(s) \in Seq(Filings) /\ Filed(s) # <<>> /\ Filed(s)[1] = s
           /\ OnePerSlot(slots) => OnePerSlot(Filed(s))
           /\ 1 \in DOMAIN Filed(s) /\ DOMAIN Filed(s) \subseteq Nat \ {0}
           /\ \A k \in DOMAIN Filed(s) : k # 1 =>
                 /\ k - 1 \in DOMAIN Others(s.slot)
                 /\ Filed(s)[k] = Others(s.slot)[k - 1]
<1> DEFINE t == Others(s.slot)
           r == Filed(s)
<1>1. /\ t \in Seq(Filings) /\ Embeds(t, slots) /\ \A k \in DOMAIN t : t[k].slot # s.slot
  BY OthersAre
<1>2. r = <<s>> \o t
  BY DEF Filed
<1> HIDE DEF t
<1>3. /\ r \in Seq(Filings) /\ Len(r) = Len(t) + 1 /\ Len(t) \in Nat
      /\ DOMAIN t = 1 .. Len(t) /\ DOMAIN r = 1 .. Len(r)
      /\ \A i \in 1 .. Len(t) + 1 : r[i] = IF i <= 1 THEN s ELSE t[i - 1]
  <2>1. <<s>> \in Seq(Filings) /\ Len(<<s>>) = 1 /\ <<s>>[1] = s
    OBVIOUS
  <2> DEFINE h == <<s>>
  <2>2. h \in Seq(Filings) /\ Len(h) = 1 /\ h[1] = s /\ r = h \o t
    BY <1>2, <2>1
  <2> HIDE DEF h, r
  <2>3. /\ r \in Seq(Filings) /\ Len(r) = Len(h) + Len(t)
        /\ \A i \in 1 .. Len(h) + Len(t) :
              r[i] = IF i <= Len(h) THEN h[i] ELSE t[i - Len(h)]
    BY <1>1, <2>2, ConcatProperties
  <2>4. Len(t) \in Nat /\ DOMAIN t = 1 .. Len(t) /\ DOMAIN r = 1 .. Len(r)
    BY <1>1, <2>3, LenProperties
  <2>5. \A i \in 1 .. Len(t) + 1 : r[i] = IF i <= 1 THEN s ELSE t[i - 1]
    BY <2>2, <2>3, <2>4
  <2> QED
    BY <2>2, <2>3, <2>4, <2>5
<1> HIDE DEF r
<1>4. /\ 1 \in DOMAIN r /\ r[1] = s /\ DOMAIN r \subseteq Nat \ {0}
      /\ \A k \in DOMAIN r : k # 1 => k - 1 \in DOMAIN t /\ r[k] = t[k - 1]
  BY <1>3
<1>5. r # <<>>
  BY <1>3, <1>4, EmptySeq
<1>6. ASSUME OnePerSlot(slots) PROVE OnePerSlot(r)
  <2>1. OnePerSlot(t)
    BY <1>1, <1>6, EmbeddedAre
  <2> SUFFICES ASSUME NEW k \in DOMAIN r, NEW l \in DOMAIN r, r[k].slot = r[l].slot
               PROVE  k = l
    BY DEF OnePerSlot
  <2>2. CASE k = 1 \/ l = 1
    BY <1>1, <1>4, <2>2
  <2>3. CASE k # 1 /\ l # 1
    <3>1. k - 1 = l - 1 /\ k \in Nat /\ l \in Nat
      BY <1>4, <2>1, <2>3 DEF OnePerSlot
    <3> QED
      BY <3>1
  <2> QED
    BY <2>2, <2>3
<1> QED
  BY <1>3, <1>4, <1>5, <1>6 DEF t, r

(* What a call becomes. *)
OpBecomes(o, c) ==
    /\ op'[o] = c
    /\ \A x \in Ops : x # o => op'[x] = op[x]

(* A save or an open begins with what is there. *)
Begun(c) ==
    /\ c.kind # "open" => c.doc = doc /\ c.stage = "built"
    /\ c.kind = "save" => path # None /\ c.path = path
    /\ c.kind = "open" => c.stage = "read" /\ c.doc = disk[c.path]

Begins(o, c) ==
    /\ running = "on" /\ op[o] = None /\ clears = <<>>
    /\ OpBecomes(o, c)
    /\ (\E x \in Ops : op[x] # None) => "race" \in happened'
    /\ Begun(c)
    /\ UNCHANGED running /\ UNCHANGED doc /\ UNCHANGED path /\ UNCHANGED dirty
    /\ UNCHANGED clears /\ UNCHANGED timer /\ UNCHANGED writing /\ UNCHANGED slots
    /\ UNCHANGED disk /\ UNCHANGED durable /\ UNCHANGED docs /\ UNCHANGED lost
    /\ UNCHANGED mishaps

LEMMA StartBegins ==
    ASSUME TypeOK, NEW o \in Ops, NEW c \in Calls, Start(o, c), Begun(c)
    PROVE  Begins(o, c) /\ op' \in [Ops -> {None} \cup Calls]
<1>1. op \in [Ops -> {None} \cup Calls]
  BY DEF TypeOK
<1>2. op' = [op EXCEPT ![o] = c]
  BY DEF Start
<1>3. OpBecomes(o, c) /\ op' \in [Ops -> {None} \cup Calls]
  BY <1>1, <1>2 DEF OpBecomes
<1>4. (\E x \in Ops : op[x] # None) => "race" \in happened'
  BY DEF Start, Note
<1> QED
  BY <1>3, <1>4 DEF Start, Begins

LEMMA Beginning ==
    ASSUME TypeOK, NEW o \in Ops,
           Save(o) \/ \E p \in Paths : SaveAs(o, p) \/ Open(o, p)
    PROVE  /\ \E c \in Calls : Begins(o, c)
           /\ op' \in [Ops -> {None} \cup Calls]
<1>1. /\ doc \in Contents /\ path \in Paths \cup {None}
      /\ disk \in [Paths -> Contents \cup {None}]
  BY DEF TypeOK
<1>2. CASE Save(o)
  <2> DEFINE c == [kind |-> "save", path |-> path, doc |-> doc, stage |-> "built"]
  <2>1. c \in Calls /\ Start(o, c)
    BY <1>1, <1>2 DEF Save, Calls
  <2>2. c.kind = "save" /\ c.path = path /\ c.doc = doc /\ c.stage = "built" /\ path # None
    BY <1>2 DEF Save
  <2> HIDE DEF c
  <2>3. Begun(c)
    BY <2>2 DEF Begun
  <2> QED
    BY <2>1, <2>3, StartBegins
<1>3. ASSUME NEW p \in Paths, SaveAs(o, p)
      PROVE  \E c \in Calls : Start(o, c) /\ Begun(c)
  <2> DEFINE c == [kind |-> "saveAs", path |-> p, doc |-> doc, stage |-> "built"]
  <2>1. c \in Calls /\ Start(o, c)
    BY <1>1, <1>3 DEF SaveAs, Calls
  <2>2. c.kind = "saveAs" /\ c.doc = doc /\ c.stage = "built"
    OBVIOUS
  <2> HIDE DEF c
  <2>3. Begun(c)
    BY <2>2 DEF Begun
  <2> QED
    BY <2>1, <2>3
<1>4. ASSUME NEW p \in Paths, Open(o, p)
      PROVE  \E c \in Calls : Start(o, c) /\ Begun(c)
  <2> DEFINE c == [kind |-> "open", path |-> p, doc |-> disk[p], stage |-> "read"]
  <2>1. disk[p] \in Contents
    BY <1>1, <1>4 DEF Open
  <2>2. c \in Calls /\ Start(o, c)
    BY <2>1, <1>4 DEF Open, Calls
  <2>3. c.kind = "open" /\ c.doc = disk[p] /\ c.stage = "read" /\ c.path = p
    OBVIOUS
  <2> HIDE DEF c
  <2>4. Begun(c)
    BY <2>3 DEF Begun
  <2> QED
    BY <2>2, <2>4
<1> QED
  BY <1>2, <1>3, <1>4, StartBegins

(* A call that moves on stays the same call. *)
Moves(o, c) ==
    /\ op[o] # None /\ OpBecomes(o, c)
    /\ c.kind = op[o].kind /\ c.path = op[o].path /\ c.doc = op[o].doc

LEMMA Moving ==
    ASSUME TypeOK, NEW o \in Ops, NEW from,
           NEW to \in {"built", "renamed", "done", "read"}, Stage(o, from, to)
    PROVE  /\ \E c \in Calls : Moves(o, c) /\ c.stage = to
           /\ op' \in [Ops -> {None} \cup Calls] /\ op[o] \in Calls /\ op[o].stage = from
<1>1. op \in [Ops -> {None} \cup Calls]
  BY DEF TypeOK
<1>2. op[o] # None /\ op[o] \in Calls /\ op[o].stage = from
  BY <1>1 DEF Stage
<1> DEFINE c == [op[o] EXCEPT !.stage = to]
<1>3. /\ c \in Calls /\ c.stage = to /\ c.kind = op[o].kind /\ c.path = op[o].path
      /\ c.doc = op[o].doc
  BY <1>2 DEF Calls
<1>4. op' = [op EXCEPT ![o] = c]
  BY DEF Stage
<1> HIDE DEF c
<1>5. OpBecomes(o, c) /\ op' \in [Ops -> {None} \cup Calls]
  BY <1>1, <1>3, <1>4 DEF OpBecomes
<1> QED
  BY <1>2, <1>3, <1>5 DEF Moves

LEMMA Ending ==
    ASSUME TypeOK, NEW o \in Ops, Saved(o) \/ SaveFails(o) \/ Opened(o)
    PROVE  /\ OpBecomes(o, None)
           /\ op' \in [Ops -> {None} \cup Calls] /\ op[o] \in Calls /\ op[o] # None
<1>1. op \in [Ops -> {None} \cup Calls]
  BY DEF TypeOK
<1>2. op[o] # None /\ op' = [op EXCEPT ![o] = None]
  BY DEF Saved, SaveFails, Opened
<1> QED
  BY <1>1, <1>2 DEF OpBecomes

LEMMA CallFields ==
    ASSUME NEW c \in Calls
    PROVE  /\ c.kind \in {"save", "saveAs", "open"} /\ c.path \in Paths
           /\ c.doc \in Contents /\ c.stage \in {"built", "renamed", "done", "read"}
           /\ c # None
BY FileAssumption DEF Calls

(* The steps of a call, whichever call it is. *)
ABegin  == \E o \in Ops : Save(o) \/ \E p \in Paths : SaveAs(o, p) \/ Open(o, p)
ARename == \E o \in Ops : Rename(o)
ASync   == \E o \in Ops : SyncDirectory(o)
ASaved  == \E o \in Ops : Saved(o)
AFail   == \E o \in Ops : SaveFails(o)
AOpened == \E o \in Ops : Opened(o)

(* Which steps change what. *)
Owners ==
    /\ happened \subseteq happened'
    /\ UNCHANGED running \/ Crash \/ PowerCut \/ Launch \/ Recover
       \/ Discard \/ Keep
    /\ UNCHANGED doc \/ Edit \/ SilentEdit \/ New \/ AOpened \/ Launch
       \/ Recover
    /\ UNCHANGED docs \/ Edit \/ SilentEdit \/ New \/ Launch
    /\ UNCHANGED path \/ New \/ ASaved \/ AOpened \/ Crash \/ PowerCut
    /\ UNCHANGED dirty \/ Edit \/ SilentEdit \/ New \/ ASaved \/ AFail
       \/ AOpened \/ Crash \/ PowerCut \/ Recover
    /\ UNCHANGED op \/ ABegin \/ ARename \/ ASync \/ ASaved \/ AFail
       \/ AOpened \/ Crash \/ PowerCut
    /\ UNCHANGED clears \/ ASaved \/ Clear \/ ClearFails \/ Crash \/ PowerCut
    /\ UNCHANGED timer \/ Edit \/ SilentEdit \/ AOpened \/ TimerFires
       \/ Crash \/ PowerCut \/ Recover
    /\ UNCHANGED writing \/ TimerFires \/ Written \/ WriteFails \/ Crash
       \/ PowerCut
    /\ UNCHANGED slots \/ Written \/ Clear \/ PowerCut \/ Discard
    /\ UNCHANGED disk \/ ARename \/ PowerCut
    /\ UNCHANGED durable \/ ASync \/ PowerCut
    /\ UNCHANGED lost \/ Crash \/ PowerCut \/ Recover \/ Discard \/ Keep
    /\ UNCHANGED mishaps \/ AFail \/ WriteFails \/ Crash \/ PowerCut

LEMMA Steps ==
    ASSUME [Next]_vars
    PROVE  /\ \/ Edit \/ SilentEdit \/ New \/ ABegin \/ ARename \/ ASync \/ ASaved
              \/ AFail \/ AOpened \/ TimerFires \/ Written \/ WriteFails \/ Clear
              \/ ClearFails \/ Crash \/ PowerCut \/ Launch \/ Recover \/ Discard \/ Keep
              \/ UNCHANGED vars
           /\ Owners
<1>1. ASSUME Edit PROVE Owners
  BY <1>1 DEF Edit, Note, Fresh, Owners
<1>2. ASSUME SilentEdit PROVE Owners
  BY <1>2 DEF SilentEdit, Note, Fresh, Owners
<1>3. ASSUME New PROVE Owners
  BY <1>3 DEF New, Note, Fresh, Owners
<1>4. ASSUME ABegin PROVE Owners
  <2>1. PICK o \in Ops : Save(o) \/ \E p \in Paths : SaveAs(o, p) \/ Open(o, p)
    BY <1>4 DEF ABegin
  <2>2. CASE Save(o)
    BY <1>4, <2>2 DEF Save, Start, Note, Owners
  <2>3. ASSUME NEW p \in Paths, SaveAs(o, p) PROVE Owners
    BY <1>4, <2>3 DEF SaveAs, Start, Note, Owners
  <2>4. ASSUME NEW p \in Paths, Open(o, p) PROVE Owners
    BY <1>4, <2>4 DEF Open, Start, Note, Owners
  <2> QED
    BY <2>1, <2>2, <2>3, <2>4
<1>5. ASSUME ARename PROVE Owners
  <2>1. PICK o \in Ops : Rename(o)
    BY <1>5 DEF ARename
  <2> QED
    BY <1>5, <2>1 DEF Rename, Stage, Owners
<1>6. ASSUME ASync PROVE Owners
  <2>1. PICK o \in Ops : SyncDirectory(o)
    BY <1>6 DEF ASync
  <2> QED
    BY <1>6, <2>1 DEF SyncDirectory, Stage, Owners
<1>7. ASSUME ASaved PROVE Owners
  <2>1. PICK o \in Ops : Saved(o)
    BY <1>7 DEF ASaved
  <2> QED
    BY <1>7, <2>1 DEF Saved, Owners
<1>8. ASSUME AFail PROVE Owners
  <2>1. PICK o \in Ops : SaveFails(o)
    BY <1>8 DEF AFail
  <2> QED
    BY <1>8, <2>1 DEF SaveFails, Mishap, Owners
<1>9. ASSUME AOpened PROVE Owners
  <2>1. PICK o \in Ops : Opened(o)
    BY <1>9 DEF AOpened
  <2> QED
    BY <1>9, <2>1 DEF Opened, Note, Owners
<1>10. ASSUME TimerFires PROVE Owners
  BY <1>10 DEF TimerFires, Note, Owners
<1>11. ASSUME Written PROVE Owners
  BY <1>11 DEF Written, Owners
<1>12. ASSUME WriteFails PROVE Owners
  BY <1>12 DEF WriteFails, Mishap, Note, Owners
<1>13. ASSUME Clear PROVE Owners
  BY <1>13 DEF Clear, Note, Owners
<1>14. ASSUME Crash PROVE Owners
  BY <1>14 DEF Crash, Forget, Mishap, Note, Owners
<1>15. ASSUME PowerCut PROVE Owners
  BY <1>15 DEF PowerCut, Forget, Mishap, Note, Owners
<1>16. ASSUME Launch PROVE Owners
  BY <1>16 DEF Launch, Fresh, Owners
<1>17. ASSUME Recover PROVE Owners
  BY <1>17 DEF Recover, Answer, Owners
<1>18. ASSUME Discard PROVE Owners
  BY <1>18 DEF Discard, Answer, Owners
<1>19. ASSUME Keep PROVE Owners
  BY <1>19 DEF Keep, Answer, Owners
<1>20. ASSUME UNCHANGED vars PROVE Owners
  BY <1>20 DEF vars, memory, Owners
<1>22. ASSUME ClearFails PROVE Owners
  BY <1>22 DEF ClearFails, Note, Owners
<1>21. ASSUME Next
      PROVE  \/ Edit \/ SilentEdit \/ New \/ ABegin \/ ARename \/ ASync \/ ASaved
             \/ AFail \/ AOpened \/ TimerFires \/ Written \/ WriteFails \/ Clear
             \/ ClearFails \/ Crash \/ PowerCut \/ Launch \/ Recover \/ Discard \/ Keep
  BY <1>21 DEF Next, ABegin, ARename, ASync, ASaved, AFail, AOpened
<1> QED
  BY <1>1, <1>2, <1>3, <1>4, <1>5, <1>6, <1>7, <1>8, <1>9, <1>10, <1>11, <1>12, <1>13, <1>14, <1>15, <1>16, <1>17, <1>18, <1>19, <1>20,
     <1>21, <1>22

(* The numbers of contents stay within their bound. *)
LEMMA BudgetStep ==
    ASSUME TypeOK, NothingYet, DocsAreBudgeted, [Next]_vars
    PROVE  /\ docs' \in 1 .. MaxDocs + MaxMishaps /\ mishaps' \in 0 .. MaxMishaps
           /\ DocsAreBudgeted' /\ docs <= docs'
<1>1. /\ docs \in 1 .. MaxDocs + MaxMishaps /\ mishaps \in 0 .. MaxMishaps
      /\ running \in {"on", "prompt", "off"}
      /\ MaxDocs \in Nat /\ MaxMishaps \in Nat
      /\ docs + mishaps <= MaxDocs + MaxMishaps
      /\ running = "off" => docs + 1 + mishaps <= MaxDocs + MaxMishaps
  BY FileAssumption DEF TypeOK, DocsAreBudgeted
<1> DEFINE Goal ==
       /\ docs' \in Int /\ mishaps' \in 0 .. MaxMishaps /\ docs <= docs'
       /\ docs' + mishaps' <= MaxDocs + MaxMishaps
       /\ running' = "off" => docs' + 1 + mishaps' <= MaxDocs + MaxMishaps
<1>2. ASSUME Goal
      PROVE  /\ docs' \in 1 .. MaxDocs + MaxMishaps /\ mishaps' \in 0 .. MaxMishaps
             /\ DocsAreBudgeted' /\ docs <= docs'
  <2>1. \A a, b, d, e, m \in Int :
           1 <= d /\ d <= e /\ 0 <= m /\ e + m <= a + b => e \in 1 .. a + b
    OBVIOUS
  <2>2. docs \in Int /\ 1 <= docs /\ MaxDocs \in Int /\ MaxMishaps \in Int
    BY <1>1
  <2>3. docs' \in Int /\ docs <= docs' /\ mishaps' \in 0 .. MaxMishaps
    BY <1>2
  <2>4. docs' + mishaps' <= MaxDocs + MaxMishaps
    BY <1>2
  <2>5. mishaps' \in Int /\ 0 <= mishaps'
    BY <1>1, <2>3
  <2>6. running' = "off" => docs' + 1 + mishaps' <= MaxDocs + MaxMishaps
    BY <1>2
  <2> HIDE DEF Goal
  <2>7. docs' \in 1 .. MaxDocs + MaxMishaps
    BY <2>1, <2>2, <2>3, <2>4, <2>5
  <2>8. DocsAreBudgeted'
    BY <2>4, <2>6 DEF DocsAreBudgeted
  <2> QED
    BY <2>3, <2>7, <2>8
<1>3. Owners
  BY Steps
<1>4. CASE Edit \/ SilentEdit \/ New
  <2>1. /\ docs' = docs + 1 /\ UNCHANGED mishaps /\ running' = "on"
        /\ docs < MaxDocs + MaxMishaps - mishaps
    BY <1>4 DEF Edit, SilentEdit, New, Fresh
  <2> QED
    BY <1>1, <1>2, <2>1
<1>5. CASE AFail \/ WriteFails
  <2>1. UNCHANGED docs /\ UNCHANGED running /\ mishaps > 0 /\ mishaps' = mishaps - 1
    BY <1>5 DEF AFail, SaveFails, WriteFails, Mishap
  <2> QED
    BY <1>1, <1>2, <2>1
<1>6. CASE Crash \/ PowerCut
  <2>1. docs' = docs /\ running' = "off" /\ mishaps > 0 /\ mishaps' = mishaps - 1
    BY <1>6 DEF Crash, PowerCut, Mishap, Forget
  <2> QED
    BY <1>1, <1>2, <2>1
<1>7. CASE Launch
  <2>1. /\ docs' = docs + 1 /\ running = "off" /\ running' \in {"on", "prompt"}
        /\ UNCHANGED mishaps
    BY <1>7 DEF Launch, Fresh
  <2> QED
    BY <1>1, <1>2, <2>1
<1>8. CASE Recover \/ Discard \/ Keep
  <2>1. UNCHANGED docs /\ running' = "on" /\ UNCHANGED mishaps
    BY <1>8 DEF Recover, Discard, Keep, Answer
  <2> QED
    BY <1>1, <1>2, <2>1
<1>9. CASE UNCHANGED docs /\ UNCHANGED mishaps /\ UNCHANGED running
  BY <1>1, <1>2, <1>9
<1> HIDE DEF Goal
<1> QED
  BY <1>3, <1>4, <1>5, <1>6, <1>7, <1>8, <1>9 DEF Owners

LEMMA ScalarsStep ==
    ASSUME TypeOK, [Next]_vars
    PROVE  /\ running' \in {"on", "prompt", "off"}
           /\ dirty' \in BOOLEAN /\ timer' \in BOOLEAN
           /\ happened' \subseteq
                 {"race", "missed", "leftBehind", "crashedSaving"}
<1> USE DEF Note, Fresh, Answer, Forget, Armed, AfterFailure, Interrupted
<1>1. /\ running \in {"on", "prompt", "off"}
      /\ dirty \in BOOLEAN /\ timer \in BOOLEAN
      /\ happened \subseteq
            {"race", "missed", "leftBehind", "crashedSaving"}
  BY DEF TypeOK
<1>2. Owners
  BY Steps
<1>3. running' \in {"on", "prompt", "off"}
  <2>1. CASE Crash \/ PowerCut \/ Launch \/ Recover \/ Discard \/ Keep
    BY <2>1 DEF Crash, PowerCut, Launch, Recover, Discard, Keep
  <2> QED
    BY <1>1, <1>2, <2>1 DEF Owners
<1>4. dirty' \in BOOLEAN
  <2>1. CASE Edit \/ SilentEdit \/ New \/ ASaved \/ AFail \/ AOpened \/ Crash \/ PowerCut
             \/ Recover
    BY <1>1, <2>1 DEF Edit, SilentEdit, New, ASaved, AFail, AOpened, Saved, SaveFails,
                      Opened, Crash, PowerCut, Recover
  <2> QED
    BY <1>1, <1>2, <2>1 DEF Owners
<1>5. timer' \in BOOLEAN
  <2>1. CASE Edit \/ SilentEdit \/ AOpened \/ TimerFires \/ Crash \/ PowerCut \/ Recover
    BY <1>1, <2>1 DEF Edit, SilentEdit, AOpened, Opened, TimerFires, Crash, PowerCut,
                      Recover
  <2> QED
    BY <1>1, <1>2, <2>1 DEF Owners
<1> DEFINE Events == {"race", "missed", "leftBehind", "crashedSaving"}
<1>6. happened' = happened \/ \E E \in SUBSET Events : happened' = happened \cup E
  <2> DEFINE Goal == happened' = happened
                     \/ \E E \in SUBSET Events : happened' = happened \cup E
  <2>1. CASE Edit \/ New \/ AOpened
    BY <2>1 DEF Edit, New, AOpened, Opened
  <2>2. CASE SilentEdit
    <3> DEFINE E == (IF Saving THEN {"race"} ELSE {}) \cup (IF dirty THEN {"missed"} ELSE {})
    <3>1. happened' = happened \cup E /\ E \in SUBSET Events
      BY <2>2 DEF SilentEdit
    <3> QED
      BY <3>1
  <2>3. CASE ABegin
    BY <2>3 DEF ABegin, Save, SaveAs, Open, Start
  <2>4. CASE TimerFires \/ WriteFails
    BY <2>4 DEF TimerFires, WriteFails
  <2>5. CASE Clear
    <3> DEFINE E == (IF dirty THEN {"missed"} ELSE {})
                    \cup (IF writing # None THEN {"leftBehind"} ELSE {})
    <3>1. happened' = happened \cup E /\ E \in SUBSET Events
      BY <2>5 DEF Clear
    <3> QED
      BY <3>1
  <2>10. CASE ClearFails
    <3>1. happened' = happened \cup {"leftBehind"} /\ {"leftBehind"} \in SUBSET Events
      BY <2>10 DEF ClearFails
    <3> QED
      BY <3>1
  <2>6. CASE Crash \/ PowerCut
    BY <2>6 DEF Crash, PowerCut
  <2>7. CASE Launch \/ Recover \/ Discard \/ Keep \/ Written
    BY <2>7 DEF Launch, Recover, Discard, Keep, Written
  <2>8. CASE ARename \/ ASync \/ ASaved \/ AFail
    BY <2>8 DEF ARename, ASync, ASaved, AFail, Rename, SyncDirectory, Saved, SaveFails
  <2>9. CASE UNCHANGED vars
    BY <2>9 DEF vars
  <2> HIDE DEF Goal
  <2> QED
    BY <2>1, <2>2, <2>3, <2>4, <2>5, <2>6, <2>7, <2>8, <2>9, <2>10, Steps
<1> QED
  BY <1>1, <1>3, <1>4, <1>5, <1>6

(* A change makes a content with the newest number. *)
LEMMA Changing ==
    ASSUME TypeOK, NothingYet, DocsAreBudgeted, [Next]_vars
    PROVE  /\ Edit \/ SilentEdit =>
                 /\ doc' \in Contents /\ doc'.line = doc.line /\ doc'.rev = docs + 1
                 /\ docs' = docs + 1
           /\ New \/ Launch =>
                 /\ doc' \in Contents /\ doc'.line = docs + 1 /\ doc'.rev = docs + 1
                 /\ docs' = docs + 1
<1>1. doc \in Contents /\ docs' \in 1 .. MaxDocs + MaxMishaps
  BY BudgetStep DEF TypeOK
<1>2. ASSUME Edit \/ SilentEdit
      PROVE  /\ doc' \in Contents /\ doc'.line = doc.line /\ doc'.rev = docs + 1
             /\ docs' = docs + 1
  <2> DEFINE d == [doc EXCEPT !.rev = docs + 1]
  <2>1. doc' = d /\ docs' = docs + 1
    BY <1>2 DEF Edit, SilentEdit, Fresh
  <2>2. docs + 1 \in 0 .. MaxDocs + MaxMishaps
    BY <1>1, <2>1
  <2>3. d \in Contents /\ d.line = doc.line /\ d.rev = docs + 1
    BY <1>1, <2>2 DEF Contents
  <2> QED
    BY <2>1, <2>3
<1>3. ASSUME New \/ Launch
      PROVE  /\ doc' \in Contents /\ doc'.line = docs + 1 /\ doc'.rev = docs + 1
             /\ docs' = docs + 1
  <2>1. doc' = Blank /\ docs' = docs + 1
    BY <1>3 DEF New, Launch, Fresh
  <2>2. docs + 1 \in 0 .. MaxDocs + MaxMishaps
    BY <1>1, <2>1
  <2>3. Blank \in Contents /\ Blank.line = docs + 1 /\ Blank.rev = docs + 1
    BY <2>2 DEF Contents, Blank
  <2> QED
    BY <2>1, <2>3
<1> QED
  BY <1>2, <1>3

LEMMA DocumentStep ==
    ASSUME TypeOK, NothingYet, DocsAreBudgeted, OfferIsReadable, [Next]_vars
    PROVE  doc' \in Contents /\ path' \in Paths \cup {None}
<1>1. /\ doc \in Contents /\ path \in Paths \cup {None} /\ slots \in Seq(Filings)
  BY DEF TypeOK
<1>2. Owners
  BY Steps
<1>3. CASE Edit \/ SilentEdit \/ New \/ Launch
  <2>1. doc' \in Contents
    BY <1>3, Changing
  <2>2. path' \in Paths \cup {None}
    BY <1>1, <1>3 DEF Edit, SilentEdit, New, Launch, NoPath
  <2> QED
    BY <2>1, <2>2
<1>4. CASE AOpened
  <2>1. PICK o \in Ops : Opened(o)
    BY <1>4 DEF AOpened
  <2>2. op[o] \in Calls
    BY <2>1, Ending
  <2>3. doc' = op[o].doc /\ path' = op[o].path
    BY <2>1 DEF Opened
  <2> QED
    BY <2>2, <2>3, CallFields
<1>5. CASE Recover
  <2>1. running = "prompt" /\ doc' = slots[1].doc /\ UNCHANGED path
    BY <1>5 DEF Recover, Answer
  <2>2. slots # <<>> /\ slots[1].doc # Torn
    BY <2>1 DEF OfferIsReadable
  <2>3. slots[1] \in Filings
    BY <1>1, <2>2, TailElements
  <2>4. slots[1].doc \in Contents
    BY <2>2, <2>3 DEF Filings
  <2> QED
    BY <1>1, <2>1, <2>4
<1>6. CASE ASaved
  <2>1. PICK o \in Ops : Saved(o)
    BY <1>6 DEF ASaved
  <2>2. op[o] \in Calls
    BY <2>1, Ending
  <2>3. UNCHANGED doc /\ path' \in {path, op[o].path}
    BY <2>1 DEF Saved
  <2> QED
    BY <1>1, <2>2, <2>3, CallFields
<1>7. CASE Crash \/ PowerCut
  BY <1>1, <1>7 DEF Crash, PowerCut, Forget
<1>8. CASE UNCHANGED doc /\ UNCHANGED path
  BY <1>1, <1>8
<1> QED
  BY <1>2, <1>3, <1>4, <1>5, <1>6, <1>7, <1>8 DEF Owners

LEMMA CallsStep ==
    ASSUME TypeOK, [Next]_vars
    PROVE  op' \in [Ops -> {None} \cup Calls]
<1>1. op \in [Ops -> {None} \cup Calls]
  BY DEF TypeOK
<1>2. Owners
  BY Steps
<1>3. CASE ABegin
  BY <1>3, Beginning DEF ABegin
<1>4. CASE ARename
  BY <1>4, Moving DEF ARename, Rename
<1>5. CASE ASync
  BY <1>5, Moving DEF ASync, SyncDirectory
<1>6. CASE ASaved \/ AFail \/ AOpened
  BY <1>6, Ending DEF ASaved, AFail, AOpened
<1>7. CASE Crash \/ PowerCut
  BY <1>7 DEF Crash, PowerCut, Forget
<1> QED
  BY <1>1, <1>2, <1>3, <1>4, <1>5, <1>6, <1>7 DEF Owners

(* A save that returns has two snapshots to clear. *)
LEMMA Clearing ==
    ASSUME TypeOK, NEW o \in Ops, Saved(o)
    PROVE  /\ clears' \in Seq(Slots) /\ path' \in Slots
           /\ \A s \in Slots :
                 Contains(clears', s) <=> Contains(clears, s) \/ s = path' \/ s = Untitled
<1>1. clears \in Seq(Slots) /\ path \in Slots /\ op[o] \in Calls
  BY Ending DEF TypeOK, Slots, Untitled
<1>2. path' \in Slots
  BY <1>1, CallFields DEF Saved, Slots
<1> DEFINE t == <<path', Untitled>>
<1>3. clears' = clears \o t
  BY DEF Saved, ToClear, SlotFor
<1>4. t \in Seq(Slots) /\ Len(t) = 2 /\ t[1] = path' /\ t[2] = Untitled
  BY <1>2 DEF Slots
<1> HIDE DEF t
<1>5. /\ clears' \in Seq(Slots) /\ Len(clears') = Len(clears) + 2 /\ Len(clears) \in Nat
      /\ \A i \in 1 .. Len(clears) + 2 :
            clears'[i] = IF i <= Len(clears) THEN clears[i] ELSE t[i - Len(clears)]
  <2> DEFINE r == clears \o t
  <2>1. /\ r \in Seq(Slots) /\ Len(r) = Len(clears) + Len(t)
        /\ \A i \in 1 .. Len(clears) + Len(t) :
              r[i] = IF i <= Len(clears) THEN clears[i] ELSE t[i - Len(clears)]
    BY <1>1, <1>4, ConcatProperties
  <2>2. clears' = r
    BY <1>3
  <2>3. Len(clears) \in Nat
    BY <1>1, LenProperties
  <2> HIDE DEF r
  <2> QED
    BY <1>4, <2>1, <2>2, <2>3
<1>6. \A i \in 1 .. Len(clears) : i \in 1 .. Len(clears') /\ clears'[i] = clears[i]
  BY <1>5
<1>7. /\ Len(clears) + 1 \in 1 .. Len(clears') /\ clears'[Len(clears) + 1] = path'
      /\ Len(clears) + 2 \in 1 .. Len(clears') /\ clears'[Len(clears) + 2] = Untitled
  <2>1. /\ clears'[Len(clears) + 1] = t[Len(clears) + 1 - Len(clears)]
        /\ clears'[Len(clears) + 2] = t[Len(clears) + 2 - Len(clears)]
    BY <1>5
  <2>2. Len(clears) + 1 - Len(clears) = 1 /\ Len(clears) + 2 - Len(clears) = 2
    BY <1>5
  <2>3. Len(clears) + 1 \in 1 .. Len(clears') /\ Len(clears) + 2 \in 1 .. Len(clears')
    BY <1>5
  <2> QED
    BY <1>4, <2>1, <2>2, <2>3
<1>8. \A i \in 1 .. Len(clears') :
         i \in 1 .. Len(clears) \/ i = Len(clears) + 1 \/ i = Len(clears) + 2
  BY <1>5
<1> QED
  BY <1>2, <1>5, <1>6, <1>7, <1>8 DEF Contains

LEMMA WritingStep ==
    ASSUME TypeOK, [Next]_vars
    PROVE  /\ clears' \in Seq(Slots) /\ writing' \in {None} \cup Snapshots
           /\ lost' \in {None} \cup Snapshots
<1>1. /\ clears \in Seq(Slots) /\ writing \in {None} \cup Snapshots
      /\ lost \in {None} \cup Snapshots /\ path \in Slots /\ doc \in Contents
  BY DEF TypeOK, Slots, Untitled
<1>2. Owners
  BY Steps
<1>3. Snapshot \in Snapshots
  BY <1>1 DEF Snapshot, Snapshots, SlotFor
<1>4. clears' \in Seq(Slots)
  <2>1. CASE ASaved
    BY <2>1, Clearing DEF ASaved
  <2>2. CASE Clear
    <3>1. clears # <<>> /\ clears' = Tail(clears)
      BY <2>2 DEF Clear
    <3> QED
      BY <1>1, <3>1, TailElements
  <2>4. CASE ClearFails
    <3> DEFINE t == Tail(clears)
    <3>1. /\ clears # <<>>
          /\ clears' = IF Len(clears) % 2 = 1 THEN t ELSE Tail(t)
      BY <2>4 DEF ClearFails
    <3>2. /\ t \in Seq(Slots) /\ Len(clears) \in Nat \ {0}
          /\ DOMAIN t = 1 .. Len(clears) - 1
      BY <1>1, <3>1, TailElements
    <3> HIDE DEF t
    <3>3. ASSUME Len(clears) % 2 # 1 PROVE t # <<>>
      <4>1. \A n \in Nat \ {0} : n % 2 # 1 => 1 \in 1 .. n - 1
        OBVIOUS
      <4>2. 1 \in DOMAIN t
        BY <3>2, <3>3, <4>1
      <4>3. \E i \in DOMAIN t : TRUE
        BY <4>2
      <4> QED
        BY <4>3
    <3>4. t # <<>> => Tail(t) \in Seq(Slots)
      BY <3>2, TailElements
    <3> QED
      BY <3>1, <3>2, <3>3, <3>4
  <2>3. CASE Crash \/ PowerCut
    <3>1. clears' = <<>>
      BY <2>3 DEF Crash, PowerCut, Forget
    <3> QED
      BY <3>1
  <2> QED
    BY <1>1, <1>2, <2>1, <2>2, <2>3, <2>4 DEF Owners
<1>5. writing' \in {None} \cup Snapshots
  <2>1. CASE TimerFires
    <3>1. writing' = Snapshot \/ UNCHANGED writing
      BY <2>1 DEF TimerFires, Snapshot
    <3> QED
      BY <1>1, <1>3, <3>1
  <2>2. CASE Written \/ WriteFails \/ Crash \/ PowerCut
    BY <2>2 DEF Written, WriteFails, Crash, PowerCut, Forget
  <2> QED
    BY <1>1, <1>2, <2>1, <2>2 DEF Owners
<1>6. lost' \in {None} \cup Snapshots
  <2>1. CASE Crash
    <3>1. lost' = Snapshot \/ lost' = None
      BY <2>1 DEF Crash
    <3> QED
      BY <1>3, <3>1
  <2>2. CASE PowerCut \/ Recover \/ Discard \/ Keep
    BY <2>2 DEF PowerCut, Recover, Discard, Keep, Answer
  <2> QED
    BY <1>1, <1>2, <2>1, <2>2 DEF Owners
<1> QED
  BY <1>4, <1>5, <1>6

(* A power cut may tear snapshots and undo renames. *)
LEMMA Tearing ==
    ASSUME TypeOK, PowerCut
    PROVE  /\ slots' \in Seq(Filings) /\ DOMAIN slots' = DOMAIN slots
           /\ \A i \in DOMAIN slots :
                 /\ slots'[i].slot = slots[i].slot
                 /\ slots'[i].doc = Torn \/ slots'[i] = slots[i]
           /\ disk' \in [Paths -> Contents \cup {None}] /\ durable' = disk'
           /\ \A p \in Paths : disk'[p] \in {disk[p], durable[p]}
<1>1. /\ slots \in Seq(Filings)
      /\ disk \in [Paths -> Contents \cup {None}]
      /\ durable \in [Paths -> Contents \cup {None}]
  BY DEF TypeOK
<1>2. Len(slots) \in Nat /\ DOMAIN slots = 1 .. Len(slots)
  BY <1>1, LenProperties
<1>3. PICK torn \in SUBSET (DOMAIN slots) :
         slots' = [i \in DOMAIN slots |->
                      IF i \in torn THEN [slots[i] EXCEPT !.doc = Torn] ELSE slots[i]]
  BY DEF PowerCut
<1>4. \A i \in DOMAIN slots : slots[i] \in Filings
  BY <1>1, <1>2, ElementOfSeq
<1>5. /\ DOMAIN slots' = DOMAIN slots
      /\ \A i \in DOMAIN slots :
            /\ slots'[i] \in Filings /\ slots'[i].slot = slots[i].slot
            /\ slots'[i].doc = Torn \/ slots'[i] = slots[i]
  <2>1. DOMAIN slots' = DOMAIN slots
    BY <1>3
  <2> SUFFICES ASSUME NEW i \in DOMAIN slots
               PROVE  /\ slots'[i] \in Filings /\ slots'[i].slot = slots[i].slot
                      /\ slots'[i].doc = Torn \/ slots'[i] = slots[i]
    BY <2>1
  <2> DEFINE s == [slots[i] EXCEPT !.doc = Torn]
  <2>2. s \in Filings /\ s.slot = slots[i].slot /\ s.doc = Torn
    BY <1>4 DEF Filings
  <2>3. slots'[i] = s \/ slots'[i] = slots[i]
    BY <1>3
  <2> HIDE DEF s
  <2> QED
    BY <1>4, <2>2, <2>3
<1>6. slots' = [i \in 1 .. Len(slots) |-> slots'[i]]
  BY <1>2, <1>3
<1>7. slots' \in [1 .. Len(slots) -> Filings]
  BY <1>2, <1>5, <1>6
<1>8. slots' \in Seq(Filings)
  BY <1>2, <1>7
<1>9. PICK undone \in SUBSET Paths :
         disk' = [p \in Paths |-> IF p \in undone THEN durable[p] ELSE disk[p]]
  BY DEF PowerCut
<1>10. /\ disk' \in [Paths -> Contents \cup {None}]
       /\ \A p \in Paths : disk'[p] \in {disk[p], durable[p]}
  BY <1>1, <1>9
<1>11. durable' = disk'
  BY DEF PowerCut
<1> QED
  BY <1>5, <1>8, <1>10, <1>11

LEMMA SlotsStep ==
    ASSUME TypeOK, OfferIsReadable, [Next]_vars
    PROVE  slots' \in Seq(Filings) /\ OnePerSlot(slots')
<1>1. /\ slots \in Seq(Filings) /\ OnePerSlot(slots) /\ clears \in Seq(Slots)
      /\ writing \in {None} \cup Snapshots
  BY DEF TypeOK, OnePerSlot
<1>2. Owners
  BY Steps
<1>3. CASE Written
  <2>1. writing # None /\ slots' = Filed(writing)
    BY <1>3 DEF Written
  <2>2. writing \in Filings
    BY <1>1, <2>1 DEF Snapshots, Filings
  <2> QED
    BY <1>1, <2>1, <2>2, FiledIs
<1>4. CASE Clear
  <2>1. slots' = Others(Head(clears))
    BY <1>4 DEF Clear
  <2>2. slots' \in Seq(Filings) /\ Embeds(slots', slots)
    BY <1>1, <2>1, OthersAre
  <2> QED
    BY <1>1, <2>2, EmbeddedAre
<1>5. CASE PowerCut
  BY <1>1, <1>5, Tearing DEF OnePerSlot
<1>6. CASE Discard
  <2>1. slots # <<>> /\ slots' = Tail(slots)
    BY <1>6 DEF Discard, Answer, OfferIsReadable
  <2> DEFINE r == Tail(slots)
  <2>2. /\ r \in Seq(Filings)
        /\ DOMAIN r = 1 .. Len(slots) - 1 /\ Len(slots) \in Nat
        /\ \A i \in DOMAIN r : i + 1 \in DOMAIN slots /\ r[i] = slots[i + 1]
    BY <1>1, <2>1, TailElements
  <2> HIDE DEF r
  <2>3. ASSUME NEW i \in DOMAIN r, NEW k \in DOMAIN r, r[i].slot = r[k].slot
        PROVE  i = k
    <3>1. i + 1 = k + 1 /\ i \in Int /\ k \in Int
      BY <1>1, <2>2, <2>3 DEF OnePerSlot
    <3> QED
      BY <3>1
  <2>4. slots' = r
    BY <2>1 DEF r
  <2> QED
    BY <2>2, <2>3, <2>4 DEF OnePerSlot
<1> QED
  BY <1>1, <1>2, <1>3, <1>4, <1>5, <1>6 DEF Owners

LEMMA DiskStep ==
    ASSUME TypeOK, [Next]_vars
    PROVE  /\ disk' \in [Paths -> Contents \cup {None}]
           /\ durable' \in [Paths -> Contents \cup {None}]
<1>1. /\ disk \in [Paths -> Contents \cup {None}]
      /\ durable \in [Paths -> Contents \cup {None}]
  BY DEF TypeOK
<1>2. Owners
  BY Steps
<1>3. CASE PowerCut
  BY <1>3, Tearing
<1>4. ASSUME ARename PROVE disk' \in [Paths -> Contents \cup {None}]
  <2>1. PICK o \in Ops : Rename(o)
    BY <1>4 DEF ARename
  <2>2. op[o] \in Calls
    BY <2>1, Moving DEF Rename
  <2>3. disk' = [disk EXCEPT ![op[o].path] = op[o].doc]
    BY <2>1 DEF Rename
  <2> QED
    BY <1>1, <2>2, <2>3, CallFields
<1>5. ASSUME ASync PROVE durable' \in [Paths -> Contents \cup {None}]
  <2>1. PICK o \in Ops : SyncDirectory(o)
    BY <1>5 DEF ASync
  <2>2. op[o] \in Calls
    BY <2>1, Moving DEF SyncDirectory
  <2>3. op[o].path \in Paths
    BY <2>2, CallFields
  <2>4. durable' = [durable EXCEPT ![op[o].path] = disk[op[o].path]]
    BY <2>1 DEF SyncDirectory, Synced
  <2> QED
    BY <1>1, <2>3, <2>4
<1> QED
  BY <1>1, <1>2, <1>3, <1>4, <1>5 DEF Owners

LEMMA TypeStep ==
    ASSUME TypeOK, NothingYet, DocsAreBudgeted, OfferIsReadable, [Next]_vars
    PROVE  TypeOK'
<1>1. /\ docs' \in 1 .. MaxDocs + MaxMishaps /\ mishaps' \in 0 .. MaxMishaps
  BY BudgetStep
<1>2. /\ running' \in {"on", "prompt", "off"}
      /\ dirty' \in BOOLEAN /\ timer' \in BOOLEAN
      /\ happened' \subseteq
            {"race", "missed", "leftBehind", "crashedSaving"}
  BY ScalarsStep
<1>3. doc' \in Contents /\ path' \in Paths \cup {None}
  BY DocumentStep
<1>4. op' \in [Ops -> {None} \cup Calls]
  BY CallsStep
<1>5. /\ clears' \in Seq(Slots) /\ writing' \in {None} \cup Snapshots
      /\ lost' \in {None} \cup Snapshots
  BY WritingStep
<1>6. /\ slots' \in Seq(Filings)
      /\ \A i, j \in DOMAIN slots' : slots'[i].slot = slots'[j].slot => i = j
  BY SlotsStep DEF OnePerSlot
<1>7. /\ disk' \in [Paths -> Contents \cup {None}]
      /\ durable' \in [Paths -> Contents \cup {None}]
  BY DiskStep
<1> QED
  BY <1>1, <1>2, <1>3, <1>4, <1>5, <1>6, <1>7 DEF TypeOK

LEMMA NothingYetStep ==
    ASSUME TypeOK, NothingYet, [Next]_vars
    PROVE  NothingYet'
<1>1. CASE Crash \/ PowerCut
  BY <1>1 DEF Crash, PowerCut, Forget, NothingYet
<1>2. CASE Recover \/ Discard \/ Keep
  BY <1>2 DEF Recover, Discard, Keep, Answer, NothingYet
<1>3. CASE Launch
  <2>1. /\ running = "off" /\ UNCHANGED path /\ UNCHANGED dirty /\ UNCHANGED timer
        /\ UNCHANGED clears /\ UNCHANGED writing /\ UNCHANGED op
    BY <1>3 DEF Launch
  <2> QED
    BY <2>1 DEF NothingYet
<1>4. Owners
  BY Steps
<1>5. CASE UNCHANGED running /\ running # "on"
  <2>1. /\ path = None /\ ~dirty /\ ~timer /\ clears = <<>> /\ writing = None
        /\ \A o \in Ops : op[o] = None
    BY <1>5 DEF NothingYet
  <2>2. /\ ~Edit /\ ~SilentEdit /\ ~New /\ ~ABegin /\ ~TimerFires
    BY <1>5 DEF Edit, SilentEdit, New, ABegin, Save, SaveAs, Open, Start, TimerFires
  <2>3. ~Written /\ ~WriteFails /\ ~Clear /\ ~ClearFails
    BY <2>1 DEF Written, WriteFails, Clear, ClearFails
  <2>4. ~ARename /\ ~ASync /\ ~ASaved /\ ~AFail /\ ~AOpened
    BY <2>1 DEF ARename, ASync, ASaved, AFail, AOpened, Rename, SyncDirectory, Stage,
                Saved, SaveFails, Opened
  <2>5. CASE UNCHANGED vars
    <3>1. /\ UNCHANGED path /\ UNCHANGED dirty /\ UNCHANGED timer
          /\ UNCHANGED clears /\ UNCHANGED writing /\ UNCHANGED op
      BY <2>5 DEF vars, memory
    <3> QED
      BY <2>1, <3>1 DEF NothingYet
  <2> QED
    BY <1>1, <1>2, <1>3, <2>2, <2>3, <2>4, <2>5, Steps
<1>6. CASE UNCHANGED running /\ running = "on"
  BY <1>6 DEF NothingYet
<1> QED
  BY <1>1, <1>2, <1>3, <1>4, <1>5, <1>6 DEF Owners

(* Where the snapshots of a step come from. *)
LEMMA SlotsFrom ==
    ASSUME TypeOK, OfferIsReadable, [Next]_vars, NEW k \in DOMAIN slots'
    PROVE  \/ slots'[k].doc = Torn
           \/ \E i \in DOMAIN slots : slots'[k] = slots[i]
           \/ Written /\ writing # None /\ slots'[k] = writing
<1>1. /\ slots \in Seq(Filings) /\ writing \in {None} \cup Snapshots
  BY DEF TypeOK
<1>2. Owners
  BY Steps
<1>3. ASSUME NEW slot, NEW j \in DOMAIN Others(slot)
      PROVE  \E i \in DOMAIN slots : Others(slot)[j] = slots[i]
  <2>1. Others(slot) \in Seq(Filings) /\ Embeds(Others(slot), slots)
    BY <1>1, OthersAre
  <2> QED
    BY <1>1, <2>1, EmbeddedAre
<1>4. CASE Written
  <2>1. writing # None /\ slots' = Filed(writing)
    BY <1>4 DEF Written
  <2>2. writing \in Filings
    BY <1>1, <2>1 DEF Snapshots, Filings
  <2>3. k = 1 \/ \E j \in DOMAIN Others(writing.slot) : slots'[k] = Others(writing.slot)[j]
    BY <1>1, <2>1, <2>2, FiledIs
  <2>4. slots'[1] = writing
    BY <1>1, <2>1, <2>2, FiledIs
  <2> QED
    BY <1>3, <1>4, <2>1, <2>3, <2>4
<1>5. CASE Clear
  <2>1. slots' = Others(Head(clears))
    BY <1>5 DEF Clear
  <2> QED
    BY <1>3, <2>1
<1>6. CASE PowerCut
  BY <1>6, Tearing
<1>7. CASE Discard
  <2>1. slots # <<>> /\ slots' = Tail(slots)
    BY <1>7 DEF Discard, Answer, OfferIsReadable
  <2> QED
    BY <1>1, <2>1, TailElements
<1>8. CASE UNCHANGED slots
  BY <1>8
<1> QED
  BY <1>2, <1>4, <1>5, <1>6, <1>7, <1>8 DEF Owners

LEMMA CallsAreReadsStep ==
    ASSUME TypeOK, CallsAreReads, [Next]_vars
    PROVE  CallsAreReads'
<1>1. \A x \in Ops : op[x] # None => (op[x].kind = "open" <=> op[x].stage = "read")
  BY DEF CallsAreReads
<1>2. Owners
  BY Steps
<1> SUFFICES ASSUME NEW x \in Ops, op'[x] # None
             PROVE  op'[x].kind = "open" <=> op'[x].stage = "read"
  BY DEF CallsAreReads
<1>3. CASE ABegin
  <2>1. PICK o \in Ops, c \in Calls : Begins(o, c)
    BY <1>3, Beginning DEF ABegin
  <2>2. c.kind = "open" <=> c.stage = "read"
    BY <2>1 DEF Begins, Begun
  <2> QED
    BY <1>1, <2>1, <2>2 DEF Begins, OpBecomes
<1>4. CASE ARename
  <2>1. PICK o \in Ops : Rename(o)
    BY <1>4 DEF ARename
  <2>2. PICK c \in Calls : Moves(o, c) /\ c.stage = "renamed" /\ op[o].stage = "built"
    BY <2>1, Moving DEF Rename
  <2>3. c.kind = op[o].kind /\ op[o].kind # "open" /\ op'[o] = c
    BY <1>1, <2>2 DEF Moves, OpBecomes
  <2> QED
    BY <1>1, <2>2, <2>3 DEF Moves, OpBecomes
<1>5. CASE ASync
  <2>1. PICK o \in Ops : SyncDirectory(o)
    BY <1>5 DEF ASync
  <2>2. PICK c \in Calls : Moves(o, c) /\ c.stage = "done" /\ op[o].stage = "renamed"
    BY <2>1, Moving DEF SyncDirectory
  <2>3. c.kind = op[o].kind /\ op[o].kind # "open" /\ op'[o] = c
    BY <1>1, <2>2 DEF Moves, OpBecomes
  <2> QED
    BY <1>1, <2>2, <2>3 DEF Moves, OpBecomes
<1>6. CASE ASaved \/ AFail \/ AOpened
  <2>1. PICK o \in Ops : OpBecomes(o, None)
    BY <1>6, Ending DEF ASaved, AFail, AOpened
  <2> QED
    BY <1>1, <2>1 DEF OpBecomes
<1>7. CASE Crash \/ PowerCut
  BY <1>7 DEF Crash, PowerCut, Forget
<1>8. CASE UNCHANGED op
  BY <1>1, <1>8
<1> QED
  BY <1>2, <1>3, <1>4, <1>5, <1>6, <1>7, <1>8 DEF Owners

LEMMA ContentsAreKnownStep ==
    ASSUME TypeOK, NothingYet, DocsAreBudgeted, OfferIsReadable, ContentsAreKnown,
           [Next]_vars
    PROVE  ContentsAreKnown'
<1>1. /\ TypeOK' /\ docs \in Int /\ docs' \in Int /\ docs <= docs'
  <2>1. TypeOK' /\ docs <= docs'
    BY TypeStep, BudgetStep
  <2>2. docs \in Int /\ docs' \in Int
    BY <2>1 DEF TypeOK
  <2> QED
    BY <2>1, <2>2
<1>2. Owners
  BY Steps
<1>3. ASSUME NEW c, c \in Contents, Known(c)
      PROVE  c.rev <= docs'
  <2>1. c.rev \in Int /\ c.rev <= docs
    BY <1>3 DEF Known, Contents
  <2> QED
    BY <1>1, <2>1
<1>4. Known(doc) /\ doc \in Contents
  BY DEF ContentsAreKnown, TypeOK
<1>5. \A p \in Paths : /\ disk[p] \in Contents => Known(disk[p])
                       /\ durable[p] \in Contents => Known(durable[p])
  BY DEF ContentsAreKnown
<1>6. \A o \in Ops : op[o] # None => Known(op[o].doc) /\ op[o].doc \in Contents
                                     /\ op[o].path \in Paths
  BY CallFields DEF ContentsAreKnown, TypeOK
<1>7. writing # None => Known(writing.doc) /\ writing.doc \in Contents
  BY DEF ContentsAreKnown, TypeOK, Snapshots
<1>8. \A i \in DOMAIN slots : slots[i].doc # Torn => Known(slots[i].doc)
                                                     /\ slots[i].doc \in Contents
  <2>1. slots \in Seq(Filings)
    BY DEF TypeOK
  <2>2. \A i \in DOMAIN slots : slots[i] \in Filings
    BY <2>1, ElementOfSeq, LenProperties
  <2> QED
    BY <2>2 DEF ContentsAreKnown, Filings
<1>9. Known(doc)'
  <2>1. CASE Edit \/ SilentEdit \/ New \/ Launch
    <3>1. doc'.rev = docs + 1 /\ docs' = docs + 1
      BY <2>1, Changing
    <3> QED
      BY <1>1, <3>1 DEF Known
  <2>2. CASE AOpened
    <3>1. PICK o \in Ops : Opened(o)
      BY <2>2 DEF AOpened
    <3>2. doc' = op[o].doc /\ op[o] # None
      BY <3>1 DEF Opened
    <3> QED
      BY <1>3, <1>6, <3>2 DEF Known
  <2>3. CASE Recover
    <3>1. doc' = slots[1].doc /\ slots # <<>> /\ slots[1].doc # Torn
      BY <2>3 DEF Recover, Answer, OfferIsReadable
    <3>2. 1 \in DOMAIN slots
      BY <3>1, LenProperties, EmptySeq DEF TypeOK
    <3> QED
      BY <1>3, <1>8, <3>1, <3>2 DEF Known
  <2>4. CASE UNCHANGED doc
    BY <1>3, <1>4, <2>4 DEF Known
  <2> QED
    BY <1>2, <2>1, <2>2, <2>3, <2>4 DEF Owners
<1>10. ASSUME NEW p \in Paths
       PROVE  /\ disk'[p] \in Contents => disk'[p].rev <= docs'
              /\ durable'[p] \in Contents => durable'[p].rev <= docs'
  <2>1. CASE PowerCut
    BY <1>3, <1>5, <2>1, Tearing
  <2>2. ASSUME ARename, disk'[p] # disk[p]
        PROVE  disk'[p].rev <= docs'
    <3>1. PICK o \in Ops : Rename(o)
      BY <2>2 DEF ARename
    <3>2. disk' = [disk EXCEPT ![op[o].path] = op[o].doc] /\ op[o] # None
      BY <3>1 DEF Rename, Stage
    <3>3. disk'[p] = op[o].doc
      BY <2>2, <3>2 DEF TypeOK
    <3> QED
      BY <1>3, <1>6, <3>2, <3>3
  <2>3. ASSUME ASync, durable'[p] # durable[p], durable'[p] \in Contents
        PROVE  durable'[p].rev <= docs'
    <3>1. PICK o \in Ops : SyncDirectory(o)
      BY <2>3 DEF ASync
    <3>2. durable' = [durable EXCEPT ![op[o].path] = disk[op[o].path]]
      BY <3>1 DEF SyncDirectory, Synced
    <3>3. durable'[p] = disk[p]
      BY <2>3, <3>2 DEF TypeOK
    <3> QED
      BY <1>3, <1>5, <2>3, <3>3
  <2> QED
    BY <1>2, <1>3, <1>5, <2>1, <2>2, <2>3 DEF Owners
<1>11. ASSUME NEW x \in Ops, op'[x] # None
       PROVE  op'[x].doc.rev <= docs'
  <2>1. CASE op'[x] = op[x]
    BY <1>3, <1>6, <1>11, <2>1
  <2>2. CASE ABegin
    <3>1. PICK o \in Ops, c \in Calls : Begins(o, c)
      BY <2>2, Beginning DEF ABegin
    <3>2. c.doc \in Contents /\ c.path \in Paths /\ c.doc \in {doc, disk[c.path]}
      BY <3>1, CallFields DEF Begins, Begun
    <3>3. c.doc.rev <= docs'
      BY <1>3, <1>4, <1>5, <3>2
    <3>4. op'[x] = c \/ op'[x] = op[x]
      BY <3>1 DEF Begins, OpBecomes
    <3> QED
      BY <2>1, <3>3, <3>4
  <2>3. CASE ARename \/ ASync
    <3>1. PICK o \in Ops, c \in Calls : Moves(o, c)
      BY <2>3, Moving DEF ARename, ASync, Rename, SyncDirectory
    <3>2. op[o] # None /\ c.doc = op[o].doc /\ (op'[x] = c \/ op'[x] = op[x])
      BY <3>1 DEF Moves, OpBecomes
    <3> QED
      BY <1>3, <1>6, <2>1, <3>2
  <2>4. CASE ASaved \/ AFail \/ AOpened
    <3>1. PICK o \in Ops : OpBecomes(o, None)
      BY <2>4, Ending DEF ASaved, AFail, AOpened
    <3>2. op'[x] = op[x]
      BY <1>11, <3>1 DEF OpBecomes
    <3> QED
      BY <2>1, <3>2
  <2>5. CASE Crash \/ PowerCut
    BY <1>11, <2>5 DEF Crash, PowerCut, Forget
  <2> QED
    BY <1>2, <2>1, <2>2, <2>3, <2>4, <2>5 DEF Owners
<1>12. ASSUME writing' # None
       PROVE  writing'.doc.rev <= docs'
  <2>1. CASE TimerFires
    <3>1. writing' = Snapshot \/ UNCHANGED writing
      BY <2>1 DEF TimerFires, Snapshot
    <3>2. Snapshot.doc = doc
      BY DEF Snapshot
    <3> QED
      BY <1>3, <1>4, <1>7, <1>12, <3>1, <3>2
  <2>2. CASE Written \/ WriteFails \/ Crash \/ PowerCut
    BY <1>12, <2>2 DEF Written, WriteFails, Crash, PowerCut, Forget
  <2> QED
    BY <1>2, <1>3, <1>7, <1>12, <2>1, <2>2 DEF Owners
<1>13. ASSUME NEW k \in DOMAIN slots', slots'[k].doc # Torn
       PROVE  slots'[k].doc.rev <= docs'
  <2>1. \/ \E i \in DOMAIN slots : slots'[k] = slots[i]
        \/ writing # None /\ slots'[k] = writing
    BY <1>13, SlotsFrom
  <2> QED
    BY <1>3, <1>7, <1>8, <1>13, <2>1
<1> QED
  BY <1>9, <1>10, <1>11, <1>12, <1>13 DEF ContentsAreKnown, Known

(* What happened stays so; the document did not change during a save.      *)
LEMMA Racing ==
    ASSUME [Next]_vars, NoRace'
    PROVE  /\ NoRace
           /\ Edit \/ SilentEdit \/ New => ~Saving
           /\ \A o \in Ops, c \in Calls : Begins(o, c) => \A x \in Ops : op[x] = None
<1>1. happened \subseteq happened' /\ "race" \notin happened'
  BY Steps DEF NoRace, Unless, Owners
<1>2. NoRace
  BY <1>1 DEF NoRace, Unless
<1>3. Edit \/ SilentEdit \/ New => ~Saving
  BY <1>1 DEF Edit, SilentEdit, New, Note
<1>4. \A o \in Ops, c \in Calls : Begins(o, c) => \A x \in Ops : op[x] = None
  BY <1>1 DEF Begins
<1> QED
  BY <1>2, <1>3, <1>4

LEMMA CallsAreTrueStep ==
    ASSUME TypeOK, NothingYet, CallsAreReads, CallsAreTrue, [Next]_vars
    PROVE  CallsAreTrue'
<1> SUFFICES ASSUME NoRace'
             PROVE  /\ \A o, x \in Ops : op'[o] # None /\ op'[x] # None => o = x
                    /\ \A o \in Ops : op'[o] # None => CallIsTrue(op[o])'
  BY DEF CallsAreTrue, OneAtATime
<1>1. /\ \A o, x \in Ops : op[o] # None /\ op[x] # None => o = x
      /\ \A o \in Ops : op[o] # None =>
            /\ op[o].kind # "open" => op[o].doc = doc
            /\ op[o].kind = "save" => op[o].path = path
            /\ op[o].stage # "built" => disk[op[o].path] = op[o].doc
            /\ op[o].stage = "done" => durable[op[o].path] = disk[op[o].path]
  BY Racing DEF CallsAreTrue, OneAtATime, CallIsTrue
<1>2. Owners
  BY Steps
<1>3. /\ \A o \in Ops : op[o] # None => op[o] \in Calls
      /\ disk \in [Paths -> Contents \cup {None}]
      /\ durable \in [Paths -> Contents \cup {None}]
  BY DEF TypeOK
<1> DEFINE True(c) ==
             /\ c.kind # "open" => c.doc = doc'
             /\ c.kind = "save" => c.path = path'
             /\ c.stage # "built" => disk'[c.path] = c.doc
             /\ c.stage = "done" => durable'[c.path] = disk'[c.path]
           Goal == /\ \A o, x \in Ops : op'[o] # None /\ op'[x] # None => o = x
                   /\ \A o \in Ops : op'[o] # None => True(op'[o])
<1>4. SUFFICES Goal
  BY DEF CallIsTrue
<1>5. ASSUME NEW o \in Ops, NEW c, op'[o] = c, True(c),
             \A x \in Ops : x # o => op'[x] = None
      PROVE  Goal
  BY <1>5
<1>6. CASE \A x \in Ops : op'[x] = None
  BY <1>6
<1>7. CASE Edit \/ SilentEdit \/ New
  <2>1. /\ UNCHANGED disk /\ UNCHANGED durable /\ UNCHANGED op /\ ~Saving
    BY <1>7, Racing DEF Edit, SilentEdit, New
  <2>2. \A o \in Ops : op[o] # None => op[o].kind = "open"
    BY <1>3, <2>1, CallFields DEF Saving, Busy
  <2> QED
    BY <1>1, <2>1, <2>2
<1>8. CASE ABegin
  <2>1. PICK o \in Ops, c \in Calls : Begins(o, c)
    BY <1>8, Beginning DEF ABegin
  <2>2. \A x \in Ops : op[x] = None
    BY <2>1, Racing
  <2>3. /\ op'[o] = c /\ \A x \in Ops : x # o => op'[x] = None
        /\ UNCHANGED doc /\ UNCHANGED path /\ UNCHANGED disk
    BY <2>1, <2>2 DEF Begins, OpBecomes
  <2>4. /\ c.kind # "open" => c.doc = doc /\ c.stage = "built"
        /\ c.kind = "save" => c.path = path
        /\ c.kind = "open" => c.stage = "read" /\ c.doc = disk[c.path]
    BY <2>1 DEF Begins, Begun
  <2>5. True(c)
    BY <2>3, <2>4
  <2> HIDE DEF True
  <2> QED
    BY <1>5, <2>3, <2>5
<1>9. CASE ARename
  <2>1. PICK o \in Ops : Rename(o)
    BY <1>9 DEF ARename
  <2>2. PICK c \in Calls : Moves(o, c) /\ c.stage = "renamed" /\ op[o] \in Calls
    BY <2>1, Moving DEF Rename
  <2>3. /\ UNCHANGED doc /\ UNCHANGED path
        /\ disk' = [disk EXCEPT ![op[o].path] = op[o].doc]
    BY <2>1 DEF Rename
  <2>4. /\ op[o] # None /\ op'[o] = c /\ c.path = op[o].path /\ c.doc = op[o].doc
        /\ c.kind = op[o].kind /\ \A x \in Ops : x # o => op'[x] = op[x]
    BY <2>2 DEF Moves, OpBecomes
  <2>5. disk'[c.path] = c.doc
    BY <1>3, <2>2, <2>3, <2>4, CallFields
  <2>6. True(c)
    BY <1>1, <2>2, <2>3, <2>4, <2>5
  <2>7. \A x \in Ops : x # o => op'[x] = None
    BY <1>1, <2>4
  <2> HIDE DEF True
  <2> QED
    BY <1>5, <2>4, <2>6, <2>7
<1>10. CASE ASync
  <2>1. PICK o \in Ops : SyncDirectory(o)
    BY <1>10 DEF ASync
  <2>2. PICK c \in Calls : Moves(o, c) /\ c.stage = "done" /\ op[o] \in Calls
                           /\ op[o].stage = "renamed"
    BY <2>1, Moving DEF SyncDirectory
  <2>3. /\ UNCHANGED doc /\ UNCHANGED path /\ UNCHANGED disk
        /\ durable' = [durable EXCEPT ![op[o].path] = disk[op[o].path]]
    BY <2>1 DEF SyncDirectory, Synced
  <2>4. /\ op[o] # None /\ op'[o] = c /\ c.path = op[o].path /\ c.doc = op[o].doc
        /\ c.kind = op[o].kind /\ \A x \in Ops : x # o => op'[x] = op[x]
    BY <2>2 DEF Moves, OpBecomes
  <2>5. durable'[c.path] = disk'[c.path]
    BY <1>3, <2>2, <2>3, <2>4, CallFields
  <2>6. disk[c.path] = c.doc
    BY <1>1, <2>2, <2>4
  <2>7. True(c)
    BY <1>1, <2>2, <2>3, <2>4, <2>5, <2>6
  <2>8. \A x \in Ops : x # o => op'[x] = None
    BY <1>1, <2>4
  <2> HIDE DEF True
  <2> QED
    BY <1>5, <2>4, <2>7, <2>8
<1>11. CASE ASaved \/ AFail \/ AOpened
  <2>1. PICK o \in Ops : OpBecomes(o, None) /\ op[o] # None
    BY <1>11, Ending DEF ASaved, AFail, AOpened
  <2>2. \A x \in Ops : op'[x] = None
    BY <1>1, <2>1 DEF OpBecomes
  <2> QED
    BY <1>6, <2>2
<1>12. CASE Crash \/ PowerCut
  <2>1. \A x \in Ops : op'[x] = None
    BY <1>12 DEF Crash, PowerCut, Forget
  <2> QED
    BY <1>6, <2>1
<1>13. CASE Launch \/ Recover \/ Discard \/ Keep
  <2>1. running # "on" /\ UNCHANGED op
    BY <1>13 DEF Launch, Recover, Discard, Keep, Answer
  <2>2. \A x \in Ops : op'[x] = None
    BY <2>1 DEF NothingYet
  <2> QED
    BY <1>6, <2>2
<1>14. CASE /\ UNCHANGED op /\ UNCHANGED doc /\ UNCHANGED path /\ UNCHANGED disk
            /\ UNCHANGED durable
  BY <1>1, <1>14
<1> HIDE DEF Goal
<1> QED
  BY <1>2, <1>7, <1>8, <1>9, <1>10, <1>11, <1>12, <1>13, <1>14 DEF Owners

LEMMA FileIsOursStep ==
    ASSUME TypeOK, NothingYet, DocsAreBudgeted, ContentsAreKnown, CallsAreReads,
           CallsAreTrue, FileIsOurs, [Next]_vars
    PROVE  FileIsOurs'
<1> SUFFICES ASSUME NoRace', path' # None
             PROVE  /\ disk'[path'] \in Contents /\ disk'[path'].line = doc'.line
                    /\ dirty' => disk'[path'].rev < doc'.rev \/ Landed(path)'
  BY DEF FileIsOurs
<1> DEFINE Goal == /\ disk'[path'] \in Contents /\ disk'[path'].line = doc'.line
                   /\ dirty' => disk'[path'].rev < doc'.rev \/ Landed(path)'
<1> SUFFICES Goal
  OBVIOUS
<1>1. Owners
  BY Steps
<1>2. /\ doc \in Contents /\ path \in Paths \cup {None}
      /\ disk \in [Paths -> Contents \cup {None}]
      /\ \A x \in Ops : op[x] # None => op[x] \in Calls
  BY DEF TypeOK
<1>3. /\ \A o, x \in Ops : op[o] # None /\ op[x] # None => o = x
      /\ \A o \in Ops : op[o] # None =>
            /\ op[o].kind # "open" => op[o].doc = doc
            /\ op[o].kind = "save" => op[o].path = path
            /\ op[o].stage # "built" => disk[op[o].path] = op[o].doc
            /\ op[o].stage = "done" => durable[op[o].path] = disk[op[o].path]
  BY Racing DEF CallsAreTrue, OneAtATime, CallIsTrue
<1>4. path # None =>
         /\ path \in Paths /\ disk[path] \in Contents /\ disk[path].line = doc.line
         /\ dirty => disk[path].rev < doc.rev \/ Landed(path)
  BY <1>2, Racing DEF FileIsOurs
<1>5. \A x \in Ops : op[x] # None => (op[x].kind = "open" <=> op[x].stage = "read")
  BY DEF CallsAreReads
<1>6. CASE Edit \/ SilentEdit
  <2>1. UNCHANGED path /\ UNCHANGED disk
    BY <1>6 DEF Edit, SilentEdit
  <2>2. doc'.line = doc.line /\ doc'.rev = docs + 1
    BY <1>6, Changing
  <2>3. disk[path].rev <= docs /\ disk[path].rev \in Int /\ docs \in Int
    BY <1>4, <2>1 DEF ContentsAreKnown, Known, TypeOK, Contents
  <2>4. disk[path].rev < docs + 1
    BY <2>3
  <2> QED
    BY <1>4, <2>1, <2>2, <2>4
<1>7. CASE New
  BY <1>7 DEF New, NoPath
<1>8. CASE ABegin
  <2>1. PICK o \in Ops, c \in Calls : Begins(o, c)
    BY <1>8, Beginning DEF ABegin
  <2>2. \A x \in Ops : op[x] = None
    BY <2>1, Racing
  <2>3. UNCHANGED doc /\ UNCHANGED path /\ UNCHANGED disk /\ UNCHANGED dirty
    BY <2>1 DEF Begins
  <2>4. ~Landed(path)
    BY <2>2 DEF Landed
  <2> QED
    BY <1>4, <2>3, <2>4
<1>9. CASE ARename
  <2>1. PICK o \in Ops : Rename(o)
    BY <1>9 DEF ARename
  <2>2. PICK c \in Calls : Moves(o, c) /\ c.stage = "renamed" /\ op[o] \in Calls
                           /\ op[o].stage = "built"
    BY <2>1, Moving DEF Rename
  <2>3. /\ UNCHANGED doc /\ UNCHANGED path /\ UNCHANGED dirty
        /\ disk' = [disk EXCEPT ![op[o].path] = op[o].doc]
    BY <2>1 DEF Rename
  <2>4. op[o] # None /\ op'[o] = c /\ c.path = op[o].path /\ c # None
    BY <2>2, CallFields DEF Moves, OpBecomes
  <2>5. CASE op[o].path = path
    <3>1. op[o].doc = doc
      BY <1>3, <1>5, <2>2, <2>4
    <3>2. disk'[path'] = doc'
      BY <1>2, <2>2, <2>3, <2>5, <3>1, CallFields
    <3>3. Landed(path)'
      BY <2>2, <2>3, <2>4, <2>5 DEF Landed, InPlace
    <3> QED
      BY <1>2, <2>3, <3>2, <3>3
  <2>6. CASE op[o].path # path
    <3>1. disk'[path'] = disk[path]
      BY <1>2, <1>4, <2>3, <2>6
    <3>2. ~Landed(path)
      BY <1>3, <2>4, <2>6 DEF Landed
    <3> QED
      BY <1>4, <2>3, <3>1, <3>2
  <2> QED
    BY <2>5, <2>6
<1>10. CASE ASync
  <2>1. PICK o \in Ops : SyncDirectory(o)
    BY <1>10 DEF ASync
  <2>2. PICK c \in Calls : Moves(o, c) /\ c.stage = "done"
    BY <2>1, Moving DEF SyncDirectory
  <2>3. UNCHANGED doc /\ UNCHANGED path /\ UNCHANGED disk /\ UNCHANGED dirty
    BY <2>1 DEF SyncDirectory
  <2>4. /\ op'[o] = c /\ c.path = op[o].path /\ c # None
        /\ \A x \in Ops : x # o => op'[x] = op[x]
    BY <2>2, CallFields DEF Moves, OpBecomes
  <2>5. Landed(path) => Landed(path)'
    <3> SUFFICES ASSUME NEW x \in Ops, op[x] # None, op[x].path = path, op[x].stage \in InPlace
                 PROVE  Landed(path)'
      BY DEF Landed
    <3>1. CASE x = o
      BY <2>2, <2>3, <2>4, <3>1 DEF Landed, InPlace
    <3>2. CASE x # o
      BY <2>3, <2>4, <3>2 DEF Landed, InPlace
    <3> QED
      BY <3>1, <3>2
  <2> QED
    BY <1>4, <2>3, <2>5
<1>11. CASE ASaved
  <2>1. PICK o \in Ops : Saved(o)
    BY <1>11 DEF ASaved
  <2>2. /\ op[o] # None /\ op[o].stage = "done" /\ UNCHANGED doc /\ UNCHANGED disk
        /\ path' = (IF op[o].kind = "save" THEN path ELSE op[o].path) /\ ~dirty'
    BY <2>1 DEF Saved
  <2>3. path' = op[o].path
    BY <1>3, <2>2
  <2>4. disk'[path'] = doc'
    BY <1>3, <1>5, <2>2, <2>3
  <2> QED
    BY <1>2, <2>2, <2>4
<1>12. CASE AFail
  <2>1. PICK o \in Ops : SaveFails(o)
    BY <1>12 DEF AFail
  <2>2. /\ op[o] # None /\ op[o].stage = "built" /\ UNCHANGED doc /\ UNCHANGED disk
        /\ UNCHANGED path /\ UNCHANGED dirty
    BY <2>1 DEF SaveFails, AfterFailure
  <2>3. ~Landed(path)
    BY <1>3, <2>2 DEF Landed, InPlace
  <2> QED
    BY <1>4, <2>2, <2>3
<1>13. CASE AOpened
  <2>1. PICK o \in Ops : Opened(o)
    BY <1>13 DEF AOpened
  <2>2. /\ op[o] # None /\ op[o].kind = "open" /\ UNCHANGED disk
        /\ path' = op[o].path /\ doc' = op[o].doc /\ ~dirty'
    BY <2>1 DEF Opened
  <2>3. disk'[path'] = doc'
    BY <1>3, <1>5, <2>2
  <2>4. doc' \in Contents
    BY <1>2, <2>2, CallFields
  <2> QED
    BY <2>2, <2>3, <2>4
<1>14. CASE Crash \/ PowerCut
  BY <1>14 DEF Crash, PowerCut, Forget
<1>15. CASE Launch \/ Recover \/ Discard \/ Keep
  <2>1. running # "on" /\ UNCHANGED path
    BY <1>15 DEF Launch, Recover, Discard, Keep, Answer
  <2> QED
    BY <2>1 DEF NothingYet
<1>16. CASE /\ UNCHANGED op /\ UNCHANGED doc /\ UNCHANGED path /\ UNCHANGED disk
            /\ UNCHANGED dirty
  <2>1. Landed(path) => Landed(path)'
    BY <1>16 DEF Landed
  <2> QED
    BY <1>4, <1>16, <2>1
<1> HIDE DEF Goal
<1> QED
  BY <1>1, <1>6, <1>7, <1>8, <1>9, <1>10, <1>11, <1>12, <1>13, <1>14, <1>15, <1>16
     DEF Owners

LEMMA DiskIsDurableStep ==
    ASSUME TypeOK, CallsAreReads, CallsAreTrue, DiskIsDurable, [Next]_vars
    PROVE  DiskIsDurable'
<1> DEFINE Renaming(p) == \E o \in Ops : op[o] # None /\ op[o].path = p
                                         /\ op[o].stage = "renamed"
           After(p) == \E o \in Ops : op'[o] # None /\ op'[o].path = p
                                      /\ op'[o].stage = "renamed"
<1> SUFFICES ASSUME happened' \cap {"race", "crashedSaving"} = {}, NEW p \in Paths
             PROVE  durable'[p] = disk'[p] \/ After(p)
  BY DEF DiskIsDurable, Unless
<1>1. Owners
  BY Steps
<1>2. happened \cap {"race", "crashedSaving"} = {} /\ NoRace
  BY <1>1 DEF Owners, NoRace, Unless
<1>3. durable[p] = disk[p] \/ Renaming(p)
  BY <1>2 DEF DiskIsDurable, Unless
<1>4. /\ disk \in [Paths -> Contents \cup {None}]
      /\ durable \in [Paths -> Contents \cup {None}]
      /\ \A x \in Ops : op[x] # None => op[x] \in Calls
  BY DEF TypeOK
<1>5. \A x \in Ops : op[x] # None => (op[x].kind = "open" <=> op[x].stage = "read")
  BY DEF CallsAreReads
<1>6. ASSUME NEW o \in Ops, \A x \in Ops : x # o => op'[x] = op[x],
             op[o] = None \/ op[o].stage # "renamed"
      PROVE  Renaming(p) => After(p)
  BY <1>6
<1>7. CASE ABegin
  <2>1. PICK o \in Ops, c \in Calls : Begins(o, c)
    BY <1>7, Beginning DEF ABegin
  <2>2. /\ UNCHANGED disk /\ UNCHANGED durable /\ op[o] = None
        /\ \A x \in Ops : x # o => op'[x] = op[x]
    BY <2>1 DEF Begins, OpBecomes
  <2> QED
    BY <1>3, <1>6, <2>2
<1>8. CASE ARename
  <2>1. PICK o \in Ops : Rename(o)
    BY <1>8 DEF ARename
  <2>2. PICK c \in Calls : Moves(o, c) /\ c.stage = "renamed" /\ op[o].stage = "built"
                           /\ op[o] \in Calls
    BY <2>1, Moving DEF Rename
  <2>3. /\ disk' = [disk EXCEPT ![op[o].path] = op[o].doc] /\ UNCHANGED durable
    BY <2>1 DEF Rename
  <2>4. /\ op'[o] = c /\ c.path = op[o].path /\ c # None
        /\ \A x \in Ops : x # o => op'[x] = op[x]
    BY <2>2, CallFields DEF Moves, OpBecomes
  <2>5. CASE op[o].path = p
    BY <2>2, <2>4, <2>5
  <2>6. CASE op[o].path # p
    <3>1. disk'[p] = disk[p]
      BY <1>4, <2>3, <2>6
    <3> QED
      BY <1>3, <1>6, <2>2, <2>3, <2>4, <3>1
  <2> QED
    BY <2>5, <2>6
<1>9. CASE ASync
  <2>1. PICK o \in Ops : SyncDirectory(o)
    BY <1>9 DEF ASync
  <2>2. PICK c \in Calls : Moves(o, c)
    BY <2>1, Moving DEF SyncDirectory
  <2>3. /\ UNCHANGED disk
        /\ durable' = [durable EXCEPT ![op[o].path] = disk[op[o].path]]
    BY <2>1 DEF SyncDirectory, Synced
  <2>4. \A x \in Ops : x # o => op'[x] = op[x]
    BY <2>2 DEF Moves, OpBecomes
  <2>5. CASE op[o].path = p
    BY <1>4, <2>3, <2>5
  <2>6. CASE op[o].path # p
    <3>1. durable'[p] = durable[p]
      BY <1>4, <2>3, <2>6
    <3>2. Renaming(p) => After(p)
      BY <2>4, <2>6
    <3> QED
      BY <1>3, <2>3, <3>1, <3>2
  <2> QED
    BY <2>5, <2>6
<1>10. CASE ASaved \/ AFail \/ AOpened
  <2>1. PICK o \in Ops : Saved(o) \/ SaveFails(o) \/ Opened(o)
    BY <1>10 DEF ASaved, AFail, AOpened
  <2>2. OpBecomes(o, None) /\ op[o] # None /\ op[o] \in Calls
    BY <2>1, Ending
  <2>3. UNCHANGED disk /\ UNCHANGED durable
    BY <2>1 DEF Saved, SaveFails, Opened
  <2>4. op[o].stage # "renamed"
    BY <1>5, <2>1, <2>2 DEF Saved, SaveFails, Opened
  <2> QED
    BY <1>3, <1>6, <2>2, <2>3, <2>4 DEF OpBecomes
<1>11. CASE Crash
  <2>1. ~Saving
    BY <1>11 DEF Crash, Note, Interrupted
  <2>2. ~Renaming(p)
    <3> SUFFICES ASSUME NEW o \in Ops, op[o] # None, op[o].stage = "renamed"
                 PROVE  FALSE
      OBVIOUS
    <3>1. op[o].kind \in {"save", "saveAs"}
      BY <1>4, <1>5, CallFields
    <3> QED
      BY <2>1, <3>1 DEF Saving, Busy
  <2> QED
    BY <1>3, <1>11, <2>2 DEF Crash
<1>12. CASE PowerCut
  BY <1>12 DEF PowerCut
<1>13. CASE UNCHANGED op /\ UNCHANGED disk /\ UNCHANGED durable
  BY <1>3, <1>13
<1> HIDE DEF After
<1> QED
  BY <1>1, <1>7, <1>8, <1>9, <1>10, <1>11, <1>12, <1>13 DEF Owners

LEMMA CleanMeansSavedStep ==
    ASSUME TypeOK, NothingYet, CallsAreReads, CallsAreTrue, DiskIsDurable,
           CleanMeansSaved, [Next]_vars
    PROVE  CleanMeansSaved'
<1> SUFFICES ASSUME running' = "on", ~dirty', path' # None, NoRace'
             PROVE  /\ disk'[path'] = doc'
                    /\ "crashedSaving" \notin happened' => durable'[path'] = doc'
  BY DEF CleanMeansSaved, NoRace, Unless
<1> DEFINE Goal == /\ disk'[path'] = doc'
                   /\ "crashedSaving" \notin happened' => durable'[path'] = doc'
<1> SUFFICES Goal
  OBVIOUS
<1>1. Owners
  BY Steps
<1>2. /\ NoRace
      /\ "crashedSaving" \notin happened' =>
            "crashedSaving" \notin happened /\ Unless({"race", "crashedSaving"})
  BY <1>1, Racing DEF Owners, NoRace, Unless
<1>3. /\ path \in Paths \cup {None}
      /\ disk \in [Paths -> Contents \cup {None}]
      /\ durable \in [Paths -> Contents \cup {None}]
      /\ \A x \in Ops : op[x] # None => op[x] \in Calls
  BY DEF TypeOK
<1>4. /\ \A o, x \in Ops : op[o] # None /\ op[x] # None => o = x
      /\ \A o \in Ops : op[o] # None =>
            /\ op[o].kind # "open" => op[o].doc = doc
            /\ op[o].kind = "save" => op[o].path = path
            /\ op[o].stage # "built" => disk[op[o].path] = op[o].doc
            /\ op[o].stage = "done" => durable[op[o].path] = disk[op[o].path]
  BY <1>2 DEF CallsAreTrue, OneAtATime, CallIsTrue
<1>5. \A x \in Ops : op[x] # None => (op[x].kind = "open" <=> op[x].stage = "read")
  BY DEF CallsAreReads
<1>6. running = "on" /\ ~dirty /\ path # None =>
         /\ path \in Paths /\ disk[path] = doc
         /\ "crashedSaving" \notin happened' => durable[path] = doc
  BY <1>2, <1>3 DEF CleanMeansSaved, NoRace
<1>7. CASE Edit \/ SilentEdit \/ New \/ Recover \/ Crash \/ PowerCut
  BY <1>7 DEF Edit, SilentEdit, New, Recover, Crash, PowerCut, Forget, NoPath
<1>8. CASE Launch \/ Discard \/ Keep
  <2>1. running # "on" /\ UNCHANGED path
    BY <1>8 DEF Launch, Discard, Keep, Answer
  <2> QED
    BY <2>1 DEF NothingYet
<1>9. CASE ARename
  <2>1. PICK o \in Ops : Rename(o)
    BY <1>9 DEF ARename
  <2>2. op[o] # None /\ op[o] \in Calls /\ op[o].stage = "built"
    BY <2>1, Moving DEF Rename, Stage
  <2>3. /\ UNCHANGED doc /\ UNCHANGED path /\ UNCHANGED dirty /\ UNCHANGED running
        /\ disk' = [disk EXCEPT ![op[o].path] = op[o].doc] /\ UNCHANGED durable
    BY <2>1 DEF Rename
  <2>4. op[o].doc = doc
    BY <1>4, <1>5, <2>2
  <2>5. disk'[path] = doc
    BY <1>3, <1>6, <2>3, <2>4
  <2> QED
    BY <1>6, <2>3, <2>5
<1>10. CASE ASync
  <2>1. PICK o \in Ops : SyncDirectory(o)
    BY <1>10 DEF ASync
  <2>2. /\ UNCHANGED doc /\ UNCHANGED path /\ UNCHANGED dirty /\ UNCHANGED running
        /\ UNCHANGED disk
        /\ durable' = [durable EXCEPT ![op[o].path] = disk[op[o].path]]
    BY <2>1 DEF SyncDirectory, Synced
  <2>3. durable'[path] = durable[path] \/ durable'[path] = disk[path]
    BY <1>3, <1>6, <2>2
  <2> QED
    BY <1>6, <2>2, <2>3
<1>11. CASE ASaved
  <2>1. PICK o \in Ops : Saved(o)
    BY <1>11 DEF ASaved
  <2>2. /\ op[o] # None /\ op[o].stage = "done" /\ UNCHANGED doc /\ UNCHANGED disk
        /\ UNCHANGED durable
        /\ path' = (IF op[o].kind = "save" THEN path ELSE op[o].path)
    BY <2>1 DEF Saved
  <2>3. path' = op[o].path
    BY <1>4, <2>2
  <2> QED
    BY <1>4, <1>5, <2>2, <2>3
<1>12. CASE AFail
  <2>1. /\ UNCHANGED doc /\ UNCHANGED path /\ UNCHANGED dirty /\ UNCHANGED running
        /\ UNCHANGED disk /\ UNCHANGED durable
    BY <1>12 DEF AFail, SaveFails, AfterFailure
  <2> QED
    BY <1>6, <2>1
<1>13. CASE AOpened
  <2>1. PICK o \in Ops : Opened(o)
    BY <1>13 DEF AOpened
  <2>2. /\ op[o] # None /\ op[o].kind = "open" /\ UNCHANGED disk /\ UNCHANGED durable
        /\ path' = op[o].path /\ doc' = op[o].doc
    BY <2>1 DEF Opened
  <2>3. op[o].stage = "read" /\ disk[op[o].path] = op[o].doc /\ op[o].path \in Paths
    BY <1>3, <1>4, <1>5, <2>2, CallFields
  <2>4. "crashedSaving" \notin happened' => durable[op[o].path] = disk[op[o].path]
    BY <1>2, <1>4, <2>2, <2>3 DEF DiskIsDurable
  <2> QED
    BY <2>2, <2>3, <2>4
<1>14. CASE /\ UNCHANGED doc /\ UNCHANGED path /\ UNCHANGED dirty /\ UNCHANGED running
            /\ UNCHANGED disk /\ UNCHANGED durable
  BY <1>6, <1>14
<1> HIDE DEF Goal
<1> QED
  BY <1>1, <1>7, <1>8, <1>9, <1>10, <1>11, <1>12, <1>13, <1>14 DEF Owners

LEMMA ContainsIs ==
    ASSUME NEW S, NEW s \in Seq(S), NEW e
    PROVE  /\ Contains(s, e) <=> \E i \in DOMAIN s : s[i] = e
           /\ s # <<>> <=> 1 \in DOMAIN s
           /\ \A i \in DOMAIN s : s[i] \in S /\ i \in Nat \ {0}
<1>1. Len(s) \in Nat /\ DOMAIN s = 1 .. Len(s) /\ (s = <<>> <=> Len(s) = 0)
  BY LenProperties, EmptySeq
<1>2. \A i \in DOMAIN s : s[i] \in S
  BY <1>1, ElementOfSeq
<1> QED
  BY <1>1, <1>2 DEF Contains

(* Before the document is shown, only the process and its user act. *)
LEMMA Idle ==
    ASSUME NothingYet, running # "on", [Next]_vars
    PROVE  \/ Crash \/ PowerCut \/ Launch \/ Recover \/ Discard \/ Keep
           \/ UNCHANGED vars
<1>1. /\ clears = <<>> /\ writing = None /\ \A o \in Ops : op[o] = None
  BY DEF NothingYet
<1>2. /\ ~Edit /\ ~SilentEdit /\ ~New /\ ~ABegin /\ ~TimerFires
  BY DEF Edit, SilentEdit, New, ABegin, Save, SaveAs, Open, Start, TimerFires
<1>3. ~Written /\ ~WriteFails /\ ~Clear /\ ~ClearFails
  BY <1>1 DEF Written, WriteFails, Clear, ClearFails
<1>4. ~ARename /\ ~ASync /\ ~ASaved /\ ~AFail /\ ~AOpened
  BY <1>1 DEF ARename, ASync, ASaved, AFail, AOpened, Rename, SyncDirectory, Stage,
              Saved, SaveFails, Opened
<1> QED
  BY <1>2, <1>3, <1>4, Steps

LEMMA OfferIsReadableStep ==
    ASSUME TypeOK, NothingYet, OfferIsReadable, [Next]_vars
    PROVE  OfferIsReadable'
<1>1. CASE Launch
  BY <1>1 DEF Launch, OfferIsReadable
<1>2. CASE Crash \/ PowerCut \/ Recover \/ Discard \/ Keep
  BY <1>2 DEF Crash, PowerCut, Forget, Recover, Discard, Keep, Answer, OfferIsReadable
<1>3. CASE UNCHANGED vars
  BY <1>3 DEF vars, OfferIsReadable
<1>4. CASE running = "on" /\ UNCHANGED running
  BY <1>4 DEF OfferIsReadable
<1>5. Owners
  BY Steps
<1> QED
  BY <1>1, <1>2, <1>3, <1>4, <1>5, Idle DEF Owners

LEMMA LostIsFirstStep ==
    ASSUME TypeOK, NothingYet, NewestFirst, LostIsFirst, [Next]_vars
    PROVE  LostIsFirst'
<1>1. CASE Crash
  <2>1. UNCHANGED slots /\ lost' = (IF dirty /\ Covered THEN Snapshot ELSE None)
        /\ running # "off"
    BY <1>1 DEF Crash
  <2>2. running = "on" \/ ~dirty
    BY DEF NothingYet
  <2> QED
    BY <2>1, <2>2 DEF NewestFirst, LostIsFirst
<1>2. CASE PowerCut \/ Recover \/ Discard \/ Keep
  BY <1>2 DEF PowerCut, Recover, Discard, Keep, Answer, LostIsFirst
<1>3. CASE Launch
  BY <1>3 DEF Launch, LostIsFirst
<1>4. CASE UNCHANGED vars
  BY <1>4 DEF vars, LostIsFirst
<1>5. CASE running = "on" /\ UNCHANGED running
  BY <1>5 DEF LostIsFirst
<1>6. Owners
  BY Steps
<1> QED
  BY <1>1, <1>2, <1>3, <1>4, <1>5, <1>6, Idle DEF Owners

(* A new content has no snapshot and none under way. *)
LEMMA ChangesAreNew ==
    ASSUME TypeOK, NothingYet, DocsAreBudgeted, ContentsAreKnown, [Next]_vars,
           Edit \/ SilentEdit
    PROVE  /\ \A i \in DOMAIN slots : slots[i].doc # doc'
           /\ writing # None => writing.doc # doc'
<1>1. doc' \in Contents /\ doc'.rev = docs + 1 /\ docs \in Int /\ doc' # Torn
  BY Changing, FileAssumption DEF TypeOK
<1>2. ASSUME NEW c \in Contents, Known(c), c = doc'
      PROVE  FALSE
  <2>1. docs + 1 <= docs
    BY <1>1, <1>2 DEF Known
  <2> QED
    BY <1>1, <2>1
<1>3. slots \in Seq(Filings) /\ writing \in {None} \cup Snapshots
  BY DEF TypeOK
<1>4. \A i \in DOMAIN slots : slots[i] \in Filings
  BY <1>3, ContainsIs
<1>5. \A i \in DOMAIN slots : slots[i].doc # Torn =>
         Known(slots[i].doc) /\ slots[i].doc \in Contents
  BY <1>4 DEF ContentsAreKnown, Filings
<1>6. writing # None => Known(writing.doc) /\ writing.doc \in Contents
  BY <1>3 DEF ContentsAreKnown, Snapshots
<1> QED
  BY <1>1, <1>2, <1>5, <1>6

LEMMA NewestFirstStep ==
    ASSUME TypeOK, NothingYet, DocsAreBudgeted, ContentsAreKnown, OfferIsReadable,
           NewestFirst, UntitledFirst, [Next]_vars
    PROVE  NewestFirst'
<1> DEFINE S == [slot |-> path, doc |-> doc]
           N == [slot |-> path', doc |-> doc']
           Goal == slots' # <<>> /\ slots'[1] = N /\ writing' \in {None, N}
<1>1. slots \in Seq(Filings) /\ slots' \in Seq(Filings)
      /\ writing \in {None} \cup Snapshots
  BY TypeStep DEF TypeOK
<1>2. SUFFICES ASSUME running' = "on", dirty', NEW k \in DOMAIN slots', slots'[k] = N
               PROVE  Goal
  <2>1. Covered' => \E k \in DOMAIN slots' : slots'[k] = N
    BY <1>1, ContainsIs DEF Covered, Snapshot, SlotFor
  <2>2. Snapshot' = N
    BY DEF Snapshot, SlotFor
  <2> QED
    BY <1>2, <2>1, <2>2 DEF NewestFirst
<1>3. running = "on" /\ dirty /\ (\E i \in DOMAIN slots : slots[i] = S) =>
         slots # <<>> /\ slots[1] = S /\ writing \in {None, S}
  BY <1>1, ContainsIs DEF NewestFirst, Covered, Snapshot, SlotFor
<1>4. Owners
  BY Steps
<1>5. CASE Edit \/ SilentEdit
  <2>1. UNCHANGED slots
    BY <1>5 DEF Edit, SilentEdit
  <2>2. slots'[k].doc = doc'
    BY <1>2
  <2> QED
    BY <1>2, <1>5, <2>1, <2>2, ChangesAreNew
<1>6. CASE New \/ ASaved \/ AOpened \/ Crash \/ PowerCut
  BY <1>2, <1>6 DEF New, ASaved, AOpened, Saved, Opened, Crash, PowerCut, Forget
<1>7. CASE Launch
  <2>1. ~dirty'
    BY <1>7 DEF Launch, NothingYet
  <2> QED
    BY <1>2, <2>1
<1>8. CASE Recover
  <2>1. UNCHANGED slots /\ doc' = slots[1].doc /\ path' = None /\ writing' = None
        /\ running = "prompt"
    BY <1>8 DEF Recover, Answer, NothingYet
  <2>2. slots # <<>> /\ slots[1].doc # Torn /\ 1 \in DOMAIN slots /\ k \in Nat \ {0}
    BY <1>1, <1>2, <2>1, ContainsIs DEF OfferIsReadable
  <2>3. slots[k].slot = Untitled /\ slots[k].doc = slots[1].doc
    BY <1>2, <2>1 DEF Untitled
  <2>4. k <= 1
    BY <1>2, <2>1, <2>2, <2>3 DEF UntitledFirst
  <2>5. k = 1
    BY <2>2, <2>4
  <2> HIDE DEF N
  <2> QED
    BY <1>2, <2>1, <2>2, <2>5
<1>9. CASE UNCHANGED doc /\ UNCHANGED path
  <2> HIDE DEF N, S
  <2>1. N = S
    BY <1>9 DEF N, S
  <2>2. CASE UNCHANGED slots /\ UNCHANGED running /\ UNCHANGED dirty
    <3>1. slots # <<>> /\ slots[1] = S /\ writing \in {None, S}
      BY <1>2, <1>3, <2>1, <2>2
    <3>2. writing' \in {None, S, writing}
      <4>1. CASE TimerFires
        BY <4>1 DEF TimerFires, SlotFor, S
      <4>2. CASE Written \/ WriteFails \/ Crash \/ PowerCut
        BY <4>2 DEF Written, WriteFails, Crash, PowerCut, Forget
      <4> QED
        BY <1>4, <4>1, <4>2 DEF Owners
    <3> QED
      BY <2>1, <2>2, <3>1, <3>2
  <2>3. CASE Written
    <3>1. /\ writing # None /\ slots' = Filed(writing) /\ writing' = None
          /\ UNCHANGED running /\ UNCHANGED dirty
      BY <2>3 DEF Written
    <3>2. writing \in Filings
      BY <1>1, <3>1 DEF Snapshots, Filings
    <3>3. slots' # <<>> /\ slots'[1] = writing
      BY <1>1, <3>1, <3>2, FiledIs
    <3>4. writing = S
      <4> SUFFICES ASSUME writing # S PROVE FALSE
        OBVIOUS
      <4>1. k # 1
        BY <1>2, <2>1, <3>3
      <4>2. PICK j \in DOMAIN Others(writing.slot) : Others(writing.slot)[j] = S
        BY <1>1, <1>2, <2>1, <3>1, <3>2, <4>1, FiledIs
      <4>3. Others(writing.slot) \in Seq(Filings) /\ Embeds(Others(writing.slot), slots)
        BY <1>1, OthersAre
      <4>4. \E i \in DOMAIN slots : slots[i] = S
        BY <1>1, <4>2, <4>3, EmbeddedAre
      <4> QED
        BY <1>2, <1>3, <3>1, <4>4
    <3> QED
      BY <2>1, <3>1, <3>3, <3>4
  <2>4. CASE Clear
    <3>1. /\ slots' = Others(Head(clears)) /\ UNCHANGED writing
          /\ UNCHANGED running /\ UNCHANGED dirty
      BY <2>4 DEF Clear
    <3>2. /\ Others(Head(clears)) \in Seq(Filings) /\ Embeds(Others(Head(clears)), slots)
          /\ \A j \in DOMAIN Others(Head(clears)) : Others(Head(clears))[j].slot # Head(clears)
      BY <1>1, OthersAre
    <3>3. \E i \in DOMAIN slots : slots[i] = S
      BY <1>1, <1>2, <2>1, <3>1, <3>2, EmbeddedAre
    <3>4. slots # <<>> /\ slots[1] = S /\ writing \in {None, S}
      BY <1>2, <1>3, <3>1, <3>3
    <3>5. slots[1].slot # Head(clears)
      BY <1>2, <2>1, <3>1, <3>2, <3>4
    <3>6. slots' # <<>> /\ slots'[1] = slots[1]
      BY <1>1, <3>1, <3>4, <3>5, OthersAre
    <3> QED
      BY <2>1, <3>1, <3>4, <3>6
  <2>5. CASE PowerCut \/ Crash
    BY <1>2, <2>5 DEF PowerCut, Crash, Forget
  <2>6. CASE ASaved \/ AOpened \/ New
    BY <1>2, <2>6 DEF ASaved, AOpened, Saved, Opened, New
  <2>7. CASE Launch \/ Discard \/ Keep
    <3>1. ~dirty
      BY <2>7 DEF Launch, Discard, Keep, Answer, NothingYet
    <3> QED
      BY <1>2, <2>7, <3>1 DEF Launch, Discard, Keep
  <2>8. CASE AFail
    BY <2>2, <2>8 DEF AFail, SaveFails, AfterFailure
  <2> HIDE DEF Goal
  <2> QED
    BY <1>4, <1>5, <1>8, <2>2, <2>3, <2>4, <2>5, <2>6, <2>7, <2>8 DEF Owners
<1> HIDE DEF Goal
<1> QED
  BY <1>4, <1>5, <1>6, <1>7, <1>8, <1>9 DEF Owners

LEMMA UnsavedIsKeptStep ==
    ASSUME TypeOK, NothingYet, OfferIsReadable, UnsavedIsKept, [Next]_vars
    PROVE  UnsavedIsKept'
<1> DEFINE S == [slot |-> path, doc |-> doc]
           N == [slot |-> path', doc |-> doc']
           Goal == IF writing' = None THEN Covered' ELSE writing' = N
<1> SUFFICES ASSUME happened' \cap {"missed"} = {}, running' = "on", dirty',
                    ~timer'
             PROVE  Goal
  BY DEF UnsavedIsKept, Unless, Snapshot, SlotFor
<1>1. /\ slots \in Seq(Filings) /\ slots' \in Seq(Filings)
      /\ writing \in {None} \cup Snapshots /\ doc \in Contents
      /\ path \in Paths \cup {None}
  BY SlotsStep DEF TypeOK
<1>2. Owners
  BY Steps
<1>3. running = "on" /\ dirty /\ ~timer => IF writing = None THEN Covered ELSE writing = S
  BY <1>2 DEF UnsavedIsKept, Unless, Snapshot, SlotFor, Owners
<1>4. CASE Edit \/ SilentEdit \/ AOpened \/ Recover
  BY <1>4 DEF Edit, SilentEdit, AOpened, Opened, Recover, Armed, Note
<1>5. CASE New \/ ASaved \/ Crash \/ PowerCut
  BY <1>5 DEF New, ASaved, Saved, Crash, PowerCut, Forget
<1>6. CASE Launch \/ Discard \/ Keep
  BY <1>6 DEF Launch, Discard, Keep, Answer, NothingYet
<1>7. CASE TimerFires
  <2>1. dirty /\ writing = None /\ writing' = S /\ UNCHANGED doc /\ UNCHANGED path
    BY <1>7 DEF TimerFires, SlotFor, Note
  <2>2. S \in Snapshots
    BY <1>1 DEF Snapshots, Slots, Untitled
  <2>3. S # None
    BY <2>2, FileAssumption
  <2> QED
    BY <2>1, <2>3
<1>8. CASE Written
  <2>1. /\ writing # None /\ slots' = Filed(writing) /\ writing' = None
        /\ UNCHANGED doc /\ UNCHANGED path /\ UNCHANGED running /\ UNCHANGED dirty
        /\ UNCHANGED timer
    BY <1>8 DEF Written
  <2>2. writing = S /\ writing \in Filings
    BY <1>1, <1>3, <2>1 DEF Snapshots, Filings
  <2>3. 1 \in DOMAIN slots' /\ slots'[1] = S
    BY <1>1, <2>1, <2>2, FiledIs
  <2>4. Contains(slots', S)
    BY <1>1, <2>3, ContainsIs
  <2>5. Covered'
    BY <2>1, <2>4 DEF Covered, Snapshot, SlotFor
  <2> QED
    BY <2>1, <2>5
<1>9. CASE WriteFails
  BY <1>9 DEF WriteFails, Note
<1>10. CASE Clear
  BY <1>10 DEF Clear, Note
<1>11. CASE AFail
  <2>1. /\ UNCHANGED doc /\ UNCHANGED path /\ UNCHANGED running /\ UNCHANGED dirty
        /\ UNCHANGED timer /\ UNCHANGED writing /\ UNCHANGED slots
    BY <1>11 DEF AFail, SaveFails, AfterFailure
  <2>2. Covered => Covered'
    BY <2>1 DEF Covered, Snapshot, SlotFor
  <2> QED
    BY <1>3, <2>1, <2>2
<1>12. CASE /\ UNCHANGED doc /\ UNCHANGED path /\ UNCHANGED running /\ UNCHANGED dirty
            /\ UNCHANGED timer /\ UNCHANGED writing /\ UNCHANGED slots
  <2>1. Covered => Covered'
    BY <1>12 DEF Covered, Snapshot, SlotFor
  <2> QED
    BY <1>3, <1>12, <2>1
<1> HIDE DEF Goal
<1> QED
  BY <1>2, <1>4, <1>5, <1>6, <1>7, <1>8, <1>9, <1>10, <1>11, <1>12 DEF Owners

(* Snapshots of one content, the untitled one first. *)
UntitledLead(s) ==
    \A i, j \in DOMAIN s :
        s[i].slot = Untitled /\ s[i].doc = s[j].doc /\ s[i].doc # Torn => i <= j

LEMMA EmbeddedLead ==
    ASSUME NEW s \in Seq(Filings), NEW r \in Seq(Filings), Embeds(r, s), UntitledLead(s)
    PROVE  UntitledLead(r)
<1>1. PICK e \in [DOMAIN r -> DOMAIN s] :
         /\ \A k \in DOMAIN r : r[k] = s[e[k]]
         /\ \A k, l \in DOMAIN r : k < l => e[k] < e[l]
  BY DEF Embeds
<1> SUFFICES ASSUME NEW k \in DOMAIN r, NEW l \in DOMAIN r,
                    r[k].slot = Untitled, r[k].doc = r[l].doc, r[k].doc # Torn
             PROVE  k <= l
  BY DEF UntitledLead
<1>2. e[k] <= e[l]
  BY <1>1 DEF UntitledLead
<1>3. k \in Nat /\ l \in Nat /\ e[k] \in Nat /\ e[l] \in Nat
  BY <1>1, ContainsIs
<1>4. ~(l < k)
  <2> SUFFICES ASSUME l < k PROVE FALSE
    OBVIOUS
  <2>1. e[l] < e[k]
    BY <1>1
  <2> QED
    BY <1>2, <1>3, <2>1
<1> QED
  BY <1>3, <1>4

LEMMA LeadStep ==
    ASSUME TypeOK, NothingYet, OfferIsReadable, UntitledFirst, [Next]_vars
    PROVE  UntitledLead(slots')
<1>1. /\ slots \in Seq(Filings) /\ slots' \in Seq(Filings)
      /\ writing \in {None} \cup Snapshots /\ UntitledLead(slots)
      /\ writing # None /\ writing.slot # Untitled => NotUntitled(writing.doc)
  BY SlotsStep DEF TypeOK, UntitledFirst, UntitledLead
<1>2. Owners
  BY Steps
<1>3. \A slot : Others(slot) \in Seq(Filings) /\ UntitledLead(Others(slot))
  <2> TAKE slot
  <2>1. Others(slot) \in Seq(Filings) /\ Embeds(Others(slot), slots)
    BY <1>1, OthersAre
  <2> QED
    BY <1>1, <2>1, EmbeddedLead
<1>4. CASE Written
  <2> DEFINE t == Others(writing.slot)
  <2>1. writing # None /\ slots' = Filed(writing) /\ writing \in Filings
    BY <1>1, <1>4 DEF Written, Snapshots, Filings
  <2>2. /\ 1 \in DOMAIN slots' /\ slots'[1] = writing /\ DOMAIN slots' \subseteq Nat \ {0}
        /\ \A k \in DOMAIN slots' : k # 1 => k - 1 \in DOMAIN t /\ slots'[k] = t[k - 1]
    BY <1>1, <2>1, FiledIs
  <2>3. /\ t \in Seq(Filings) /\ \A j \in DOMAIN t : t[j].slot # writing.slot
        /\ \A j \in DOMAIN t : \E i \in DOMAIN slots : t[j] = slots[i]
    <3>1. /\ t \in Seq(Filings) /\ Embeds(t, slots)
          /\ \A j \in DOMAIN t : t[j].slot # writing.slot
      BY <1>1, OthersAre
    <3> QED
      BY <1>1, <3>1, EmbeddedAre
  <2>4. UntitledLead(t)
    BY <1>3
  <2> HIDE DEF t
  <2> SUFFICES ASSUME NEW k \in DOMAIN slots', NEW l \in DOMAIN slots',
                      slots'[k].slot = Untitled, slots'[k].doc = slots'[l].doc,
                      slots'[k].doc # Torn
               PROVE  k <= l
    BY DEF UntitledLead
  <2>5. CASE k = 1
    BY <2>2, <2>5
  <2>6. CASE k # 1 /\ l # 1
    <3>1. k - 1 <= l - 1
      BY <2>2, <2>4, <2>6 DEF UntitledLead
    <3> QED
      BY <2>2, <3>1
  <2>7. CASE k # 1 /\ l = 1
    <3>1. PICK i \in DOMAIN slots : slots'[k] = slots[i]
      BY <2>2, <2>3, <2>7
    <3>2. writing.slot # Untitled
      BY <2>2, <2>3, <2>7
    <3>3. slots[i] \in Filings /\ slots[i].slot = Untitled /\ slots[i].doc = writing.doc
      BY <1>1, <2>2, <2>7, <3>1, ContainsIs
    <3>4. slots[i] = [slot |-> Untitled, doc |-> writing.doc]
      BY <3>3 DEF Filings
    <3> QED
      BY <1>1, <2>1, <3>2, <3>4 DEF NotUntitled
  <2> QED
    BY <2>5, <2>6, <2>7
<1>5. CASE Clear
  BY <1>3, <1>5 DEF Clear
<1>6. CASE PowerCut
  <2>1. /\ DOMAIN slots' = DOMAIN slots
        /\ \A i \in DOMAIN slots : slots'[i].doc = Torn \/ slots'[i] = slots[i]
    BY <1>6, Tearing
  <2> QED
    BY <1>1, <2>1 DEF UntitledLead
<1>7. CASE Discard
  <2>1. slots # <<>> /\ slots' = Tail(slots)
    BY <1>7 DEF Discard, Answer, OfferIsReadable
  <2>2. \A i \in DOMAIN slots' : i + 1 \in DOMAIN slots /\ slots'[i] = slots[i + 1] /\ i \in Nat
    BY <1>1, <2>1, TailElements, ContainsIs
  <2> SUFFICES ASSUME NEW k \in DOMAIN slots', NEW l \in DOMAIN slots',
                      slots'[k].slot = Untitled, slots'[k].doc = slots'[l].doc,
                      slots'[k].doc # Torn
               PROVE  k <= l
    BY DEF UntitledLead
  <2>3. k + 1 <= l + 1
    BY <1>1, <2>2 DEF UntitledLead
  <2> QED
    BY <2>2, <2>3
<1>8. CASE UNCHANGED slots
  BY <1>1, <1>8
<1> QED
  BY <1>2, <1>4, <1>5, <1>6, <1>7, <1>8 DEF Owners

LEMMA UntitledFirstStep ==
    ASSUME TypeOK, NothingYet, DocsAreBudgeted, ContentsAreKnown, OfferIsReadable,
           UntitledFirst, [Next]_vars
    PROVE  UntitledFirst'
<1> DEFINE Bare(c) == [slot |-> Untitled, doc |-> c]
<1>1. /\ slots \in Seq(Filings) /\ slots' \in Seq(Filings)
      /\ writing \in {None} \cup Snapshots /\ path \in Paths \cup {None}
      /\ doc \in Contents
  BY SlotsStep DEF TypeOK
<1>2. Owners
  BY Steps
<1>3. writing # None /\ writing.slot # Untitled =>
         \A i \in DOMAIN slots : slots[i] # Bare(writing.doc)
  BY DEF UntitledFirst, NotUntitled
<1>4. running = "on" /\ dirty /\ path # None =>
         /\ \A i \in DOMAIN slots : slots[i] # Bare(doc)
         /\ writing # Bare(doc)
  BY DEF UntitledFirst, NotUntitled
<1>5. ASSUME NEW c \in Contents, NEW k \in DOMAIN slots', slots'[k] = Bare(c)
      PROVE  \/ \E i \in DOMAIN slots : slots[i] = Bare(c)
             \/ Written /\ writing = Bare(c)
  <2>1. slots'[k].doc # Torn
    BY <1>5, FileAssumption
  <2> HIDE DEF Bare
  <2>2. \/ \E i \in DOMAIN slots : slots'[k] = slots[i]
        \/ Written /\ writing # None /\ slots'[k] = writing
    BY <2>1, SlotsFrom
  <2> QED
    BY <1>5, <2>2
<1>6. ASSUME NEW c \in Contents
      PROVE  Bare(c) # None
  <2>1. Bare(c) \in Snapshots
    BY DEF Snapshots, Slots
  <2> QED
    BY <2>1, FileAssumption
<1>7. ASSUME writing' # None, writing'.slot # Untitled, NEW k \in DOMAIN slots',
             slots'[k] = Bare(writing'.doc)
      PROVE  FALSE
  <2>1. CASE TimerFires /\ writing' # writing
    <3>1. /\ writing' = [slot |-> path, doc |-> doc] /\ running = "on" /\ dirty
          /\ UNCHANGED slots
      BY <2>1 DEF TimerFires, SlotFor
    <3>2. writing'.slot = path /\ writing'.doc = doc
      BY <3>1
    <3>3. path # None
      BY <1>7, <3>2 DEF Untitled
    <3> QED
      BY <1>4, <1>7, <3>1, <3>2, <3>3
  <2>2. CASE UNCHANGED writing
    <3>1. ~Written
      BY <1>7, <2>2 DEF Written
    <3>2. writing.doc \in Contents /\ writing # None /\ writing.slot # Untitled
      BY <1>1, <1>7, <2>2 DEF Snapshots
    <3>3. slots'[k] = Bare(writing.doc)
      BY <1>7, <2>2
    <3> HIDE DEF Bare
    <3> QED
      BY <1>3, <1>5, <3>1, <3>2, <3>3
  <2>3. CASE Written \/ WriteFails \/ Crash \/ PowerCut
    BY <1>7, <2>3 DEF Written, WriteFails, Crash, PowerCut, Forget
  <2> QED
    BY <1>2, <2>1, <2>2, <2>3 DEF Owners
<1>8. ASSUME running' = "on", dirty', path' # None
      PROVE  /\ \A k \in DOMAIN slots' : slots'[k] # Bare(doc')
             /\ writing' # Bare(doc')
  <2> DEFINE Goal == /\ \A k \in DOMAIN slots' : slots'[k] # Bare(doc')
                     /\ writing' # Bare(doc')
  <2> SUFFICES Goal
    OBVIOUS
  <2>1. CASE Edit \/ SilentEdit
    <3>1. UNCHANGED slots /\ UNCHANGED writing
      BY <2>1 DEF Edit, SilentEdit
    <3>2. doc' \in Contents
      BY <2>1, Changing
    <3>3. /\ \A i \in DOMAIN slots : slots[i].doc # doc'
          /\ writing # None => writing.doc # doc'
      BY <2>1, ChangesAreNew
    <3>4. Bare(doc').doc = doc'
      OBVIOUS
    <3> HIDE DEF Bare
    <3> QED
      BY <1>6, <3>1, <3>2, <3>3, <3>4
  <2>2. CASE New \/ ASaved \/ AOpened \/ Crash \/ PowerCut
    BY <1>8, <2>2 DEF New, ASaved, Saved, AOpened, Opened, Crash, PowerCut, Forget
  <2>3. CASE Launch \/ Recover \/ Discard \/ Keep
    <3>1. path' = None
      BY <2>3 DEF Launch, Recover, Discard, Keep, Answer, NothingYet
    <3> QED
      BY <1>8, <3>1
  <2>4. CASE UNCHANGED doc /\ UNCHANGED path /\ UNCHANGED running /\ UNCHANGED dirty
    <3>1. /\ \A i \in DOMAIN slots : slots[i] # Bare(doc)
          /\ writing # Bare(doc) /\ path # None
      BY <1>4, <1>8, <2>4
    <3>2. writing' \in {writing, None, [slot |-> path, doc |-> doc]}
      <4>1. CASE TimerFires
        BY <4>1 DEF TimerFires, SlotFor
      <4>2. CASE Written \/ WriteFails \/ Crash \/ PowerCut
        BY <4>2 DEF Written, WriteFails, Crash, PowerCut, Forget
      <4> QED
        BY <1>2, <4>1, <4>2 DEF Owners
    <3>3. [slot |-> path, doc |-> doc] # Bare(doc)
      BY <3>1 DEF Untitled
    <3> HIDE DEF Bare
    <3> QED
      BY <1>1, <1>5, <1>6, <2>4, <3>1, <3>2, <3>3
  <2>5. CASE AFail
    <3>1. UNCHANGED doc /\ UNCHANGED path /\ UNCHANGED running /\ UNCHANGED dirty
      BY <2>5 DEF AFail, SaveFails, AfterFailure
    <3> QED
      BY <2>4, <3>1
  <2> HIDE DEF Goal
  <2> QED
    BY <1>2, <2>1, <2>2, <2>3, <2>4, <2>5 DEF Owners
<1>9. UntitledLead(slots')
  BY LeadStep
<1> QED
  BY <1>7, <1>8, <1>9 DEF UntitledFirst, UntitledLead, NotUntitled

(* The same of the next state. *)
SupersededNext(s) ==
    /\ s.slot # Untitled /\ s.doc # Torn
    /\ disk'[s.slot] # None /\ disk'[s.slot].line = s.doc.line
    /\ s.doc.rev <= disk'[s.slot].rev

LeavingNext(slot) ==
    \/ Contains(clears', slot)
    \/ \E o \in Ops : op'[o] # None /\ op'[o].path = slot /\ op'[o].stage \in InPlace

(* A slot that is about to be cleared stays so until it is. *)
LEMMA LeavingStays ==
    ASSUME TypeOK, CallsAreReads, CallsAreTrue, [Next]_vars, NoRace',
           "crashedSaving" \notin happened', "leftBehind" \notin happened',
           NEW slot \in Slots, Leaving(slot)
    PROVE  LeavingNext(slot) \/ (Clear /\ slot = Head(clears))
<1>1. Owners
  BY Steps
<1>2. /\ clears \in Seq(Slots) /\ clears' \in Seq(Slots)
      /\ \A x \in Ops : op[x] # None => op[x] \in Calls
  BY WritingStep DEF TypeOK
<1>3. \A x \in Ops : op[x] # None => (op[x].kind = "open" <=> op[x].stage = "read")
  BY DEF CallsAreReads
<1>4. \A o \in Ops : op[o] # None /\ op[o].kind = "save" => op[o].path = path
  BY Racing DEF CallsAreTrue, CallIsTrue
<1>5. LeavingNext(slot) <=> \/ Contains(clears', slot)
                         \/ \E o \in Ops : op'[o] # None /\ op'[o].path = slot
                                           /\ op'[o].stage \in InPlace
  BY DEF LeavingNext
<1>6. Crash \/ PowerCut => ~Saving /\ clears = <<>>
  BY DEF Crash, PowerCut, Note, Interrupted
<1>9. ~ClearFails
  BY DEF ClearFails, Note
<1>7. ASSUME Contains(clears, slot)
      PROVE  LeavingNext(slot) \/ (Clear /\ slot = Head(clears))
  <2>1. CASE ASaved
    BY <1>5, <1>7, <2>1, Clearing DEF ASaved
  <2>2. CASE Clear
    <3>1. clears # <<>> /\ clears' = Tail(clears)
      BY <2>2 DEF Clear
    <3>2. PICK i \in DOMAIN clears : clears[i] = slot
      BY <1>2, <1>7, ContainsIs
    <3>3. CASE i = 1
      BY <1>2, <2>2, <3>1, <3>2, <3>3, TailElements
    <3>4. CASE i # 1
      <4>1. i - 1 \in DOMAIN clears' /\ clears'[i - 1] = slot
        BY <1>2, <3>1, <3>2, <3>4, TailElements
      <4>2. Contains(clears', slot)
        BY <1>2, <4>1, ContainsIs
      <4> QED
        BY <1>5, <4>2
    <3> QED
      BY <3>3, <3>4
  <2>3. clears # <<>>
    <3>1. \E i \in DOMAIN clears : TRUE
      BY <1>2, <1>7, ContainsIs
    <3> QED
      BY <3>1
  <2>4. CASE UNCHANGED clears
    BY <1>5, <1>7, <2>4
  <2> QED
    BY <1>1, <1>6, <1>9, <2>1, <2>2, <2>3, <2>4 DEF Owners
<1>8. ASSUME NEW x \in Ops, op[x] # None, op[x].path = slot, op[x].stage \in InPlace
      PROVE  LeavingNext(slot)
  <2>1. CASE op'[x] = op[x]
    BY <1>5, <1>8, <2>1
  <2>2. CASE ABegin
    <3>1. PICK o \in Ops, c \in Calls : Begins(o, c)
      BY <2>2, Beginning DEF ABegin
    <3> QED
      BY <1>8, <2>1, <3>1 DEF Begins, OpBecomes
  <2>3. CASE ARename
    <3>1. PICK o \in Ops : Rename(o)
      BY <2>3 DEF ARename
    <3>2. PICK c \in Calls : Moves(o, c) /\ op[o].stage = "built"
      BY <3>1, Moving DEF Rename
    <3>3. x # o
      BY <1>8, <3>2 DEF InPlace
    <3> QED
      BY <2>1, <3>2, <3>3 DEF Moves, OpBecomes
  <2>4. CASE ASync
    <3>1. PICK o \in Ops : SyncDirectory(o)
      BY <2>4 DEF ASync
    <3>2. PICK c \in Calls : Moves(o, c) /\ c.stage = "done"
      BY <3>1, Moving DEF SyncDirectory
    <3>3. CASE x = o
      <4>1. op'[o] = c /\ c # None /\ c.path = slot /\ c.stage \in InPlace
        BY <1>8, <3>2, <3>3, CallFields DEF Moves, OpBecomes, InPlace
      <4> QED
        BY <1>5, <4>1
    <3>4. CASE x # o
      BY <2>1, <3>2, <3>4 DEF Moves, OpBecomes
    <3> QED
      BY <3>3, <3>4
  <2>5. CASE ASaved
    <3>1. PICK o \in Ops : Saved(o)
      BY <2>5 DEF ASaved
    <3>2. CASE x = o
      <4>1. path' = (IF op[o].kind = "save" THEN path ELSE op[o].path)
        BY <3>1 DEF Saved
      <4>2. path' = slot
        BY <1>4, <1>8, <3>2, <4>1
      <4>3. Contains(clears', slot)
        BY <3>1, <4>2, Clearing
      <4> QED
        BY <1>5, <4>3
    <3>3. CASE x # o
      BY <2>1, <3>1, <3>3, Ending DEF OpBecomes
    <3> QED
      BY <3>2, <3>3
  <2>6. CASE AFail \/ AOpened
    <3>1. PICK o \in Ops : SaveFails(o) \/ Opened(o)
      BY <2>6 DEF AFail, AOpened
    <3>2. op[o] # None /\ op[o].stage \in {"built", "read"}
      BY <1>3, <3>1 DEF SaveFails, Opened
    <3>3. x # o
      BY <1>8, <3>2 DEF InPlace
    <3> QED
      BY <2>1, <3>1, <3>3, Ending DEF OpBecomes
  <2>7. CASE Crash \/ PowerCut
    <3>1. op[x].kind \in {"save", "saveAs"}
      BY <1>2, <1>3, <1>8, CallFields DEF InPlace
    <3>2. Saving
      BY <1>8, <3>1 DEF Saving, Busy
    <3> QED
      BY <1>6, <2>7, <3>2
  <2>8. CASE UNCHANGED op
    BY <2>1, <2>8
  <2> QED
    BY <1>1, <2>2, <2>3, <2>4, <2>5, <2>6, <2>7, <2>8 DEF Owners
<1> QED
  BY <1>7, <1>8 DEF Leaving, Landed

(* What catches up with a snapshot is a save that lands. *)
LEMMA Superseding ==
    ASSUME TypeOK, CallsAreReads, DiskIsDurable, [Next]_vars, NoRace',
           "crashedSaving" \notin happened', NEW s \in Filings, SupersededNext(s)
    PROVE  Superseded(s) \/ LeavingNext(s.slot)
<1>1. Owners
  BY Steps
<1>2. s.slot \in Paths
  BY DEF SupersededNext, Filings, Slots
<1>3. /\ \A x \in Ops : op[x] # None => op[x] \in Calls
      /\ disk \in [Paths -> Contents \cup {None}]
  BY DEF TypeOK
<1>4. CASE disk'[s.slot] = disk[s.slot]
  BY <1>4 DEF Superseded, SupersededNext
<1>5. CASE ARename
  <2>1. PICK o \in Ops : Rename(o)
    BY <1>5 DEF ARename
  <2>2. PICK c \in Calls : Moves(o, c) /\ c.stage = "renamed"
    BY <2>1, Moving DEF Rename
  <2>3. disk' = [disk EXCEPT ![op[o].path] = op[o].doc]
    BY <2>1 DEF Rename
  <2>4. CASE op[o].path = s.slot
    <3>1. op'[o] = c /\ c # None /\ c.path = s.slot /\ c.stage \in InPlace
      BY <2>2, <2>4, CallFields DEF Moves, OpBecomes, InPlace
    <3> QED
      BY <3>1 DEF LeavingNext
  <2>5. CASE op[o].path # s.slot
    <3>1. disk'[s.slot] = disk[s.slot]
      BY <1>2, <1>3, <2>3, <2>5
    <3> QED
      BY <1>4, <3>1
  <2> QED
    BY <2>4, <2>5
<1>6. CASE PowerCut
  <2>1. ~Saving
    BY <1>6 DEF PowerCut, Note, Interrupted
  <2>2. \A x \in Ops : op[x] # None => op[x].stage = "read"
    BY <1>3, <2>1, CallFields DEF Saving, Busy, CallsAreReads
  <2>3. Unless({"race", "crashedSaving"})
    BY <1>1 DEF NoRace, Unless, Owners
  <2>4. durable[s.slot] = disk[s.slot]
    BY <1>2, <2>2, <2>3 DEF DiskIsDurable
  <2>5. disk'[s.slot] \in {disk[s.slot], durable[s.slot]}
    BY <1>2, <1>6, Tearing
  <2> QED
    BY <1>4, <2>4, <2>5
<1>7. CASE UNCHANGED disk
  BY <1>4, <1>7
<1> QED
  BY <1>1, <1>5, <1>6, <1>7 DEF Owners

LEMMA SupersededAreLeavingStep ==
    ASSUME TypeOK, OfferIsReadable, CallsAreReads, CallsAreTrue, FileIsOurs,
           DiskIsDurable, SupersededAreLeaving, [Next]_vars
    PROVE  SupersededAreLeaving'
<1> SUFFICES ASSUME happened' \cap {"leftBehind", "crashedSaving", "race"} = {}
             PROVE  /\ \A k \in DOMAIN slots' :
                          SupersededNext(slots'[k]) => LeavingNext(slots'[k].slot)
                    /\ writing' # None /\ SupersededNext(writing') =>
                          LeavingNext(writing'.slot)
  BY DEF SupersededAreLeaving, Unless, Superseded, SupersededNext, Leaving, LeavingNext,
         Landed, InPlace
<1>1. Owners
  BY Steps
<1>2. /\ NoRace' /\ NoRace
      /\ "crashedSaving" \notin happened' /\ "leftBehind" \notin happened'
      /\ happened \cap {"leftBehind", "crashedSaving", "race"} = {}
  BY <1>1 DEF NoRace, Unless, Owners
<1>3. /\ slots \in Seq(Filings) /\ slots' \in Seq(Filings) /\ clears \in Seq(Slots)
      /\ writing \in {None} \cup Snapshots /\ path \in Paths \cup {None}
      /\ doc \in Contents
  BY SlotsStep DEF TypeOK
<1>4. /\ \A i \in DOMAIN slots : Superseded(slots[i]) => Leaving(slots[i].slot)
      /\ writing # None /\ Superseded(writing) => Leaving(writing.slot)
  BY <1>2 DEF SupersededAreLeaving, Unless
<1>5. ASSUME NEW s \in Filings, Superseded(s) => Leaving(s.slot), SupersededNext(s)
      PROVE  LeavingNext(s.slot) \/ (Clear /\ s.slot = Head(clears))
  <2>1. Superseded(s) \/ LeavingNext(s.slot)
    BY <1>2, <1>5, Superseding
  <2>2. s.slot \in Slots
    BY DEF Filings
  <2> QED
    BY <1>2, <1>5, <2>1, <2>2, LeavingStays
<1>6. writing # None => writing \in Filings
  BY <1>3 DEF Snapshots, Filings
<1>7. ASSUME NEW k \in DOMAIN slots', SupersededNext(slots'[k])
      PROVE  LeavingNext(slots'[k].slot)
  <2>1. slots'[k] \in Filings /\ slots'[k].doc # Torn
    BY <1>3, <1>7, ContainsIs DEF SupersededNext
  <2>2. Superseded(slots'[k]) => Leaving(slots'[k].slot)
    BY <1>4, <2>1, SlotsFrom
  <2>3. ASSUME Clear PROVE slots'[k].slot # Head(clears)
    <3>1. slots' = Others(Head(clears))
      BY <2>3 DEF Clear
    <3> QED
      BY <1>3, <3>1, OthersAre
  <2> QED
    BY <1>5, <1>7, <2>1, <2>2, <2>3
<1>8. ASSUME writing' # None, SupersededNext(writing')
      PROVE  LeavingNext(writing'.slot)
  <2>1. CASE UNCHANGED writing
    <3>1. ~Clear
      BY <1>2, <1>8, <2>1 DEF Clear, Note
    <3> QED
      BY <1>4, <1>5, <1>6, <1>8, <2>1, <3>1
  <2>2. CASE TimerFires /\ writing' # writing
    <3>1. /\ writing' = [slot |-> path, doc |-> doc] /\ dirty
          /\ UNCHANGED disk /\ UNCHANGED op
      BY <2>2 DEF TimerFires, SlotFor
    <3>2. writing'.slot = path /\ writing'.doc = doc
      BY <3>1
    <3>3. path # None /\ doc.rev <= disk[path].rev
      BY <1>8, <3>1, <3>2 DEF SupersededNext, Untitled
    <3>4. disk[path] \in Contents /\ (disk[path].rev < doc.rev \/ Landed(path))
      BY <1>2, <3>1, <3>3 DEF FileIsOurs
    <3>5. disk[path].rev \in Int /\ doc.rev \in Int
      BY <1>3, <3>4 DEF Contents
    <3>6. ~(disk[path].rev < doc.rev)
      BY <3>3, <3>5
    <3> QED
      BY <3>1, <3>2, <3>4, <3>6 DEF Landed, LeavingNext
  <2>3. CASE Written \/ WriteFails \/ Crash \/ PowerCut
    BY <1>8, <2>3 DEF Written, WriteFails, Crash, PowerCut, Forget
  <2> QED
    BY <1>1, <2>1, <2>2, <2>3 DEF Owners
<1> QED
  BY <1>7, <1>8
-----------------------------------------------------------------------------
(* What follows.                                                           *)

LEMMA FileInit ==
    ASSUME Init
    PROVE  IInv
<1> DEFINE D == [line |-> 1, rev |-> 1]
           Z == [line |-> 0, rev |-> 0]
<1>1. /\ running = "on" /\ doc = D /\ docs = 1 /\ path = None /\ dirty = FALSE
      /\ op = [o \in Ops |-> None] /\ clears = <<>> /\ timer = FALSE
      /\ writing = None /\ slots = <<>> /\ durable = disk /\ lost = None
      /\ happened = {} /\ mishaps = MaxMishaps
  BY DEF Init
<1>2. PICK old \in Paths : disk = [p \in Paths |-> IF p = old THEN Z ELSE None]
  BY DEF Init
<1>3. MaxDocs \in Nat \ {0} /\ MaxMishaps \in Nat
  BY FileAssumption
<1>4. /\ 0 \in 0 .. MaxDocs + MaxMishaps /\ 1 \in 0 .. MaxDocs + MaxMishaps
      /\ 1 \in 1 .. MaxDocs + MaxMishaps
  BY <1>3
<1>5. D \in Contents /\ Z \in Contents /\ D.rev = 1 /\ Z.rev = 0
  BY <1>4 DEF Contents
<1> HIDE DEF D, Z
<1>6. /\ disk \in [Paths -> Contents \cup {None}]
      /\ \A p \in Paths : disk[p] = Z \/ disk[p] = None
  BY <1>2, <1>5
<1>7. DOMAIN slots = {} /\ slots \in Seq(Filings) /\ clears \in Seq(Slots)
  <2>1. <<>> \in Seq(Filings) /\ <<>> \in Seq(Slots)
    OBVIOUS
  <2>2. Len(slots) = 0 /\ DOMAIN slots = 1 .. Len(slots)
    BY <1>1, <2>1, EmptySeq, LenProperties
  <2> QED
    BY <1>1, <2>1, <2>2
<1>8. \A o \in Ops : op[o] = None
  BY <1>1
<1>9. TypeOK
  <2>1. mishaps \in 0 .. MaxMishaps
    BY <1>1, <1>3
  <2>2. op \in [Ops -> {None} \cup Calls]
    BY <1>1
  <2> QED
    BY <1>1, <1>4, <1>5, <1>6, <1>7, <2>1, <2>2 DEF TypeOK
<1>10. NothingYet /\ CallsAreReads /\ CallsAreTrue /\ OfferIsReadable /\ LostIsFirst
  BY <1>1, <1>8
     DEF NothingYet, CallsAreReads, CallsAreTrue, OneAtATime, OfferIsReadable, LostIsFirst
<1>11. DocsAreBudgeted
  BY <1>1, <1>3 DEF DocsAreBudgeted
<1>12. ContentsAreKnown
  <2>1. ASSUME NEW c, c = Z \/ c = None, c \in Contents PROVE c.rev <= 1
    BY <1>5, <2>1, FileAssumption
  <2> QED
    BY <1>1, <1>5, <1>6, <1>7, <1>8, <2>1 DEF ContentsAreKnown, Known
<1>13. FileIsOurs /\ DiskIsDurable /\ CleanMeansSaved /\ UnsavedIsKept /\ NewestFirst
  BY <1>1 DEF FileIsOurs, DiskIsDurable, CleanMeansSaved, UnsavedIsKept, NewestFirst
<1>14. UntitledFirst /\ SupersededAreLeaving
  BY <1>1, <1>7 DEF UntitledFirst, SupersededAreLeaving
<1> QED
  BY <1>9, <1>10, <1>11, <1>12, <1>13, <1>14 DEF IInv

LEMMA FileStep ==
    ASSUME IInv, [Next]_vars
    PROVE  IInv'
<1> USE DEF IInv
<1>1. TypeOK' /\ NothingYet' /\ DocsAreBudgeted'
  BY TypeStep, NothingYetStep, BudgetStep
<1>2. ContentsAreKnown' /\ CallsAreReads' /\ CallsAreTrue'
  BY ContentsAreKnownStep, CallsAreReadsStep, CallsAreTrueStep
<1>3. FileIsOurs' /\ DiskIsDurable' /\ CleanMeansSaved'
  BY FileIsOursStep, DiskIsDurableStep, CleanMeansSavedStep
<1>4. UnsavedIsKept' /\ NewestFirst' /\ LostIsFirst' /\ OfferIsReadable'
  BY UnsavedIsKeptStep, NewestFirstStep, LostIsFirstStep, OfferIsReadableStep
<1>5. UntitledFirst' /\ SupersededAreLeaving'
  BY UntitledFirstStep, SupersededAreLeavingStep
<1> QED
  BY <1>1, <1>2, <1>3, <1>4, <1>5

(* The inductive invariant holds whatever the user, the disk and the       *)
(* machine do.                                                             *)
THEOREM FileInvariance == Spec => []IInv
<1>1. Init => IInv
  BY FileInit
<1>2. IInv /\ [Next]_vars => IInv'
  BY FileStep
<1> QED
  BY <1>1, <1>2, PTL DEF Spec

(* The document, the calls of the window and the files stay of their types.*)
THEOREM FileTypeCorrect == Spec => []TypeOK
<1>1. IInv => TypeOK
  BY DEF IInv
<1> QED
  BY <1>1, FileInvariance, PTL

(* A document shown as saved is what its file holds, also after a power    *)
(* cut, unless it changed while a save was under way (files.ts: save()     *)
(* awaits the shell, then marks whatever document is open).                *)
THEOREM SavedIsInTheFile == Spec => []CleanMeansSaved
<1>1. IInv => CleanMeansSaved
  BY DEF IInv
<1> QED
  BY <1>1, FileInvariance, PTL

(* Unsaved work has its snapshot, or is about to (recovery.ts: the timer,  *)
(* and the one snapshot at a time).                                        *)
THEOREM UnsavedHasASnapshot == Spec => []UnsavedIsCovered
<1>1. IInv => UnsavedIsCovered
  <2> SUFFICES ASSUME IInv, running = "on", dirty, ~timer, writing = None,
                      Unless({"missed", "race"})
               PROVE  Covered
    BY DEF UnsavedIsCovered
  <2>1. Unless({"missed"}) /\ UnsavedIsKept
    BY DEF IInv, Unless
  <2> QED
    BY <2>1 DEF UnsavedIsKept
<1> QED
  BY <1>1, FileInvariance, PTL

(* What a crash took, if it had its snapshot, is what the next launch      *)
(* offers (lib.rs lists the snapshots newest first; recovery.ts offers     *)
(* the first).                                                             *)
THEOREM LostWorkIsOffered == Spec => []NewestIsOffered
<1>1. IInv => NewestIsOffered
  BY DEF IInv, LostIsFirst, NewestIsOffered
<1> QED
  BY <1>1, FileInvariance, PTL

(* A snapshot the file has caught up with is about to be cleared, unless   *)
(* its save left it behind or was cut off by a crash.                      *)
THEOREM SnapshotsHoldUnsavedWork == Spec => []SnapshotsAreUnsaved
<1>1. IInv => SnapshotsAreUnsaved
  <2> SUFFICES ASSUME IInv, NEW i \in DOMAIN slots, Superseded(slots[i]),
                      Unless({"leftBehind", "crashedSaving", "race"})
               PROVE  \/ Contains(clears, slots[i].slot)
                      \/ \E o \in Ops : op[o] # None /\ op[o].path = slots[i].slot
    BY DEF SnapshotsAreUnsaved
  <2>1. Leaving(slots[i].slot)
    BY DEF IInv, SupersededAreLeaving
  <2> QED
    BY <2>1 DEF Leaving, Landed
<1> QED
  BY <1>1, FileInvariance, PTL

(* A plain save writes over no other document than the one it came from.   *)
THEOREM SavesStay == Spec => SaveStaysInItsDocument
<1> DEFINE Stays ==
       \A p \in Paths :
          \/ disk'[p] = disk[p] \/ disk[p] = None \/ running' = "off"
          \/ disk'[p].line = disk[p].line
          \/ \E o \in Ops : op[o] # None /\ op[o].kind = "saveAs" /\ op[o].path = p
          \/ ~Unless({"race"})
<1>1. ASSUME IInv, [Next]_vars
      PROVE  Stays
  <2> SUFFICES ASSUME NEW p \in Paths, disk'[p] # disk[p], running' # "off", NoRace,
                      ~\E o \in Ops : op[o] # None /\ op[o].kind = "saveAs"
                                      /\ op[o].path = p
               PROVE  disk'[p].line = disk[p].line
    BY DEF NoRace
  <2>1. /\ TypeOK /\ CallsAreReads /\ CallsAreTrue /\ FileIsOurs
    BY <1>1 DEF IInv
  <2>2. Owners
    BY <1>1, Steps
  <2>3. ~PowerCut
    BY DEF PowerCut, Forget
  <2>4. ARename
    BY <2>2, <2>3 DEF Owners
  <2>5. PICK o \in Ops : Rename(o)
    BY <2>4 DEF ARename
  <2>6. op[o] # None /\ op[o] \in Calls /\ op[o].stage = "built"
    BY <2>1, <2>5, Moving DEF Rename, Stage
  <2>7. disk' = [disk EXCEPT ![op[o].path] = op[o].doc]
        /\ disk \in [Paths -> Contents \cup {None}]
    BY <2>1, <2>5 DEF Rename, TypeOK
  <2>8. op[o].path = p /\ disk'[p] = op[o].doc
    BY <2>7
  <2>9. op[o].kind = "save"
    BY <2>1, <2>6, <2>8, CallFields DEF CallsAreReads
  <2>10. op[o].doc = doc /\ p = path
    BY <2>1, <2>6, <2>8, <2>9 DEF CallsAreTrue, CallIsTrue
  <2>11. path # None
    BY <2>10, FileAssumption
  <2> QED
    BY <2>1, <2>8, <2>10, <2>11 DEF FileIsOurs
<1>2. IInv /\ [Next]_vars => [Stays]_vars
  BY <1>1
<1> HIDE DEF Stays
<1>3. Spec => [][Stays]_vars
  BY <1>2, FileInvariance, PTL DEF Spec
<1> QED
  BY <1>3 DEF Stays, SaveStaysInItsDocument
=============================================================================
