---------------------------- MODULE LiveSession ----------------------------
(***************************************************************************)
(* The live session: a window that shares its open document, agents that   *)
(* read it and propose replacements, and the engine process between them.  *)
(*   src/sidecar/live_session.py                   the session             *)
(*   src/src/live/liveSession.ts                   the window's half       *)
(*   src/plugins/FundaCAD.MCP/live_link.py         the agent's half        *)
(*                                                                         *)
(* A connection is its client and a number, as a client that reconnects is *)
(* somebody new.  The requests of a window wait in "wire": in the socket   *)
(* when it is open, in the client's outbox when it is not, and at the      *)
(* engine when the socket has closed and the engine has not noticed.  An   *)
(* agent makes one call at a time and awaits it.                           *)
(*                                                                         *)
(* What a document holds does not matter here, which one it is does: every *)
(* change of an open document gives it a number nobody has used.           *)
(***************************************************************************)
EXTENDS Integers, Sequences, SequencesExt, FiniteSets, SequenceFilter

CONSTANTS Windows,      \* windows, of which one is open at a time
          Agents,       \* agents
          None,         \* absent
          MaxPending,   \* proposals the session holds: 8
          Memory,       \* receipts a window publishes: 16
          MaxConns,     \* connections of one client (a bound)
          MaxDocs,      \* document changes of the user (a bound)
          MaxOffers,    \* proposals accepted (a bound)
          MaxMishaps    \* drops, reloads, changes of mind, lapses (a bound)

Clients == Windows \cup Agents
Conns   == Clients \X (1 .. MaxConns)
Modes   == {"off", "read", "edit"}

ASSUME LiveAssumption ==
    /\ Windows \cap Agents = {}
    /\ None \notin Conns
    /\ MaxPending \in Nat \ {0} /\ Memory \in Nat \ {0}
    /\ MaxConns \in Nat \ {0}
    /\ MaxDocs \in Nat /\ MaxOffers \in Nat /\ MaxMishaps \in Nat

VARIABLES
    conn,      \* the number of each client's connection, open or being opened
    open,      \* the window that is open
    up,        \* its socket is open
    closing,   \* connections that are gone, and whose handler has not ended
    wire,      \* the requests of each connection, in order
    window,    \* each window
    session,   \* the session
    agent,     \* each agent
    docs,      \* document changes so far; the last is the newest number
    offers,    \* proposals accepted so far (for telling them apart)
    taken,     \* proposals applied, with the document each replaced (history)
    happened,  \* what the protocol does not survive (history)
    mishaps    \* mishaps left

vars == <<conn, open, up, closing, wire, window, session, agent, docs, offers,
          taken, happened, mishaps>>

Id(c) == <<c, conn[c]>>

Mishap == mishaps > 0 /\ mishaps' = mishaps - 1
-----------------------------------------------------------------------------
(* The session, as functions of its state.                                 *)

Empty ==
    [host |-> None, doc |-> None, revision |-> 0, allows |-> FALSE,
     applied |-> <<>>, guests |-> {}, lapsed |-> {}, pending |-> <<>>,
     issued |-> 0]

Without(s, gone) ==
    [s EXCEPT !.guests = @ \ gone, !.lapsed = @ \ gone,
              !.pending = Filtered(@, {p \in Range(@) : p.agent \notin gone})]

Touch(s, id) == [s EXCEPT !.guests = @ \cup {id}, !.lapsed = @ \ {id}]

(* guest_names(): leases that ran out end when somebody looks. *)
Expire(s) == Without(s, s.lapsed)

Says(s, m) ==
    [s EXCEPT !.doc = m.doc, !.revision = m.revision, !.allows = m.allows,
              !.applied = m.applied]

NewHost(s, id) ==
    IF s.host = id THEN s ELSE [s EXCEPT !.host = id, !.pending = <<>>]

TakeThenExpire(s, id, m) ==          \* mutant: leases expire too late
    LET told == Says(NewHost(s, id), m)
    IN  [answer |-> told.pending,
         after  |-> [Expire(told) EXCEPT !.pending = <<>>]]
TakeAndKeep(s, id, m) ==             \* mutant: what is taken stays
    LET told == Expire(Says(NewHost(s, id), m))
    IN  [answer |-> told.pending, after |-> told]
Publish(s, id, m) ==
    LET told == Expire(Says(NewHost(s, id), m))
    IN  [answer |-> told.pending, after |-> [told EXCEPT !.pending = <<>>]]

Release(s, id) == IF s.host = id THEN Empty ELSE s

NoBase(s, base) ==                   \* mutant: the base is not looked at
    s.host = None \/ Len(s.pending) >= MaxPending
Refusal(s, base) ==
    \/ s.host = None
    \/ base # s.revision
    \/ Len(s.pending) >= MaxPending

(* A proposal.  read, held and nonce are for the properties: the document  *)
(* the agent had read, the one the session held when it took the proposal, *)
(* and a number of its own.                                                *)
Propose(s, id, read, nonce) ==
    [s EXCEPT !.issued = @ + 1,
              !.pending = Append(@, [id |-> s.issued + 1, agent |-> id,
                                     read |-> read, held |-> s.doc,
                                     nonce |-> nonce])]
-----------------------------------------------------------------------------
(* Somebody remembers the number of a proposal: a window that has a        *)
(* receipt for it or is about to, a request that carries one, an agent     *)
(* that waits for one.  After a reset the session numbers from 1 again,    *)
(* and an old number is mistaken for a new one.                            *)
Remembered ==
    \/ window[open].receipts # <<>>
    \/ window[open].answer \notin {None, <<>>}
    \/ \E id \in Conns : \E i \in DOMAIN wire[id] : wire[id][i].applied # <<>>
    \/ \E g \in Agents : agent[g].at = "waiting"

Note(event) == happened' = happened \cup {event}

(* Session s replaces the session; does that start the numbers anew? *)
Set(s) ==
    /\ session' = s
    /\ IF s.issued < session.issued /\ Remembered THEN Note("renumbered")
       ELSE UNCHANGED happened
-----------------------------------------------------------------------------
NewWindow(mode, doc) ==
    [mode |-> mode, revision |-> IF mode = "off" THEN 0 ELSE 1, doc |-> doc,
     receipts |-> <<>>, tick |-> FALSE, answer |-> None]

NewAgent ==
    [at |-> "idle", base |-> 0, read |-> None, allows |-> FALSE, id |-> 0,
     nonce |-> 0]

Init ==
    /\ conn = [c \in Clients |-> 1]
    /\ open \in Windows
    /\ up = FALSE
    /\ closing = {}
    /\ wire = [id \in Conns |-> <<>>]
    /\ \E mode \in Modes : window = [w \in Windows |-> NewWindow(mode, 0)]
    /\ session = Empty
    /\ agent = [g \in Agents |-> NewAgent]
    /\ docs = 0
    /\ offers = 0
    /\ taken = {}
    /\ happened = {}
    /\ mishaps = MaxMishaps
-----------------------------------------------------------------------------
(* The window.                                                             *)

Sharing == window[open].mode # "off"

(* A request; what of it depends on the op is blank for a release. *)
Shared(w, awaited) ==
    [op |-> "host", doc |-> w.doc, revision |-> w.revision,
     allows |-> w.mode = "edit", applied |-> w.receipts, awaited |-> awaited]
Bye == [op |-> "release", doc |-> None, revision |-> 0, allows |-> FALSE,
        applied |-> <<>>, awaited |-> FALSE]

Send(m) == wire' = [wire EXCEPT ![Id(open)] = Append(@, m)]

(* tick(), by the timer or by start(); one at a time. *)
Tick ==
    /\ Sharing /\ ~window[open].tick
    /\ window' = [window EXCEPT ![open].tick = TRUE]
    /\ Send(Shared(window[open], TRUE))
    /\ UNCHANGED <<conn, open, up, closing, session, agent, docs, offers,
                   taken, happened, mishaps>>

(* A change of the document that the store reports (onDocChange): an edit  *)
(* of the timeline or a parameter, undo, redo, New, Open ...               *)
Edit ==
    /\ docs < MaxDocs
    /\ docs' = docs + 1
    /\ window' = [window EXCEPT ![open].doc = docs + 1,
                                ![open].revision = IF Sharing THEN @ + 1 ELSE @]
    /\ UNCHANGED <<conn, open, up, closing, wire, session, agent, offers,
                   taken, happened, mishaps>>

(* ... and one that it does not: names, visibility, colours, materials,    *)
(* elements, a version saved.                                              *)
SilentEdit ==
    /\ docs < MaxDocs
    /\ docs' = docs + 1
    /\ window' = [window EXCEPT ![open].doc = docs + 1]
    /\ IF Sharing THEN Note("silentEdit") ELSE UNCHANGED happened
    /\ UNCHANGED <<conn, open, up, closing, wire, session, agent, offers,
                   taken, mishaps>>

(* The setting changes.  start() subscribes to the store, which calls back *)
(* at once; stop() sends a release after whatever is on its way.           *)
StopInSilence(mode) == UNCHANGED wire   \* mutant: the session is not told
StopSharing(mode) == IF mode = "off" THEN Send(Bye) ELSE UNCHANGED wire

SetMode(mode) ==
    /\ Mishap
    /\ window[open].mode # mode
    /\ window' = [window EXCEPT ![open].mode = mode,
                                ![open].revision = IF Sharing THEN @ ELSE @ + 1]
    /\ StopSharing(mode)
    /\ UNCHANGED <<conn, open, up, closing, session, agent, docs, offers,
                   taken, happened>>

(* collect(): every proposal in turn replaces the document, if the setting *)
(* still allows it.  loadDocument() reports the change and start()'s       *)
(* subscription counts it.                                                 *)
KeepAll(s) == s                     \* mutant: receipts are never dropped
Latest(s) == SubSeq(s, Max({1, Len(s) - Memory + 1}), Len(s))

Applied(w, ps) ==
    [w EXCEPT !.doc = docs + Len(ps), !.revision = @ + Len(ps),
              !.receipts = Latest(@ \o [i \in DOMAIN ps |-> ps[i].id])]

(* The proposals as they were applied, with what each replaced. *)
Taken(doc, ps) ==
    {[nonce |-> ps[i].nonce, read |-> ps[i].read, held |-> ps[i].held,
      over |-> IF i = 1 THEN doc ELSE docs + i - 1] : i \in DOMAIN ps}

Wanted(w) == IF w.mode = "edit" THEN w.answer ELSE <<>>

Collect ==
    /\ window[open].answer # None
    /\ LET w  == [window[open] EXCEPT !.answer = None, !.tick = FALSE]
           ps == Wanted(window[open])
       IN  /\ docs' = docs + Len(ps)
           /\ window' = [window EXCEPT
                 ![open] = IF ps = <<>> THEN w ELSE Applied(w, ps)]
           /\ taken' = taken \cup Taken(w.doc, ps)
    /\ UNCHANGED <<conn, open, up, closing, wire, session, agent, offers,
                   happened, mishaps>>
-----------------------------------------------------------------------------
(* The network, and the engine.                                            *)

(* The client goes on under its next connection. *)
Leave(c) ==
    /\ conn[c] < MaxConns
    /\ conn' = [conn EXCEPT ![c] = @ + 1]

(* What was awaited is settled with an error, and the tick ends. *)
StillTicking(w) == [w EXCEPT !.answer = None]   \* mutant: inFlight is kept
Settled(w) == [w EXCEPT !.answer = None, !.tick = FALSE]

Drop ==
    /\ Mishap /\ up
    /\ Leave(open)
    /\ up' = FALSE
    /\ closing' = closing \cup {Id(open)}
    /\ window' = [window EXCEPT ![open] = Settled(@)]
    /\ UNCHANGED <<open, wire, session, agent, docs, offers, taken, happened>>

(* A dial that fails settles the calls, and leaves their requests in the   *)
(* outbox (RebuildWire says what that does to a rebuild).                  *)
Unawaited(ms) == [i \in DOMAIN ms |-> [ms[i] EXCEPT !.awaited = FALSE]]

DialFails ==
    /\ Mishap /\ ~up /\ window[open].tick
    /\ window' = [window EXCEPT ![open] = Settled(@)]
    /\ wire' = [wire EXCEPT ![Id(open)] = Unawaited(@)]
    /\ UNCHANGED <<conn, open, up, closing, session, agent, docs, offers,
                   taken, happened>>

Dial ==
    /\ ~up
    /\ up' = TRUE
    /\ UNCHANGED <<conn, open, closing, wire, window, session, agent, docs,
                   offers, taken, happened, mishaps>>

(* The page is loaded again: another window, that counts from 0.  The      *)
(* setting is stored; the outbox is not.                                   *)
Reload(w) ==
    /\ Mishap /\ w # open /\ docs < MaxDocs
    /\ Leave(open)
    /\ open' = w
    /\ up' = FALSE
    /\ closing' = IF up THEN closing \cup {Id(open)} ELSE closing
    /\ wire' = IF up THEN wire ELSE [wire EXCEPT ![Id(open)] = <<>>]
    /\ docs' = docs + 1
    /\ window' = [window EXCEPT ![w] = NewWindow(window[open].mode, docs + 1),
                                ![open] = NewWindow("off", 0)]
    /\ Note("newWindow")
    /\ UNCHANGED <<session, agent, offers, taken>>

(* The engine serves the next request of a connection, closed or not; the  *)
(* answer reaches a window that still awaits it.                           *)
Serve(id) ==
    /\ wire[id] # <<>>
    /\ id \in closing \/ (id = Id(open) /\ up)
    /\ wire' = [wire EXCEPT ![id] = Tail(@)]
    /\ LET m == Head(wire[id])
           r == Publish(session, id, m)
       IN  IF m.op = "release"
           THEN Set(Release(session, id)) /\ UNCHANGED window
           ELSE /\ Set(r.after)
                /\ IF m.awaited /\ id = Id(open)
                   THEN window' = [window EXCEPT ![open].answer = r.answer]
                   ELSE UNCHANGED window
    /\ UNCHANGED <<conn, open, up, closing, agent, docs, offers, taken,
                   mishaps>>

(* handle()'s finally: whoever this was, they are gone. *)
HostStays(id) == Without(session, {id})   \* mutant: the host is not released
Gone(id) == Without(Release(session, id), {id})

HandlerEnds(id) ==
    /\ id \in closing
    /\ closing' = closing \ {id}
    /\ wire' = [wire EXCEPT ![id] = <<>>]
    /\ Set(Gone(id))
    /\ UNCHANGED <<conn, open, up, window, agent, docs, offers, taken, mishaps>>

Lapse(id) ==
    /\ Mishap
    /\ id \in session.guests \ session.lapsed
    /\ session' = [session EXCEPT !.lapsed = @ \cup {id}]
    /\ UNCHANGED <<conn, open, up, closing, wire, window, agent, docs, offers,
                   taken, happened>>
-----------------------------------------------------------------------------
(* The agent.  A call is one step: the engine answers it at once, and what *)
(* passes before the agent goes on passes before its next step.            *)

Between == {"idle", "pulled", "adopted", "failed"}

Becomes(g, r) == agent' = [agent EXCEPT ![g] = r]

(* pull(), before every tool. *)
Pull(g) ==
    /\ agent[g].at \in Between
    /\ LET s == Expire(Touch(session, Id(g)))
       IN  /\ Set(s)
           /\ Becomes(g, IF s.host = None THEN [NewAgent EXCEPT !.at = "failed"]
                         ELSE [NewAgent EXCEPT !.at = "pulled",
                                 !.base = s.revision, !.read = s.doc,
                                 !.allows = s.allows])
    /\ UNCHANGED <<conn, open, up, closing, wire, window, docs, offers, taken,
                   mishaps>>

(* The session takes the proposal of g, or refuses it. *)
Offered(g) ==
    IF Refusal(session, agent[g].base)
    THEN /\ Set(Touch(session, Id(g)))
         /\ UNCHANGED offers
    ELSE /\ offers < MaxOffers
         /\ offers' = offers + 1
         /\ Set(Propose(Touch(session, Id(g)), Id(g), agent[g].read, offers + 1))

(* push(): nothing is offered to a window that shares read-only.           *)
Push(g) ==
    /\ agent[g].at \in {"pulled", "resending"}
    /\ IF ~agent[g].allows
       THEN /\ Becomes(g, [NewAgent EXCEPT !.at = "failed"])
            /\ UNCHANGED <<session, offers, happened>>
       ELSE /\ Offered(g)
            /\ Becomes(g, IF Refusal(session, agent[g].base)
                          THEN [NewAgent EXCEPT !.at = "failed"]
                          ELSE [NewAgent EXCEPT !.at = "waiting",
                                  !.id = session.issued + 1,
                                  !.nonce = offers + 1])
    /\ UNCHANGED <<conn, open, up, closing, wire, window, docs, taken, mishaps>>

(* The connection breaks before the answer comes, or before the question   *)
(* is heard.  The link dials again and asks once more, and no more.        *)
PushLost(g) ==
    /\ Mishap
    /\ agent[g].at \in {"pulled", "resending"} /\ agent[g].allows
    /\ \/ Offered(g)
       \/ UNCHANGED <<session, offers, happened>>
    /\ Leave(g)
    /\ closing' = closing \cup {Id(g)}
    /\ Becomes(g, IF agent[g].at = "pulled"
                  THEN [agent[g] EXCEPT !.at = "resending"]
                  ELSE [NewAgent EXCEPT !.at = "failed"])
    /\ UNCHANGED <<open, up, wire, window, docs, taken>>

(* _await_adoption() asks again and again whether the window lists the     *)
(* proposal among those it applied, until it does or the time is up.       *)
AnyReceipt(s, a) == s.applied # <<>>       \* mutant: anybody's receipt
Adopted(s, a) == Contains(s.applied, a.id)

Poll(g) ==
    /\ agent[g].at = "waiting"
    /\ LET s == Expire(Touch(session, Id(g)))
       IN  /\ Set(s)
           /\ Becomes(g, IF s.host = None THEN [NewAgent EXCEPT !.at = "failed"]
                         ELSE IF Adopted(s, agent[g])
                         THEN [agent[g] EXCEPT !.at = "adopted", !.id = 0]
                         ELSE agent[g])
    /\ UNCHANGED <<conn, open, up, closing, wire, window, docs, offers, taken,
                   mishaps>>

TimeOut(g) ==
    /\ agent[g].at = "waiting"
    /\ Becomes(g, [NewAgent EXCEPT !.at = "failed"])
    /\ UNCHANGED <<conn, open, up, closing, wire, window, session, docs, offers,
                   taken, happened, mishaps>>

(* Between two calls the connection breaks; the next call dials again. *)
AgentDrop(g) ==
    /\ Mishap /\ Leave(g)
    /\ closing' = closing \cup {Id(g)}
    /\ UNCHANGED <<open, up, wire, window, session, agent, docs, offers, taken,
                   happened>>

(* leave(), when the agent's host ends it. *)
AgentLeaves(g) ==
    /\ agent[g].at \in Between
    /\ Set(Without(session, {Id(g)}))
    /\ Becomes(g, NewAgent)
    /\ UNCHANGED <<conn, open, up, closing, wire, window, docs, offers, taken,
                   mishaps>>
-----------------------------------------------------------------------------
Next ==
    \/ Tick
    \/ Edit
    \/ SilentEdit
    \/ \E mode \in Modes : SetMode(mode)
    \/ Collect
    \/ Drop
    \/ DialFails
    \/ Dial
    \/ \E w \in Windows : Reload(w)
    \/ \E id \in Conns : Serve(id)
    \/ \E id \in Conns : HandlerEnds(id)
    \/ \E id \in Conns : Lapse(id)
    \/ \E g \in Agents : Pull(g)
    \/ \E g \in Agents : Push(g)
    \/ \E g \in Agents : PushLost(g)
    \/ \E g \in Agents : Poll(g)
    \/ \E g \in Agents : TimeOut(g)
    \/ \E g \in Agents : AgentDrop(g)
    \/ \E g \in Agents : AgentLeaves(g)

Spec == Init /\ [][Next]_vars

(* Timers fire, the engine serves what reaches it and notices what has     *)
(* closed.  Nobody has to do anything, and no dial has to succeed.         *)
Fairness ==
    /\ WF_vars(Tick)
    /\ WF_vars(Collect)
    /\ \A id \in Conns : WF_vars(Serve(id)) /\ WF_vars(HandlerEnds(id))

FairSpec == Spec /\ Fairness
-----------------------------------------------------------------------------
(* Properties.                                                             *)

Docs == 0 .. MaxDocs + MaxOffers

Proposals ==
    [id : 1 .. MaxOffers, agent : Conns, read : Docs, held : Docs,
     nonce : 1 .. MaxOffers]

Requests ==
    [op : {"host", "release"}, doc : Docs \cup {None}, revision : Nat,
     allows : BOOLEAN, applied : Seq(1 .. MaxOffers), awaited : BOOLEAN]

WindowStates ==
    [mode : Modes, revision : Nat, doc : Docs, receipts : Seq(1 .. MaxOffers),
     tick : BOOLEAN, answer : Seq(Proposals) \cup {None}]

Sessions ==
    [host : Conns \cup {None}, doc : Docs \cup {None}, revision : Nat,
     allows : BOOLEAN, applied : Seq(1 .. MaxOffers), guests : SUBSET Conns,
     lapsed : SUBSET Conns, pending : Seq(Proposals), issued : 0 .. MaxOffers]

AgentStates ==
    [at : Between \cup {"resending", "waiting"}, base : Nat,
     read : Docs \cup {None}, allows : BOOLEAN,
     id : 0 .. MaxOffers, nonce : 0 .. MaxOffers]

TypeOK ==
    /\ conn \in [Clients -> 1 .. MaxConns]
    /\ open \in Windows /\ up \in BOOLEAN
    /\ closing \subseteq Conns
    /\ \A c \in Clients : Id(c) \notin closing
    /\ wire \in [Conns -> Seq(Requests)]
    /\ window \in [Windows -> WindowStates]
    /\ \A w \in Windows : Len(window[w].receipts) <= Memory
    /\ session \in Sessions
    /\ Len(session.pending) <= MaxPending
    /\ agent \in [Agents -> AgentStates]
    /\ docs \in Docs /\ offers \in 0 .. MaxOffers
    /\ happened \subseteq {"silentEdit", "newWindow", "renumbered"}
    /\ mishaps \in 0 .. MaxMishaps

(* An agent that was told its edit is in the document was told the truth:  *)
(* the window applied that very proposal.  (Unless the session has begun   *)
(* to number proposals anew while somebody remembered an old number.)      *)
Receipt(g) ==
    agent[g].at = "adopted" => \E t \in taken : t.nonce = agent[g].nonce

AdoptedMeansApplied ==
    "renumbered" \notin happened => \A g \in Agents : Receipt(g)

(* The proposals nobody has applied yet: with the session, or on their way *)
(* to the window.                                                          *)
InHand ==
    session.pending \o (IF window[open].answer = None THEN <<>>
                        ELSE window[open].answer)

(* No proposal is handed over twice: it is with the session, or on its way,*)
(* or applied.                                                             *)
HandedOverOnce ==
    /\ \A i, j \in DOMAIN InHand : InHand[i].nonce = InHand[j].nonce => i = j
    /\ \A i \in DOMAIN InHand : \A t \in taken : InHand[i].nonce # t.nonce

(* A proposal that was let in had been written against the document the    *)
(* session held, not merely against one with the same revision.  (Unless   *)
(* that document changed in silence, or another window counts revisions    *)
(* now.)                                                                   *)
StaleIsRefused ==
    happened \cap {"silentEdit", "newWindow"} = {} =>
        /\ \A i \in DOMAIN InHand : InHand[i].read = InHand[i].held
        /\ \A t \in taken : t.read = t.held

(* The session is as its host left it: no document without a host, no      *)
(* proposal without a guest, and a host only while its connection has a    *)
(* handler that will release it.                                           *)
SessionHasParties ==
    /\ session.host = None => session.doc = None /\ session.pending = <<>>
    /\ session.host # None => session.host \in closing \cup {Id(open)}
    /\ \A i \in DOMAIN session.pending : session.pending[i].agent \in session.guests
    /\ session.lapsed \subseteq session.guests
    /\ session.guests \subseteq closing \cup {Id(g) : g \in Agents}

(* A window is handed no proposal of an agent that had gone: one that had  *)
(* left, or whose lease had run out.                                       *)
LapsedAreNotCollected ==
    [][LET answer == window'[open'].answer
       IN  answer # None /\ window[open'].answer = None =>
               \A i \in DOMAIN answer :
                   answer[i].agent \in session.guests \ session.lapsed]_vars

(* No edit is taken over another: a proposal replaces the document it was  *)
(* written against.                                                        *)
NothingOverwritten == \A t \in taken : t.read = t.over

(* A window that shares, and stays connected, is the host.                 *)
SharingIsPublished ==
    \A w \in Windows :
        open = w /\ up /\ Sharing ~> open # w \/ ~up \/ ~Sharing
                                      \/ session.host = Id(w)

(* Sharing turned off, the session forgets the document.                   *)
OffMeansForgotten ==
    up /\ ~Sharing ~> session.host = None \/ Sharing

(* What is offered is collected or withdrawn, whoever comes and goes.      *)
OffersDoNotStay == session.pending # <<>> ~> session.pending = <<>>
=============================================================================
