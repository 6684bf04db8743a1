------------------------- MODULE LiveSessionProofs -------------------------
(***************************************************************************)
(* The live session: no proposal is handed over twice, none that was       *)
(* written against another document is let in, and an agent that was told  *)
(* its edit is in the document was told the truth.                         *)
(***************************************************************************)
EXTENDS LiveSession, SequenceFilterProofs

-----------------------------------------------------------------------------
(* The inductive invariant.                                                *)

(* The proposals on their way to the window. *)
Answer == IF window[open].answer = None THEN <<>> ELSE window[open].answer

(* Number n is that of a receipt somebody has. *)
Receipted(n) ==
    \/ n \in Range(window[open].receipts)
    \/ \E id \in Conns : \E m \in Range(wire[id]) : n \in Range(m.applied)
    \/ n \in Range(session.applied)

(* A connection that is gone has a number its client no longer uses. *)
GoneAreOld == \A id \in closing : id[2] < conn[id[1]]

(* A document goes with the request that tells it, with the session while  *)
(* it has a host, and with an agent that has read it.                      *)
Reads(g) == agent[g].at \in {"pulled", "resending"}

DocsAreTold ==
    /\ \A id \in Conns : \A m \in Range(wire[id]) : m.op = "host" => m.doc \in Docs
    /\ session.host # None => session.doc \in Docs
    /\ \A g \in Agents : Reads(g) => agent[g].read \in Docs

HostIsServed == session.host = Id(open) => up

(* A proposal is in one place. *)
OnceEach(s) == \A i, j \in DOMAIN s : s[i].nonce = s[j].nonce => i = j

InOnePlace ==
    /\ OnceEach(session.pending) /\ OnceEach(Answer)
    /\ \A p \in Range(session.pending) :
          /\ p.nonce <= offers
          /\ \A a \in Range(Answer) : p.nonce # a.nonce
          /\ \A t \in taken : p.nonce # t.nonce
    /\ \A a \in Range(Answer) :
          a.nonce <= offers /\ \A t \in taken : a.nonce # t.nonce
    /\ \A t \in taken : t.nonce <= offers
    /\ session.issued <= offers

(* Every proposal applied is a document more. *)
Nonces == {t.nonce : t \in taken}
DocsAreBudgeted == docs <= MaxDocs + Cardinality(Nonces)

Replacements ==
    [nonce : 1 .. MaxOffers, read : Docs, held : Docs, over : Docs]

(* Revision r was told with document d. *)
Told(r, d) ==
    \/ \E id \in Conns : \E m \in Range(wire[id]) :
          m.op = "host" /\ m.revision = r /\ m.doc = d
    \/ session.host # None /\ session.revision = r /\ session.doc = d
    \/ \E g \in Agents : Reads(g) /\ agent[g].base = r /\ agent[g].read = d

Quiet == happened \cap {"silentEdit", "newWindow"} = {}

RevisionsTell ==
    Quiet =>
        \A r \in Nat, d \in Docs : Told(r, d) =>
            /\ r <= window[open].revision
            /\ r = window[open].revision /\ Sharing => d = window[open].doc
            /\ \A e \in Docs : Told(r, e) => d = e

(* A proposal was written against the document it says the session held. *)
Fair(p) == p.read = p.held
Held    == Range(session.pending) \cup Range(Answer)
AllFair == (\A p \in Held : Fair(p)) /\ (\A t \in taken : Fair(t))
QuietIsFair == Quiet => AllFair

(* The number of a proposal names it, as long as anybody knows it. *)
Names(n, m) ==
    \/ \E p \in Range(session.pending) : p.id = n /\ p.nonce = m
    \/ \E a \in Range(Answer) : a.id = n /\ a.nonce = m
    \/ \E g \in Agents : agent[g].at = "waiting" /\ agent[g].id = n /\ agent[g].nonce = m

NumbersName ==
    "renumbered" \notin happened =>
        /\ \A n, m \in 1 .. MaxOffers : Names(n, m) =>
              n <= session.issued /\ \A k \in 1 .. MaxOffers : Names(n, k) => m = k
        /\ \A n \in 1 .. MaxOffers : Receipted(n) => n <= session.issued
        /\ \A g \in Agents : agent[g].at = "waiting" =>
              /\ agent[g].id >= 1 /\ agent[g].nonce >= 1
              /\ \A n \in 1 .. MaxOffers :
                    n = agent[g].id /\ Receipted(n) => agent[g].nonce \in Nonces

IInv ==
    /\ TypeOK /\ taken \subseteq Replacements
    /\ GoneAreOld /\ DocsAreTold /\ HostIsServed /\ SessionHasParties
    /\ InOnePlace /\ DocsAreBudgeted
    /\ RevisionsTell /\ QuietIsFair
    /\ NumbersName /\ AdoptedMeansApplied
-----------------------------------------------------------------------------
(* What the functions of the session return.                               *)

(* r is s with some elements left out. *)
Within(r, s) ==
    /\ Range(r) \subseteq Range(s) /\ Len(r) <= Len(s)
    /\ OnceEach(s) => OnceEach(r)

LEMMA FilteredIsWithin ==
    ASSUME NEW T, NEW s \in Seq(Proposals)
    PROVE  /\ Filtered(s, T) \in Seq(Proposals)
           /\ Within(Filtered(s, T), s)
           /\ Range(Filtered(s, T)) \subseteq T
           /\ Len(s) \in Nat /\ Len(Filtered(s, T)) \in Nat
<1> DEFINE r == Filtered(s, T)
<1>1. /\ r \in Seq(Proposals) /\ Len(r) \in Nat /\ Len(s) \in Nat /\ Len(r) <= Len(s)
  BY FilterEmbeds, FilterShortens
<1>2. /\ \A k \in DOMAIN r : r[k] \in T /\ \E i \in DOMAIN s : s[i] = r[k]
      /\ Distinct(s) => Distinct(r)
  BY FilterKeeps
<1> HIDE DEF r
<1>3. OnceEach(s) => OnceEach(r)
  <2> SUFFICES ASSUME OnceEach(s), NEW k \in DOMAIN r, NEW l \in DOMAIN r,
                      r[k].nonce = r[l].nonce
               PROVE  k = l
    BY DEF OnceEach
  <2>1. Distinct(s)
    BY DEF OnceEach, Distinct
  <2>2. PICK i \in DOMAIN s : s[i] = r[k]
    BY <1>2
  <2>3. PICK j \in DOMAIN s : s[j] = r[l]
    BY <1>2
  <2>4. i = j
    BY <2>2, <2>3 DEF OnceEach
  <2> QED
    BY <1>2, <2>1, <2>2, <2>3, <2>4 DEF Distinct
<1>4. Range(r) \subseteq Range(s) /\ Range(r) \subseteq T
  BY <1>2 DEF Range
<1> QED
  BY <1>1, <1>3, <1>4 DEF r, Within

LEMMA WithinItself ==
    ASSUME NEW s \in Seq(Proposals)
    PROVE  Within(s, s) /\ Within(<<>>, s) /\ Range(<<>>) = {} /\ Len(s) \in Nat
<1>1. Len(s) \in Nat /\ DOMAIN <<>> = {} /\ Len(<<>>) = 0
  BY LenProperties
<1> QED
  BY <1>1 DEF Within, Range, OnceEach

(* Session t is s after guests came, lapsed or went. *)
Keeps(s, t) ==
    /\ t \in Sessions
    /\ t.host = s.host /\ t.doc = s.doc /\ t.revision = s.revision
    /\ t.allows = s.allows /\ t.applied = s.applied /\ t.issued = s.issued
    /\ Within(t.pending, s.pending)
    /\ \A p \in Range(t.pending) : p.agent \in s.guests => p.agent \in t.guests
    /\ s.lapsed \subseteq s.guests => t.lapsed \subseteq t.guests

LEMMA KeepsTwice ==
    ASSUME NEW s \in Sessions, NEW t, NEW u, Keeps(s, t), Keeps(t, u)
    PROVE  Keeps(s, u)
<1>1. Len(s.pending) \in Nat /\ Len(t.pending) \in Nat /\ Len(u.pending) \in Nat
  BY LenProperties DEF Keeps, Sessions
<1>2. Within(u.pending, s.pending)
  BY <1>1 DEF Keeps, Within
<1>3. \A p \in Range(u.pending) : p.agent \in s.guests => p.agent \in u.guests
  BY DEF Keeps, Within
<1> QED
  BY <1>2, <1>3 DEF Keeps

LEMMA KeepsItself ==
    ASSUME NEW s \in Sessions
    PROVE  Keeps(s, s)
BY WithinItself DEF Keeps, Sessions

LEMMA TouchIs ==
    ASSUME NEW s \in Sessions, NEW id \in Conns
    PROVE  /\ Keeps(s, Touch(s, id))
           /\ Touch(s, id).pending = s.pending
           /\ Touch(s, id).guests = s.guests \cup {id}
<1> DEFINE t == Touch(s, id)
<1>1. /\ t \in Sessions /\ t.pending = s.pending
      /\ t.guests = s.guests \cup {id} /\ t.lapsed = s.lapsed \ {id}
      /\ t.host = s.host /\ t.doc = s.doc /\ t.revision = s.revision
      /\ t.allows = s.allows /\ t.applied = s.applied /\ t.issued = s.issued
  BY DEF Touch, Sessions
<1>2. Within(s.pending, s.pending)
  BY WithinItself DEF Sessions
<1> HIDE DEF t
<1>3. Keeps(s, t)
  BY <1>1, <1>2 DEF Keeps
<1> QED
  BY <1>1, <1>3 DEF t

LEMMA WithoutIs ==
    ASSUME NEW s \in Sessions, NEW gone
    PROVE  /\ Keeps(s, Without(s, gone))
           /\ Without(s, gone).guests = s.guests \ gone
           /\ Without(s, gone).lapsed = s.lapsed \ gone
           /\ \A p \in Range(Without(s, gone).pending) : p.agent \notin gone
<1> DEFINE here == {p \in Range(s.pending) : p.agent \notin gone}
           r == Filtered(s.pending, here)
           t == Without(s, gone)
<1>1. t = [s EXCEPT !.guests = s.guests \ gone, !.lapsed = s.lapsed \ gone,
                    !.pending = r]
  BY DEF Without
<1>2. s.pending \in Seq(Proposals)
  BY DEF Sessions
<1> HIDE DEF here
<1>3. r \in Seq(Proposals) /\ Within(r, s.pending) /\ Range(r) \subseteq here
  BY <1>2, FilteredIsWithin
<1> HIDE DEF r, t
<1>4. /\ t \in Sessions /\ t.pending = r
      /\ t.guests = s.guests \ gone /\ t.lapsed = s.lapsed \ gone
      /\ t.host = s.host /\ t.doc = s.doc /\ t.revision = s.revision
      /\ t.allows = s.allows /\ t.applied = s.applied /\ t.issued = s.issued
  BY <1>1, <1>3 DEF Sessions
<1>5. \A p \in Range(r) : p.agent \notin gone
  BY <1>3 DEF here
<1>6. Keeps(s, t)
  BY <1>3, <1>4, <1>5 DEF Keeps
<1> QED
  BY <1>4, <1>5, <1>6 DEF t

LEMMA EmptyIs ==
    /\ Empty \in Sessions /\ Empty.host = None /\ Empty.doc = None
    /\ Empty.applied = <<>> /\ Empty.pending = <<>> /\ Empty.issued = 0
    /\ Empty.guests = {} /\ Empty.lapsed = {}
<1>1. <<>> \in Seq(Proposals) /\ <<>> \in Seq(1 .. MaxOffers) /\ 0 \in 0 .. MaxOffers
  BY LiveAssumption
<1> QED
  BY <1>1 DEF Empty, Sessions

(* The host has told the session of its document, and took what waited. *)
LEMMA PublishIs ==
    ASSUME NEW s \in Sessions, NEW id \in Conns, NEW m \in Requests
    PROVE  LET a == Publish(s, id, m).answer
               t == Publish(s, id, m).after
           IN  /\ t \in Sessions
               /\ t.host = id /\ t.doc = m.doc /\ t.revision = m.revision
               /\ t.applied = m.applied /\ t.pending = <<>> /\ t.issued = s.issued
               /\ t.guests = s.guests \ s.lapsed /\ t.lapsed = {}
               /\ a \in Seq(Proposals) /\ Within(a, s.pending)
               /\ \A p \in Range(a) : p.agent \notin s.lapsed
<1> DEFINE n == NewHost(s, id)
           y == Says(n, m)
           x == Expire(y)
           t == Publish(s, id, m).after
<1>1. <<>> \in Seq(Proposals) /\ s.pending \in Seq(Proposals)
  BY DEF Sessions
<1>2. /\ n \in Sessions /\ n.host = id /\ n.issued = s.issued
      /\ n.guests = s.guests /\ n.lapsed = s.lapsed
      /\ n.pending \in {<<>>, s.pending}
  BY <1>1 DEF NewHost, Sessions
<1>3. Within(n.pending, s.pending)
  BY <1>1, <1>2, WithinItself
<1> HIDE DEF n
<1>4. /\ y \in Sessions /\ y.host = id /\ y.issued = s.issued
      /\ y.guests = s.guests /\ y.lapsed = s.lapsed /\ y.pending = n.pending
      /\ y.doc = m.doc /\ y.revision = m.revision /\ y.applied = m.applied
  BY <1>2 DEF Says, Sessions, Requests
<1> HIDE DEF y
<1>5. /\ Keeps(y, x) /\ x.guests = s.guests \ s.lapsed /\ x.lapsed = {}
      /\ \A p \in Range(x.pending) : p.agent \notin s.lapsed
  <2>1. /\ Keeps(y, x) /\ x.guests = y.guests \ y.lapsed
        /\ x.lapsed = y.lapsed \ y.lapsed
        /\ \A p \in Range(x.pending) : p.agent \notin y.lapsed
    BY <1>4, WithoutIs DEF Expire
  <2> QED
    BY <1>4, <2>1
<1>6. Publish(s, id, m).answer = x.pending /\ t = [x EXCEPT !.pending = <<>>]
  BY DEF Publish, n, y
<1> HIDE DEF x, t
<1>7. x \in Sessions
  BY <1>5 DEF Keeps
<1>8. /\ t \in Sessions /\ t.pending = <<>> /\ t.host = x.host /\ t.doc = x.doc
      /\ t.revision = x.revision /\ t.applied = x.applied /\ t.issued = x.issued
      /\ t.guests = x.guests /\ t.lapsed = x.lapsed
  BY <1>1, <1>6, <1>7 DEF Sessions
<1>9. x.pending \in Seq(Proposals) /\ Within(x.pending, s.pending)
  <2>1. Len(x.pending) \in Nat /\ Len(n.pending) \in Nat /\ Len(s.pending) \in Nat
    BY <1>1, <1>2, <1>7, LenProperties DEF Sessions
  <2> QED
    BY <1>3, <1>4, <1>5, <1>7, <2>1 DEF Within, Keeps, Sessions
<1> QED
  BY <1>4, <1>5, <1>6, <1>8, <1>9 DEF t, Keeps

(* A session takes one more proposal. *)
LEMMA ProposeIs ==
    ASSUME NEW s \in Sessions, NEW id \in Conns, NEW read \in Docs,
           NEW nonce \in 1 .. MaxOffers, s.doc \in Docs, s.issued < MaxOffers
    PROVE  LET t == Propose(s, id, read, nonce)
               p == [id |-> s.issued + 1, agent |-> id, read |-> read,
                     held |-> s.doc, nonce |-> nonce]
           IN  /\ t \in Sessions /\ p \in Proposals
               /\ t.pending = Append(s.pending, p) /\ t.issued = s.issued + 1
               /\ t.host = s.host /\ t.doc = s.doc /\ t.revision = s.revision
               /\ t.applied = s.applied /\ t.guests = s.guests /\ t.lapsed = s.lapsed
<1> DEFINE p == [id |-> s.issued + 1, agent |-> id, read |-> read,
                 held |-> s.doc, nonce |-> nonce]
           ps == Append(s.pending, p)
           n == s.issued + 1
           t == Propose(s, id, read, nonce)
<1>1. n \in 1 .. MaxOffers
  BY LiveAssumption DEF Sessions
<1>2. p \in Proposals
  BY <1>1 DEF Proposals
<1>3. s.pending \in Seq(Proposals)
  BY DEF Sessions
<1>4. t = [s EXCEPT !.issued = n, !.pending = ps]
  BY DEF Propose
<1>5. n \in 0 .. MaxOffers
  BY <1>1
<1> HIDE DEF p, n
<1>6. ps \in Seq(Proposals)
  BY <1>2, <1>3, AppendElements
<1> HIDE DEF ps, t
<1>7. /\ t \in Sessions /\ t.pending = ps /\ t.issued = n
      /\ t.host = s.host /\ t.doc = s.doc /\ t.revision = s.revision
      /\ t.applied = s.applied /\ t.guests = s.guests /\ t.lapsed = s.lapsed
  BY <1>4, <1>5, <1>6 DEF Sessions
<1> QED
  BY <1>2, <1>7 DEF t, ps, n, p
-----------------------------------------------------------------------------
(* What the steps come to.                                                 *)

LEMMA SetIs ==
    ASSUME IInv, NEW s \in Sessions, Set(s)
    PROVE  /\ session' = s
           /\ s.issued = session.issued => happened' = happened
           /\ s.issued = session.issued + 1 => happened' = happened
           /\ happened' \in {happened, happened \cup {"renumbered"}}
           /\ "renumbered" \notin happened' =>
                 "renumbered" \notin happened
                 /\ (s.issued >= session.issued \/ ~Remembered)
<1>1. s.issued \in Int /\ session.issued \in Int
  BY DEF IInv, TypeOK, Sessions
<1>2. CASE s.issued < session.issued /\ Remembered
  BY <1>1, <1>2 DEF Set, Note
<1>3. CASE ~(s.issued < session.issued /\ Remembered)
  BY <1>1, <1>3 DEF Set
<1> QED
  BY <1>2, <1>3

LEMMA AnswerIs ==
    ASSUME IInv
    PROVE  Answer \in Seq(Proposals) /\ session.pending \in Seq(Proposals)
<1>1. window[open] \in WindowStates
  BY DEF IInv, TypeOK
<1>2. <<>> \in Seq(Proposals)
  OBVIOUS
<1> QED
  BY <1>1, <1>2 DEF Answer, WindowStates, IInv, TypeOK, Sessions

(* Nothing a session of no one is left with. *)
IsEmpty(t) ==
    /\ t \in Sessions /\ t.host = None /\ t.doc = None
    /\ t.applied = <<>> /\ t.pending = <<>> /\ t.issued = 0
    /\ t.guests = {} /\ t.lapsed = {}

LEMMA ReleaseIs ==
    ASSUME NEW s \in Sessions, NEW id \in Conns
    PROVE  IF s.host = id THEN IsEmpty(Release(s, id)) ELSE Release(s, id) = s
BY EmptyIs DEF Release, IsEmpty

LEMMA GoneIs ==
    ASSUME IInv, NEW id \in Conns
    PROVE  /\ IF session.host = id THEN IsEmpty(Gone(id))
              ELSE Keeps(session, Gone(id))
           /\ Gone(id).guests \subseteq session.guests \ {id}
           /\ \A p \in Range(Gone(id).pending) : p.agent # id
<1>1. session \in Sessions
  BY DEF IInv, TypeOK
<1> DEFINE s == Release(session, id)
           t == Without(s, {id})
<1>2. IF session.host = id THEN IsEmpty(s) ELSE s = session
  BY <1>1, ReleaseIs
<1>3. s \in Sessions /\ s.guests \subseteq session.guests
  BY <1>1, <1>2 DEF IsEmpty
<1> HIDE DEF s
<1>4. /\ Keeps(s, t) /\ t.guests = s.guests \ {id} /\ t.lapsed = s.lapsed \ {id}
      /\ \A p \in Range(t.pending) : p.agent \notin {id}
  BY <1>3, WithoutIs
<1> HIDE DEF t
<1>5. CASE session.host = id
  <2>1. IsEmpty(s)
    BY <1>2, <1>5
  <2>2. t.pending \in Seq(Proposals) /\ Len(t.pending) <= Len(s.pending)
    BY <1>4 DEF Keeps, Within, Sessions
  <2>3. t.pending = <<>>
    <3>1. Len(s.pending) = 0
      BY <2>1 DEF IsEmpty
    <3> QED
      BY <2>2, <3>1, EmptySeq
  <2>4. IsEmpty(t)
    BY <1>4, <2>1, <2>3 DEF IsEmpty, Keeps
  <2> QED
    BY <1>3, <1>4, <1>5, <2>4 DEF t, s, Gone
<1>6. CASE session.host # id
  BY <1>2, <1>3, <1>4, <1>6 DEF t, s, Gone
<1> QED
  BY <1>5, <1>6

(* One proposal more. *)
LEMMA OneMore ==
    ASSUME NEW s \in Seq(Proposals), NEW p \in Proposals,
           \A q \in Range(s) : q.nonce # p.nonce
    PROVE  /\ Append(s, p) \in Seq(Proposals)
           /\ Range(Append(s, p)) = Range(s) \cup {p}
           /\ Len(Append(s, p)) = Len(s) + 1 /\ Len(s) \in Nat
           /\ OnceEach(s) => OnceEach(Append(s, p))
<1> DEFINE r == Append(s, p)
<1>1. /\ r \in Seq(Proposals) /\ DOMAIN r = 1 .. Len(s) + 1
      /\ Len(s) \in Nat /\ DOMAIN s = 1 .. Len(s)
      /\ \A i \in DOMAIN s : i \in DOMAIN r /\ r[i] = s[i]
      /\ r[Len(s) + 1] = p /\ Len(s) + 1 \in DOMAIN r
      /\ \A i \in DOMAIN r : i \in DOMAIN s \/ i = Len(s) + 1
  BY AppendElements
<1>2. Len(r) = Len(s) + 1
  BY AppendProperties
<1> HIDE DEF r
<1>3. Range(r) = Range(s) \cup {p}
  BY <1>1 DEF Range
<1>4. OnceEach(s) => OnceEach(r)
  <2>1. \A i \in DOMAIN s : s[i].nonce # p.nonce
    BY DEF Range
  <2> QED
    BY <1>1, <2>1 DEF OnceEach
<1> QED
  BY <1>1, <1>2, <1>3, <1>4 DEF r

(* The proposal of g is let in: it was written against what the session    *)
(* holds.                                                                  *)
Offer(g) ==
    [id |-> session.issued + 1, agent |-> Id(g), read |-> agent[g].read,
     held |-> session.doc, nonce |-> offers + 1]

LetIn(g) ==
    /\ Reads(g) /\ session.host # None /\ session.doc \in Docs
    /\ agent[g].base = session.revision /\ agent[g].read \in Docs
    /\ Offer(g) \in Proposals
    /\ session' \in Sessions
    /\ session'.pending = Append(session.pending, Offer(g))
    /\ Len(session.pending) < MaxPending
    /\ session'.issued = session.issued + 1 /\ offers' = offers + 1
    /\ session'.host = session.host /\ session'.doc = session.doc
    /\ session'.revision = session.revision /\ session'.applied = session.applied
    /\ session'.guests = session.guests \cup {Id(g)}
    /\ session'.lapsed \subseteq session'.guests
    /\ happened' = happened

LEMMA IdIs ==
    ASSUME IInv
    PROVE  \A c \in Clients : Id(c) \in Conns /\ Id(c)[1] = c /\ Id(c)[2] = conn[c]
BY DEF IInv, TypeOK, Conns, Id

LEMMA OfferedIs ==
    ASSUME IInv, NEW g \in Agents, Reads(g), Offered(g)
    PROVE  \/ /\ Refusal(session, agent[g].base)
              /\ Keeps(session, session') /\ offers' = offers /\ happened' = happened
              /\ session'.guests = session.guests \cup {Id(g)}
           \/ ~Refusal(session, agent[g].base) /\ LetIn(g)
<1>1. /\ session \in Sessions /\ Id(g) \in Conns /\ agent[g].read \in Docs
      /\ Len(session.pending) <= MaxPending /\ offers \in 0 .. MaxOffers
      /\ session.issued <= offers /\ session.lapsed \subseteq session.guests
  BY IdIs DEF IInv, TypeOK, DocsAreTold, Clients, InOnePlace, SessionHasParties
<1> DEFINE s == Touch(session, Id(g))
<1>2. /\ Keeps(session, s) /\ s.pending = session.pending
      /\ s.guests = session.guests \cup {Id(g)}
  BY <1>1, TouchIs
<1> HIDE DEF s
<1>3. CASE Refusal(session, agent[g].base)
  <2>1. Set(s) /\ offers' = offers
    BY <1>3 DEF Offered, s
  <2>2. session' = s /\ happened' = happened
    BY <1>2, <2>1, SetIs DEF Keeps
  <2> QED
    BY <1>2, <1>3, <2>1, <2>2
<1>4. CASE ~Refusal(session, agent[g].base)
  <2>1. /\ session.host # None /\ agent[g].base = session.revision
        /\ ~(Len(session.pending) >= MaxPending)
    BY <1>4 DEF Refusal
  <2>2. session.doc \in Docs /\ s.doc = session.doc /\ s \in Sessions
    BY <1>2, <2>1 DEF IInv, DocsAreTold, Keeps
  <2>3. offers < MaxOffers /\ offers' = offers + 1
        /\ Set(Propose(s, Id(g), agent[g].read, offers + 1))
    BY <1>4 DEF Offered, s
  <2>4. offers + 1 \in 1 .. MaxOffers /\ s.issued = session.issued /\ s.issued < MaxOffers
    BY <1>1, <1>2, <2>3, LiveAssumption DEF Keeps, Sessions
  <2> DEFINE t == Propose(s, Id(g), agent[g].read, offers + 1)
  <2>5. LET p == [id |-> s.issued + 1, agent |-> Id(g), read |-> agent[g].read,
                  held |-> s.doc, nonce |-> offers + 1]
        IN  /\ t \in Sessions /\ p \in Proposals
            /\ t.pending = Append(s.pending, p) /\ t.issued = s.issued + 1
            /\ t.host = s.host /\ t.doc = s.doc /\ t.revision = s.revision
            /\ t.applied = s.applied /\ t.guests = s.guests /\ t.lapsed = s.lapsed
    BY <1>1, <2>2, <2>4, ProposeIs
  <2> HIDE DEF t
  <2>6. /\ t \in Sessions /\ Offer(g) \in Proposals
        /\ t.pending = Append(session.pending, Offer(g))
        /\ t.issued = session.issued + 1
        /\ t.host = session.host /\ t.doc = session.doc
        /\ t.revision = session.revision /\ t.applied = session.applied
        /\ t.guests = session.guests \cup {Id(g)} /\ t.lapsed \subseteq t.guests
    BY <1>1, <1>2, <2>2, <2>4, <2>5 DEF Offer, Keeps
  <2>7. session' = t /\ happened' = happened
    BY <2>3, <2>6, SetIs DEF t
  <2>8. Len(session.pending) < MaxPending
    <3>1. Len(session.pending) \in Nat /\ MaxPending \in Nat
      BY <1>1, LenProperties, LiveAssumption DEF Sessions
    <3> QED
      BY <2>1, <3>1
  <2> QED
    BY <1>1, <1>4, <2>1, <2>2, <2>3, <2>6, <2>7, <2>8 DEF LetIn
<1> QED
  BY <1>3, <1>4

(* The engine serves a release, or tells the session and answers. *)
ServeReleases(id) ==
    /\ window' = window
    /\ IF session.host = id THEN IsEmpty(session') ELSE session' = session

ServePublishes(id) ==
    LET m == Head(wire[id])
    IN  /\ m.op = "host" /\ session'.host = id /\ session'.doc = m.doc
        /\ session'.revision = m.revision /\ session'.applied = m.applied
        /\ session' \in Sessions /\ session'.pending = <<>>
        /\ session'.issued = session.issued /\ happened' = happened
        /\ session'.guests = session.guests \ session.lapsed /\ session'.lapsed = {}
        /\ \/ window' = window
           \/ /\ id = Id(open)
              /\ \E a \in Seq(Proposals) :
                    /\ window' = [window EXCEPT ![open].answer = a]
                    /\ Within(a, session.pending)
                    /\ \A p \in Range(a) : p.agent \notin session.lapsed

LEMMA ServeIs ==
    ASSUME IInv, NEW id \in Conns, Serve(id)
    PROVE  /\ wire[id] # <<>> /\ Head(wire[id]) \in Range(wire[id])
           /\ Head(wire[id]) \in Requests
           /\ wire' = [wire EXCEPT ![id] = Tail(@)]
           /\ id \in closing \/ (id = Id(open) /\ up)
           /\ UNCHANGED <<conn, open, up, closing, agent, docs, offers, taken, mishaps>>
           /\ ServeReleases(id) \/ ServePublishes(id)
<1> DEFINE m == Head(wire[id])
           r == Publish(session, id, m)
<1>1. /\ wire[id] # <<>> /\ wire[id] \in Seq(Requests) /\ session \in Sessions
  BY DEF Serve, IInv, TypeOK
<1>2. m \in Requests /\ m = wire[id][1] /\ 1 \in DOMAIN wire[id]
  BY <1>1, TailElements
<1>3. m \in Range(wire[id])
  BY <1>2 DEF Range
<1>4. /\ wire' = [wire EXCEPT ![id] = Tail(@)]
      /\ id \in closing \/ (id = Id(open) /\ up)
      /\ UNCHANGED <<conn, open, up, closing, agent, docs, offers, taken, mishaps>>
  BY DEF Serve
<1> HIDE DEF m
<1>5. CASE m.op = "release"
  <2>1. Set(Release(session, id)) /\ window' = window
    BY <1>5 DEF Serve, m
  <2>2. IF session.host = id THEN IsEmpty(Release(session, id))
        ELSE Release(session, id) = session
    BY <1>1, ReleaseIs
  <2>3. session' = Release(session, id)
    BY <1>1, <2>1, <2>2, SetIs DEF IsEmpty
  <2>4. ServeReleases(id)
    BY <2>1, <2>2, <2>3 DEF ServeReleases
  <2> QED
    BY <1>1, <1>2, <1>3, <1>4, <2>4 DEF m
<1>6. CASE m.op # "release"
  <2>1. /\ Set(r.after)
        /\ IF m.awaited /\ id = Id(open)
           THEN window' = [window EXCEPT ![open].answer = r.answer]
           ELSE window' = window
    BY <1>6, Zenon DEF Serve, m
  <2>2. LET a == Publish(session, id, m).answer
            t == Publish(session, id, m).after
        IN  /\ t \in Sessions
            /\ t.host = id /\ t.doc = m.doc /\ t.revision = m.revision
            /\ t.applied = m.applied /\ t.pending = <<>> /\ t.issued = session.issued
            /\ t.guests = session.guests \ session.lapsed /\ t.lapsed = {}
            /\ a \in Seq(Proposals) /\ Within(a, session.pending)
            /\ \A p \in Range(a) : p.agent \notin session.lapsed
    BY <1>1, <1>2, PublishIs
  <2> HIDE DEF r
  <2>3. /\ r.after \in Sessions
        /\ r.after.host = id /\ r.after.doc = m.doc /\ r.after.revision = m.revision
        /\ r.after.applied = m.applied /\ r.after.pending = <<>>
        /\ r.after.issued = session.issued
        /\ r.after.guests = session.guests \ session.lapsed /\ r.after.lapsed = {}
        /\ r.answer \in Seq(Proposals) /\ Within(r.answer, session.pending)
        /\ \A p \in Range(r.answer) : p.agent \notin session.lapsed
    BY <2>2 DEF r
  <2>4. session' = r.after /\ happened' = happened
    BY <2>1, <2>3, SetIs
  <2>5. m.op = "host"
    BY <1>2, <1>6 DEF Requests
  <2>6. \/ window' = window
        \/ id = Id(open) /\ window' = [window EXCEPT ![open].answer = r.answer]
    BY <2>1, Zenon
  <2>7. ServePublishes(id)
    BY <2>3, <2>4, <2>5, <2>6 DEF ServePublishes, m
  <2> QED
    BY <1>1, <1>2, <1>3, <1>4, <2>7 DEF m
<1> QED
  BY <1>5, <1>6

(* Somebody called, or left. *)
LEMMA CallIs ==
    ASSUME IInv, NEW id \in Conns, Set(Expire(Touch(session, id)))
    PROVE  /\ session' = Expire(Touch(session, id))
           /\ Keeps(session, session') /\ happened' = happened
           /\ session'.guests \subseteq session.guests \cup {id}
<1>1. session \in Sessions
  BY DEF IInv, TypeOK
<1> DEFINE s == Touch(session, id)
           t == Expire(s)
<1>2. Keeps(session, s) /\ s.guests = session.guests \cup {id}
  BY <1>1, TouchIs
<1> HIDE DEF s
<1>3. Keeps(s, t) /\ t.guests = s.guests \ s.lapsed
  <2>1. s \in Sessions
    BY <1>2 DEF Keeps
  <2> QED
    BY <2>1, WithoutIs DEF Expire
<1>4. Set(t)
  BY DEF s
<1> HIDE DEF t
<1>5. Keeps(session, t)
  BY <1>1, <1>2, <1>3, KeepsTwice
<1>6. t \in Sessions /\ t.issued = session.issued
  BY <1>5 DEF Keeps
<1>7. session' = t /\ happened' = happened
  BY <1>4, <1>6, SetIs
<1> QED
  BY <1>2, <1>3, <1>5, <1>7 DEF s, t

LEMMA PartingIs ==
    ASSUME IInv, NEW gone, Set(Without(session, gone))
    PROVE  /\ Keeps(session, session') /\ happened' = happened
           /\ session'.guests \subseteq session.guests
<1>1. session \in Sessions
  BY DEF IInv, TypeOK
<1> DEFINE t == Without(session, gone)
<1>2. Keeps(session, t) /\ t.guests = session.guests \ gone
  BY <1>1, WithoutIs
<1> HIDE DEF t
<1>3. t \in Sessions /\ t.issued = session.issued
  BY <1>2 DEF Keeps
<1>4. session' = t /\ happened' = happened
  BY <1>3, SetIs DEF t
<1> QED
  BY <1>2, <1>4

(* The last receipts are some of them. *)
LEMMA LatestIs ==
    ASSUME NEW S, NEW s \in Seq(S)
    PROVE  /\ Latest(s) \in Seq(S) /\ Len(Latest(s)) <= Memory
           /\ Range(Latest(s)) \subseteq Range(s)
<1>1. Memory \in Nat \ {0} /\ Len(s) \in Nat /\ DOMAIN s = 1 .. Len(s)
      /\ \A i \in DOMAIN s : s[i] \in S
  BY LiveAssumption, LenProperties, ElementOfSeq
<1> DEFINE k == Len(s) - Memory + 1
           m == Max({1, k})
           r == Latest(s)
<1>2. m \in {1, k} /\ m >= 1 /\ m >= k
  <2>1. \E x \in {1, k} : \A y \in {1, k} : x >= y
    <3>1. CASE k >= 1
      BY <1>1, <3>1
    <3>2. CASE ~(k >= 1)
      BY <1>1, <3>2
    <3> QED
      BY <3>1, <3>2
  <2>2. m \in {1, k} /\ \A y \in {1, k} : m >= y
    <3> HIDE DEF k
    <3> QED
      BY <2>1 DEF Max
  <2> QED
    BY <2>2
<1> HIDE DEF m
<1>3. m \in Int /\ m >= 1
  BY <1>1, <1>2
<1>4. \A i \in m .. Len(s) : i \in DOMAIN s /\ s[i] \in S
  BY <1>1, <1>3
<1>5. r = SubSeq(s, m, Len(s))
  BY DEF Latest, m, k
<1> HIDE DEF r
<1>6. /\ r \in Seq(S) /\ Len(r) = IF m <= Len(s) THEN Len(s) - m + 1 ELSE 0
      /\ \A i \in 1 .. Len(s) - m + 1 : r[i] = s[m + i - 1]
  BY <1>1, <1>3, <1>4, <1>5, SubSeqProperties
<1>7. Len(r) <= Memory
  BY <1>1, <1>2, <1>3, <1>6
<1>8. Range(r) \subseteq Range(s)
  <2>1. DOMAIN r = 1 .. Len(r)
    BY <1>6, LenProperties
  <2>2. \A i \in DOMAIN r : m + i - 1 \in DOMAIN s /\ r[i] = s[m + i - 1]
    BY <1>1, <1>3, <1>6, <2>1
  <2> QED
    BY <2>2 DEF Range
<1> QED
  BY <1>6, <1>7, <1>8 DEF r

(* There are as many numbers as proposals. *)
LEMMA NoncesOf ==
    ASSUME NEW s \in Seq(Proposals), OnceEach(s)
    PROVE  LET N == {s[i].nonce : i \in DOMAIN s}
           IN  /\ N \in SUBSET (1 .. MaxOffers) /\ IsFiniteSet(N)
               /\ Cardinality(N) \in Nat /\ Len(s) \in Nat /\ Len(s) <= Cardinality(N)
<1> DEFINE N == {s[i].nonce : i \in DOMAIN s}
           f == [i \in 1 .. Len(s) |-> s[i].nonce]
<1>1. Len(s) \in Nat /\ DOMAIN s = 1 .. Len(s) /\ \A i \in DOMAIN s : s[i] \in Proposals
  BY LenProperties, ElementOfSeq
<1>2. N \in SUBSET (1 .. MaxOffers)
  BY <1>1 DEF Proposals
<1>3. IsFiniteSet(1 .. MaxOffers)
  BY FS_Interval, LiveAssumption
<1>4. IsFiniteSet(N) /\ Cardinality(N) \in Nat
  BY <1>2, <1>3, FS_Subset, FS_CardinalityType
<1>5. f \in Injection(1 .. Len(s), N)
  <2>1. f \in [1 .. Len(s) -> N]
    BY <1>1
  <2>2. \A i, j \in 1 .. Len(s) : f[i] = f[j] => i = j
    BY <1>1 DEF OnceEach
  <2> QED
    BY <2>1, <2>2, Fun_IsInj
<1>6. Cardinality(1 .. Len(s)) <= Cardinality(N)
  <2> HIDE DEF N, f
  <2> QED
    BY <1>4, <1>5, FS_Injection
<1>7. Cardinality(1 .. Len(s)) = Len(s)
  BY <1>1, FS_Interval
<1> QED
  BY <1>1, <1>2, <1>4, <1>6, <1>7

(* What the window takes of what it was handed. *)
Chosen == IF window[open].mode = "edit" THEN Answer ELSE <<>>

LEMMA ChosenIs ==
    ASSUME IInv
    PROVE  /\ Chosen \in Seq(Proposals) /\ OnceEach(Chosen)
           /\ Range(Chosen) \subseteq Range(Answer)
           /\ Len(Chosen) \in Nat /\ DOMAIN Chosen = 1 .. Len(Chosen)
           /\ \A i \in DOMAIN Chosen : Chosen[i] \in Proposals /\ Chosen[i] \in Range(Answer)
           /\ docs \in Nat /\ docs + Len(Chosen) <= MaxDocs + MaxOffers
           /\ docs + Len(Chosen)
                 <= MaxDocs + Cardinality(Nonces \cup {Chosen[i].nonce : i \in DOMAIN Chosen})
<1>1. /\ Answer \in Seq(Proposals) /\ OnceEach(Answer) /\ <<>> \in Seq(Proposals)
      /\ DOMAIN <<>> = {}
  BY AnswerIs DEF IInv, InOnePlace
<1>2. /\ Chosen \in Seq(Proposals) /\ OnceEach(Chosen)
      /\ Range(Chosen) \subseteq Range(Answer)
  BY <1>1 DEF Chosen, OnceEach, Range
<1>3. /\ Len(Chosen) \in Nat /\ DOMAIN Chosen = 1 .. Len(Chosen)
      /\ \A i \in DOMAIN Chosen : Chosen[i] \in Proposals
  BY <1>2, LenProperties, ElementOfSeq
<1>4. \A i \in DOMAIN Chosen : Chosen[i] \in Range(Answer)
  BY <1>2 DEF Range
<1> DEFINE N == {Chosen[i].nonce : i \in DOMAIN Chosen}
<1>5. /\ N \in SUBSET (1 .. MaxOffers) /\ IsFiniteSet(N)
      /\ Cardinality(N) \in Nat /\ Len(Chosen) <= Cardinality(N)
  BY <1>2, NoncesOf
<1>6. /\ Nonces \in SUBSET (1 .. MaxOffers)
      /\ \A n \in N : n \notin Nonces
  BY <1>4 DEF IInv, InOnePlace, Nonces, Replacements
<1>7. /\ IsFiniteSet(1 .. MaxOffers) /\ Cardinality(1 .. MaxOffers) = MaxOffers
      /\ MaxOffers \in Nat /\ MaxDocs \in Nat
  BY FS_Interval, LiveAssumption
<1> HIDE DEF N
<1>8. IsFiniteSet(Nonces) /\ Cardinality(Nonces) \in Nat
  BY <1>6, <1>7, FS_Subset, FS_CardinalityType
<1>9. Nonces \cap N = {}
  BY <1>6
<1>10. Cardinality(Nonces \cup N) = Cardinality(Nonces) + Cardinality(N)
  <2>1. Cardinality(Nonces \cup N)
          = Cardinality(Nonces) + Cardinality(N) - Cardinality(Nonces \cap N)
    BY <1>5, <1>8, FS_Union
  <2>2. Cardinality(Nonces \cap N) = 0
    BY <1>9, FS_EmptySet
  <2> QED
    BY <1>5, <1>8, <2>1, <2>2
<1>11. Cardinality(Nonces \cup N) <= MaxOffers
  <2>1. Nonces \cup N \in SUBSET (1 .. MaxOffers)
    BY <1>5, <1>6
  <2> QED
    BY <2>1, <1>7, FS_Subset
<1>12. docs \in Nat /\ docs <= MaxDocs + Cardinality(Nonces)
  BY <1>7 DEF IInv, DocsAreBudgeted, TypeOK, Docs
<1> QED
  BY <1>2, <1>3, <1>4, <1>5, <1>7, <1>8, <1>10, <1>11, <1>12 DEF N

LEMMA CollectIs ==
    ASSUME IInv, Collect
    PROVE  /\ docs' = docs + Len(Chosen) /\ docs' \in Docs /\ DocsAreBudgeted'
           /\ window' \in [Windows -> WindowStates]
           /\ \A w \in Windows : Len(window'[w].receipts) <= Memory
           /\ window'[open].mode = window[open].mode
           /\ window'[open].answer = None
           /\ Range(window'[open].receipts)
                 \subseteq Range(window[open].receipts) \cup {p.id : p \in Range(Chosen)}
           /\ IF Chosen = <<>>
              THEN /\ window'[open].revision = window[open].revision
                   /\ window'[open].doc = window[open].doc
              ELSE /\ window[open].mode = "edit"
                   /\ window'[open].revision > window[open].revision
           /\ taken \subseteq taken' /\ taken' \subseteq Replacements
           /\ \A t \in taken' : \/ t \in taken
                                \/ \E p \in Range(Chosen) :
                                      t.nonce = p.nonce /\ t.read = p.read /\ t.held = p.held
           /\ \A p \in Range(Chosen) : p.nonce \in Nonces'
           /\ UNCHANGED <<conn, open, up, closing, wire, session, agent, offers,
                          happened, mishaps>>
<1> DEFINE ps == Chosen
           w0 == window[open]
           w == [w0 EXCEPT !.answer = None, !.tick = FALSE]
           n == Len(ps)
           ids == [i \in DOMAIN ps |-> ps[i].id]
           rs == Latest(w.receipts \o ids)
           T == Taken(w.doc, ps)
<1>1. /\ w0 \in WindowStates /\ open \in Windows /\ w0.answer # None
      /\ window \in [Windows -> WindowStates]
      /\ \A x \in Windows : Len(window[x].receipts) <= Memory
  BY DEF Collect, IInv, TypeOK
<1>2. Wanted(w0) = ps
  BY <1>1 DEF Wanted, Chosen, Answer
<1>3. /\ docs' = docs + n
      /\ window' = [window EXCEPT ![open] = IF ps = <<>> THEN w ELSE Applied(w, ps)]
      /\ taken' = taken \cup T
      /\ UNCHANGED <<conn, open, up, closing, wire, session, agent, offers, happened, mishaps>>
  BY <1>2 DEF Collect
<1>4. /\ ps \in Seq(Proposals) /\ n \in Nat /\ DOMAIN ps = 1 .. n
      /\ \A i \in DOMAIN ps : ps[i] \in Proposals
      /\ docs \in Nat /\ docs + n <= MaxDocs + MaxOffers
      /\ docs + n <= MaxDocs + Cardinality(Nonces \cup {ps[i].nonce : i \in DOMAIN ps})
  BY ChosenIs
<1>5. docs' \in Docs
  BY <1>3, <1>4 DEF Docs
<1>6. /\ \A t \in T : \E p \in Range(ps) :
             t.nonce = p.nonce /\ t.read = p.read /\ t.held = p.held
      /\ {t.nonce : t \in T} = {ps[i].nonce : i \in DOMAIN ps}
  <2> DEFINE t(i) == [nonce |-> ps[i].nonce, read |-> ps[i].read, held |-> ps[i].held,
                      over |-> IF i = 1 THEN w.doc ELSE docs + i - 1]
  <2>1. T = {t(i) : i \in DOMAIN ps}
    BY DEF Taken
  <2>2. \A i \in DOMAIN ps :
           /\ t(i).nonce = ps[i].nonce /\ t(i).read = ps[i].read
           /\ t(i).held = ps[i].held
    OBVIOUS
  <2> HIDE DEF t, T, ps
  <2> QED
    BY <2>1, <2>2 DEF Range
<1>7. w \in WindowStates /\ w.doc \in Docs /\ w.receipts = w0.receipts
      /\ w.answer = None /\ w.mode = w0.mode /\ w.revision = w0.revision /\ w.doc = w0.doc
  BY <1>1 DEF WindowStates
<1> HIDE DEF w
<1>8. T \subseteq Replacements
  <2> SUFFICES ASSUME NEW i \in DOMAIN ps
               PROVE  [nonce |-> ps[i].nonce, read |-> ps[i].read, held |-> ps[i].held,
                       over |-> IF i = 1 THEN w.doc ELSE docs + i - 1] \in Replacements
    BY DEF Taken
  <2> DEFINE d == IF i = 1 THEN w.doc ELSE docs + i - 1
  <2>1. d \in Docs
    <3>1. CASE i = 1
      BY <3>1, <1>7
    <3>2. CASE i # 1
      <4>1. docs + i - 1 \in Docs
        <5>1. i \in 1 .. n
          BY <1>4
        <5> HIDE DEF ps, n
        <5> QED
          BY <5>1, <1>4, LiveAssumption DEF Docs
      <4> QED
        BY <3>2, <4>1
    <3> QED
      BY <3>1, <3>2
  <2>2. ps[i] \in Proposals
    BY <1>4
  <2> HIDE DEF d, ps
  <2> QED
    BY <2>1, <2>2 DEF Replacements, Proposals, d
<1>9. /\ ids \in Seq(1 .. MaxOffers)
      /\ Range(ids) = {p.id : p \in Range(ps)}
  <2>1. \A i \in 1 .. n : ps[i].id \in 1 .. MaxOffers
    BY <1>4 DEF Proposals
  <2>2. ids \in [1 .. n -> 1 .. MaxOffers]
    BY <2>1, <1>4
  <2>3. ids \in Seq(1 .. MaxOffers)
    BY <2>2, <1>4
  <2>4. DOMAIN ids = DOMAIN ps /\ \A i \in DOMAIN ps : ids[i] = ps[i].id
    OBVIOUS
  <2> HIDE DEF ids, ps
  <2>5. Range(ids) = {p.id : p \in Range(ps)}
    BY <2>4 DEF Range
  <2> QED
    BY <2>3, <2>5
<1>10. /\ rs \in Seq(1 .. MaxOffers) /\ Len(rs) <= Memory
       /\ Range(rs) \subseteq Range(w0.receipts) \cup Range(ids)
  <2> DEFINE all == w.receipts \o ids
  <2>1. w.receipts \in Seq(1 .. MaxOffers)
    BY <1>7 DEF WindowStates
  <2> HIDE DEF ids
  <2>2. /\ all \in Seq(1 .. MaxOffers) /\ Len(all) = Len(w.receipts) + Len(ids)
        /\ \A i \in 1 .. Len(w.receipts) + Len(ids) :
              all[i] = IF i <= Len(w.receipts) THEN w.receipts[i]
                       ELSE ids[i - Len(w.receipts)]
    BY <2>1, <1>9, ConcatProperties
  <2>3. /\ Len(w.receipts) \in Nat /\ DOMAIN w.receipts = 1 .. Len(w.receipts)
        /\ Len(ids) \in Nat /\ DOMAIN ids = 1 .. Len(ids)
        /\ DOMAIN all = 1 .. Len(all)
    BY <2>1, <2>2, <1>9, LenProperties
  <2> HIDE DEF all
  <2>4. \A i \in DOMAIN all : \/ i \in DOMAIN w.receipts /\ all[i] = w.receipts[i]
                              \/ /\ i - Len(w.receipts) \in DOMAIN ids
                                 /\ all[i] = ids[i - Len(w.receipts)]
    BY <2>2, <2>3
  <2>5. Range(all) \subseteq Range(w.receipts) \cup Range(ids)
    BY <2>4 DEF Range
  <2>6. /\ Latest(all) \in Seq(1 .. MaxOffers) /\ Len(Latest(all)) <= Memory
        /\ Range(Latest(all)) \subseteq Range(all)
    BY <2>2, LatestIs
  <2> QED
    BY <1>7, <2>5, <2>6 DEF all
<1> HIDE DEF ids
<1>11. Applied(w, ps) = [w EXCEPT !.doc = docs + n, !.revision = w.revision + n,
                                  !.receipts = rs]
  BY DEF Applied, ids
<1> HIDE DEF rs
<1>12. /\ Applied(w, ps) \in WindowStates
       /\ Applied(w, ps).receipts = rs /\ Applied(w, ps).mode = w.mode
       /\ Applied(w, ps).answer = w.answer /\ Applied(w, ps).revision = w.revision + n
  <2>1. docs + n \in Docs /\ w.revision + n \in Nat
    BY <1>3, <1>4, <1>5, <1>7 DEF WindowStates
  <2> HIDE DEF n, ps
  <2> QED
    BY <2>1, <1>7, <1>10, <1>11 DEF WindowStates
<1>13. ps # <<>> => n > 0 /\ w0.mode = "edit"
  BY <1>4, EmptySeq DEF Chosen
<1>14. Nonces' = Nonces \cup {ps[i].nonce : i \in DOMAIN ps} /\ DocsAreBudgeted'
  <2>1. Nonces' = Nonces \cup {t.nonce : t \in T}
    BY <1>3 DEF Nonces
  <2> QED
    BY <2>1, <1>3, <1>4, <1>6 DEF DocsAreBudgeted
<1> HIDE DEF T, ps, n
<1>15. \A p \in Range(ps) : p.nonce \in Nonces'
  BY <1>14 DEF Range
<1>16. taken \subseteq Replacements
  BY DEF IInv
<1>17. /\ window' \in [Windows -> WindowStates]
       /\ \A x \in Windows : Len(window'[x].receipts) <= Memory
       /\ window'[open].mode = w0.mode /\ window'[open].answer = None
       /\ Range(window'[open].receipts) \subseteq Range(w0.receipts) \cup {p.id : p \in Range(ps)}
       /\ IF ps = <<>>
          THEN window'[open].revision = w0.revision /\ window'[open].doc = w0.doc
          ELSE w0.mode = "edit" /\ window'[open].revision > w0.revision
  <2>1. CASE ps = <<>>
    <3>1. window' = [window EXCEPT ![open] = w]
      BY <1>3, <2>1
    <3>2. window'[open] = w /\ \A x \in Windows : x # open => window'[x] = window[x]
      BY <1>1, <3>1
    <3> QED
      BY <1>1, <1>7, <2>1, <3>1, <3>2
  <2>2. CASE ps # <<>>
    <3> DEFINE v == Applied(w, ps)
    <3>1. window' = [window EXCEPT ![open] = v]
      BY <1>3, <2>2
    <3>2. /\ v \in WindowStates /\ v.receipts = rs /\ v.mode = w0.mode
          /\ v.answer = None /\ v.revision = w0.revision + n
      BY <1>7, <1>12
    <3> HIDE DEF v
    <3>3. window'[open] = v /\ \A x \in Windows : x # open => window'[x] = window[x]
      BY <1>1, <3>1
    <3>4. w0.revision + n > w0.revision
      BY <1>1, <1>4, <1>13, <2>2 DEF WindowStates
    <3> QED
      BY <1>1, <1>9, <1>10, <1>13, <2>2, <3>1, <3>2, <3>3, <3>4
  <2> QED
    BY <2>1, <2>2
<1> QED
  BY <1>3, <1>5, <1>6, <1>8, <1>14, <1>15, <1>16, <1>17 DEF ps, n
-----------------------------------------------------------------------------
(* Types.                                                                  *)

ConnsTyped ==
    /\ conn \in [Clients -> 1 .. MaxConns]
    /\ open \in Windows /\ up \in BOOLEAN
    /\ closing \subseteq Conns
    /\ mishaps \in 0 .. MaxMishaps

LEMMA LeaveIs ==
    ASSUME IInv, NEW c \in Clients, Leave(c), closing' \subseteq closing \cup {Id(c)}
    PROVE  /\ conn' \in [Clients -> 1 .. MaxConns] /\ closing' \subseteq Conns
           /\ \A x \in Clients : x # c => conn'[x] = conn[x]
           /\ conn'[c] = conn[c] + 1
           /\ GoneAreOld'
<1>1. /\ conn \in [Clients -> 1 .. MaxConns] /\ MaxConns \in Nat
      /\ closing \subseteq Conns /\ Id(c) \in Conns /\ Id(c)[1] = c /\ Id(c)[2] = conn[c]
  BY IdIs, LiveAssumption DEF IInv, TypeOK
<1>2. conn[c] < MaxConns /\ conn' = [conn EXCEPT ![c] = conn[c] + 1]
  BY DEF Leave
<1>3. conn[c] + 1 \in 1 .. MaxConns
  BY <1>1, <1>2
<1>4. /\ conn' \in [Clients -> 1 .. MaxConns]
      /\ \A x \in Clients : x # c => conn'[x] = conn[x]
      /\ conn'[c] = conn[c] + 1
  BY <1>1, <1>2, <1>3
<1>5. ASSUME NEW id \in closing' PROVE id[2] < conn'[id[1]]
  <2>1. id[1] \in Clients /\ id[2] \in Nat /\ conn[id[1]] \in Nat
    BY <1>1 DEF Conns
  <2>2. id[2] < conn[id[1]] \/ (id[1] = c /\ id[2] = conn[c])
    BY <1>1 DEF IInv, GoneAreOld
  <2> QED
    BY <2>1, <2>2, <1>4
<1> QED
  BY <1>1, <1>4, <1>5 DEF GoneAreOld

LEMMA MishapTyped ==
    ASSUME IInv, Mishap
    PROVE  mishaps' \in 0 .. MaxMishaps
BY LiveAssumption DEF IInv, TypeOK, Mishap

LEMMA ConnsStep ==
    ASSUME IInv, [Next]_vars
    PROVE  ConnsTyped' /\ GoneAreOld'
<1>1. ConnsTyped /\ GoneAreOld
  BY DEF IInv, TypeOK, ConnsTyped
<1>2. ASSUME UNCHANGED <<conn, open, closing>>, up' \in BOOLEAN, mishaps' \in 0 .. MaxMishaps
      PROVE  ConnsTyped' /\ GoneAreOld'
  BY <1>1, <1>2 DEF ConnsTyped, GoneAreOld
<1>3. ASSUME UNCHANGED <<conn, open, up, closing, mishaps>> PROVE ConnsTyped' /\ GoneAreOld'
  BY <1>1, <1>2, <1>3 DEF ConnsTyped
<1>4. CASE Tick \/ Edit \/ SilentEdit \/ Collect
  BY <1>3, <1>4 DEF Tick, Edit, SilentEdit, Collect
<1>5. CASE \E mode \in Modes : SetMode(mode)
  BY <1>1, <1>2, <1>5, MishapTyped DEF SetMode, ConnsTyped
<1>6. CASE DialFails
  BY <1>1, <1>2, <1>6, MishapTyped DEF DialFails, ConnsTyped
<1>7. CASE Dial
  BY <1>1, <1>2, <1>7 DEF Dial, ConnsTyped
<1>8. CASE Drop
  BY <1>1, <1>8, MishapTyped, LeaveIs DEF Drop, ConnsTyped, Clients
<1>9. ASSUME NEW w \in Windows, Reload(w) PROVE ConnsTyped' /\ GoneAreOld'
  BY <1>1, <1>9, MishapTyped, LeaveIs DEF Reload, ConnsTyped, Clients
<1>10. CASE \E id \in Conns : Serve(id)
  BY <1>3, <1>10 DEF Serve
<1>11. ASSUME NEW id \in Conns, HandlerEnds(id) PROVE ConnsTyped' /\ GoneAreOld'
  <2>1. closing' \subseteq closing /\ UNCHANGED <<conn, open, up, mishaps>>
    BY <1>11 DEF HandlerEnds
  <2> QED
    BY <2>1, <1>1 DEF ConnsTyped, GoneAreOld
<1>12. CASE \E id \in Conns : Lapse(id)
  BY <1>1, <1>2, <1>12, MishapTyped DEF Lapse, ConnsTyped
<1>13. CASE \E g \in Agents : Pull(g) \/ Push(g) \/ Poll(g) \/ TimeOut(g) \/ AgentLeaves(g)
  BY <1>3, <1>13 DEF Pull, Push, Poll, TimeOut, AgentLeaves
<1>14. ASSUME NEW g \in Agents, PushLost(g) PROVE ConnsTyped' /\ GoneAreOld'
  BY <1>1, <1>14, MishapTyped, LeaveIs DEF PushLost, ConnsTyped, Clients
<1>15. ASSUME NEW g \in Agents, AgentDrop(g) PROVE ConnsTyped' /\ GoneAreOld'
  BY <1>1, <1>15, MishapTyped, LeaveIs DEF AgentDrop, ConnsTyped, Clients
<1>16. CASE UNCHANGED vars
  BY <1>3, <1>16 DEF vars
<1> QED
  BY <1>4, <1>5, <1>6, <1>7, <1>8, <1>9, <1>10, <1>11, <1>12, <1>13, <1>14,
     <1>15, <1>16 DEF Next

(* A request that waits is one that waited, or is sent now. *)
Alike(m, n) ==
    /\ m.op = n.op /\ m.doc = n.doc /\ m.revision = n.revision
    /\ m.applied = n.applied

Relayed(id, m) == \E n \in Range(wire[id]) : Alike(m, n)

Sent(m) == m = Bye \/ (Tick /\ m = Shared(window[open], TRUE))

LEMMA RequestsAre ==
    ASSUME IInv
    PROVE  /\ \A b \in BOOLEAN : Shared(window[open], b) \in Requests
           /\ Bye \in Requests
           /\ \A b \in BOOLEAN : Shared(window[open], b).op = "host"
           /\ \A b \in BOOLEAN : Shared(window[open], b).doc = window[open].doc
           /\ \A b \in BOOLEAN : Shared(window[open], b).revision = window[open].revision
           /\ \A b \in BOOLEAN : Shared(window[open], b).applied = window[open].receipts
<1>1. window[open] \in WindowStates /\ <<>> \in Seq(1 .. MaxOffers)
  BY DEF IInv, TypeOK
<1>2. Bye \in Requests
  BY <1>1 DEF Bye, Requests
<1> QED
  BY <1>1, <1>2 DEF Shared, Requests, WindowStates

LEMMA SentIs ==
    ASSUME IInv, NEW m \in Requests, Send(m)
    PROVE  /\ wire' \in [Conns -> Seq(Requests)]
           /\ \A id \in Conns : Range(wire'[id]) \subseteq Range(wire[id]) \cup {m}
<1>1. wire \in [Conns -> Seq(Requests)] /\ Id(open) \in Conns
  BY IdIs DEF IInv, TypeOK, Clients
<1> DEFINE s == wire[Id(open)]
           r == Append(s, m)
<1>2. s \in Seq(Requests)
  BY <1>1
<1>3. r \in Seq(Requests) /\ Range(r) \subseteq Range(s) \cup {m}
  <2>1. /\ r \in Seq(Requests) /\ \A i \in DOMAIN s : r[i] = s[i]
        /\ r[Len(s) + 1] = m /\ \A i \in DOMAIN r : i \in DOMAIN s \/ i = Len(s) + 1
    BY <1>2, AppendElements
  <2> HIDE DEF r
  <2> QED
    BY <2>1 DEF Range
<1>4. wire' = [wire EXCEPT ![Id(open)] = r]
  BY DEF Send
<1> HIDE DEF r
<1>5. \A id \in Conns : wire'[id] = IF id = Id(open) THEN r ELSE wire[id]
  BY <1>1, <1>4
<1> QED
  BY <1>1, <1>3, <1>4, <1>5

WireGoesOn ==
    /\ wire' \in [Conns -> Seq(Requests)]
    /\ \A id \in Conns : \A m \in Range(wire'[id]) : Relayed(id, m) \/ Sent(m)

LEMMA WireStep ==
    ASSUME IInv, [Next]_vars
    PROVE  WireGoesOn
<1>1. wire \in [Conns -> Seq(Requests)] /\ Id(open) \in Conns
  BY IdIs DEF IInv, TypeOK, Clients
<1>2. ASSUME wire' \in [Conns -> Seq(Requests)],
             \A id \in Conns : Range(wire'[id]) \subseteq Range(wire[id])
      PROVE  WireGoesOn
  BY <1>2 DEF WireGoesOn, Relayed, Alike
<1>3. CASE wire' = wire
  BY <1>1, <1>2, <1>3
<1>4. ASSUME NEW id \in Conns, wire' = [wire EXCEPT ![id] = <<>>] PROVE WireGoesOn
  <2>1. <<>> \in Seq(Requests) /\ Range(<<>>) = {}
    BY DEF Range
  <2> QED
    BY <1>1, <1>2, <1>4, <2>1
<1>5. CASE Tick
  <2>1. Send(Shared(window[open], TRUE)) /\ Shared(window[open], TRUE) \in Requests
    BY <1>5, RequestsAre DEF Tick
  <2> QED
    BY <1>5, <2>1, SentIs DEF WireGoesOn, Relayed, Alike, Sent
<1>6. ASSUME NEW mode \in Modes, SetMode(mode) PROVE WireGoesOn
  <2>1. Send(Bye) \/ wire' = wire
    BY <1>6 DEF SetMode, StopSharing
  <2>2. Bye \in Requests
    BY RequestsAre
  <2>3. CASE Send(Bye)
    BY <2>2, <2>3, SentIs DEF WireGoesOn, Relayed, Alike, Sent
  <2> QED
    BY <1>3, <2>1, <2>3
<1>7. CASE DialFails
  <2> DEFINE s == wire[Id(open)]
             r == Unawaited(s)
  <2>1. s \in Seq(Requests)
    BY <1>1
  <2>2. /\ r \in Seq(Requests)
        /\ DOMAIN r = DOMAIN s /\ \A i \in DOMAIN s : Alike(r[i], s[i])
    <3>1. Len(s) \in Nat /\ DOMAIN s = 1 .. Len(s) /\ \A i \in DOMAIN s : s[i] \in Requests
      BY <2>1, LenProperties, ElementOfSeq
    <3>2. r = [i \in 1 .. Len(s) |-> [s[i] EXCEPT !.awaited = FALSE]]
      BY <3>1 DEF Unawaited
    <3> HIDE DEF r, s
    <3>3. \A i \in 1 .. Len(s) :
             /\ [s[i] EXCEPT !.awaited = FALSE] \in Requests
             /\ Alike([s[i] EXCEPT !.awaited = FALSE], s[i])
      BY <3>1 DEF Requests, Alike
    <3>4. r \in [1 .. Len(s) -> Requests]
      BY <3>2, <3>3
    <3> QED
      BY <3>1, <3>2, <3>3, <3>4
  <2>3. wire' = [wire EXCEPT ![Id(open)] = r]
    BY <1>7 DEF DialFails
  <2> HIDE DEF r
  <2>4. /\ wire' \in [Conns -> Seq(Requests)]
        /\ \A id \in Conns : wire'[id] = IF id = Id(open) THEN r ELSE wire[id]
    BY <1>1, <2>2, <2>3
  <2>5. \A m \in Range(r) : \E n \in Range(s) : Alike(m, n)
    BY <2>2 DEF Range
  <2>6. ASSUME NEW id \in Conns, NEW m \in Range(wire'[id]) PROVE Relayed(id, m)
    BY <2>4, <2>5, <2>6 DEF Relayed, Alike
  <2> QED
    BY <2>4, <2>6 DEF WireGoesOn
<1>8. ASSUME NEW w \in Windows, Reload(w) PROVE WireGoesOn
  <2>1. wire' = wire \/ wire' = [wire EXCEPT ![Id(open)] = <<>>]
    BY <1>8 DEF Reload
  <2> QED
    BY <1>1, <1>3, <1>4, <2>1
<1>9. ASSUME NEW id \in Conns, Serve(id) PROVE WireGoesOn
  <2> DEFINE s == wire[id]
             r == Tail(s)
  <2>1. s \in Seq(Requests) /\ s # <<>> /\ wire' = [wire EXCEPT ![id] = r]
    BY <1>1, <1>9, ServeIs
  <2>2. r \in Seq(Requests) /\ Range(r) \subseteq Range(s)
    <3>1. /\ r \in Seq(Requests)
          /\ \A i \in DOMAIN r : i + 1 \in DOMAIN s /\ r[i] = s[i + 1]
      BY <2>1, TailElements
    <3> HIDE DEF r
    <3> QED
      BY <3>1 DEF Range
  <2> HIDE DEF r
  <2>3. \A x \in Conns : wire'[x] = IF x = id THEN r ELSE wire[x]
    BY <1>1, <2>1
  <2> QED
    BY <1>1, <1>2, <2>1, <2>2, <2>3
<1>10. ASSUME NEW id \in Conns, HandlerEnds(id) PROVE WireGoesOn
  BY <1>4, <1>10 DEF HandlerEnds
<1>11. CASE Edit \/ SilentEdit \/ Collect \/ Drop \/ Dial
  BY <1>3, <1>11 DEF Edit, SilentEdit, Collect, Drop, Dial
<1>12. CASE \E id \in Conns : Lapse(id)
  BY <1>3, <1>12 DEF Lapse
<1>13. CASE \E g \in Agents : Pull(g) \/ Push(g) \/ PushLost(g) \/ Poll(g)
  BY <1>3, <1>13 DEF Pull, Push, PushLost, Poll
<1>14. CASE \E g \in Agents : TimeOut(g) \/ AgentDrop(g) \/ AgentLeaves(g)
  BY <1>3, <1>14 DEF TimeOut, AgentDrop, AgentLeaves
<1>15. CASE UNCHANGED vars
  BY <1>3, <1>15 DEF vars
<1> QED
  BY <1>5, <1>6, <1>7, <1>8, <1>9, <1>10, <1>11, <1>12, <1>13, <1>14, <1>15 DEF Next

WindowsTyped ==
    /\ window \in [Windows -> WindowStates]
    /\ \A w \in Windows : Len(window[w].receipts) <= Memory
    /\ docs \in Docs /\ taken \subseteq Replacements
    /\ DocsAreBudgeted

LEMMA NoncesAre ==
    ASSUME IInv
    PROVE  IsFiniteSet(Nonces) /\ Cardinality(Nonces) \in Nat
<1>1. Nonces \in SUBSET (1 .. MaxOffers)
  BY DEF IInv, Nonces, Replacements
<1>2. IsFiniteSet(1 .. MaxOffers)
  BY FS_Interval, LiveAssumption
<1> QED
  BY <1>1, <1>2, FS_Subset, FS_CardinalityType

LEMMA OneDocMore ==
    ASSUME IInv, docs < MaxDocs, docs' = docs + 1, taken' = taken
    PROVE  docs' \in Docs /\ docs + 1 \in Docs /\ DocsAreBudgeted'
<1>1. docs \in Nat /\ MaxDocs \in Nat /\ MaxOffers \in Nat /\ Nonces' = Nonces
  BY LiveAssumption DEF IInv, TypeOK, Docs, Nonces
<1> QED
  BY <1>1, NoncesAre DEF Docs, DocsAreBudgeted

(* One window changes, and keeps its receipts or loses them. *)
LEMMA WindowChanges ==
    ASSUME IInv, NEW w \in Windows, NEW v \in WindowStates,
           v.receipts \in {window[w].receipts, <<>>}
    PROVE  LET f == [window EXCEPT ![w] = v]
           IN  /\ f \in [Windows -> WindowStates] /\ f[w] = v
               /\ \A x \in Windows : x # w => f[x] = window[x]
               /\ \A x \in Windows : Len(f[x].receipts) <= Memory
<1>1. /\ window \in [Windows -> WindowStates]
      /\ \A x \in Windows : Len(window[x].receipts) <= Memory
      /\ Len(<<>>) = 0 /\ Memory \in Nat
  BY LiveAssumption DEF IInv, TypeOK
<1> QED
  BY <1>1

LEMMA NewWindowIs ==
    ASSUME NEW mode \in Modes, NEW d \in Docs
    PROVE  /\ NewWindow(mode, d) \in WindowStates /\ NewWindow(mode, d).doc = d
           /\ NewWindow(mode, d).receipts = <<>> /\ NewWindow(mode, d).answer = None
           /\ NewWindow(mode, d).mode = mode
<1>1. <<>> \in Seq(1 .. MaxOffers)
  OBVIOUS
<1> QED
  BY <1>1 DEF NewWindow, WindowStates

LEMMA WindowsStep ==
    ASSUME IInv, [Next]_vars
    PROVE  WindowsTyped'
<1>1. /\ window \in [Windows -> WindowStates] /\ open \in Windows
      /\ window[open] \in WindowStates /\ docs \in Docs /\ taken \subseteq Replacements
      /\ \A w \in Windows : Len(window[w].receipts) <= Memory /\ DocsAreBudgeted
  BY DEF IInv, TypeOK
<1>2. docs' = docs /\ taken' = taken => docs' \in Docs /\ DocsAreBudgeted'
  BY <1>1 DEF DocsAreBudgeted, Nonces
<1>3. CASE UNCHANGED <<window, docs, taken>>
  BY <1>1, <1>2, <1>3 DEF WindowsTyped
<1>4. ASSUME NEW v \in WindowStates, v.receipts = window[open].receipts,
             window' = [window EXCEPT ![open] = v], taken' = taken,
             docs' \in Docs, DocsAreBudgeted'
      PROVE  WindowsTyped'
  BY <1>1, <1>4, WindowChanges DEF WindowsTyped
<1>5. CASE Tick
  <2> DEFINE v == [window[open] EXCEPT !.tick = TRUE]
  <2>1. v \in WindowStates /\ v.receipts = window[open].receipts
    BY <1>1 DEF WindowStates
  <2>2. window' = [window EXCEPT ![open] = v] /\ docs' = docs /\ taken' = taken
    BY <1>5 DEF Tick
  <2> HIDE DEF v
  <2> QED
    BY <1>2, <1>4, <2>1, <2>2
<1>6. CASE Edit \/ SilentEdit
  <2>1. docs < MaxDocs /\ docs' = docs + 1 /\ taken' = taken
    BY <1>6 DEF Edit, SilentEdit
  <2>2. docs' \in Docs /\ DocsAreBudgeted' /\ docs + 1 \in Docs
    BY <2>1, OneDocMore
  <2>3. PICK r \in Nat : window' = [window EXCEPT
           ![open] = [window[open] EXCEPT !.doc = docs + 1, !.revision = r]]
    <3>1. window[open].revision \in Nat /\ window[open].revision + 1 \in Nat
      BY <1>1 DEF WindowStates
    <3>2. CASE Edit
      <4> DEFINE r == IF Sharing THEN window[open].revision + 1 ELSE window[open].revision
      <4>1. window' = [window EXCEPT
               ![open] = [window[open] EXCEPT !.doc = docs + 1, !.revision = r]]
        BY <1>1, <3>2 DEF Edit
      <4> QED
        BY <3>1, <4>1
    <3>3. CASE SilentEdit
      <4>1. window' = [window EXCEPT
               ![open] = [window[open] EXCEPT !.doc = docs + 1,
                                              !.revision = window[open].revision]]
        <5>1. [window[open] EXCEPT !.doc = docs + 1]
                = [window[open] EXCEPT !.doc = docs + 1, !.revision = window[open].revision]
          BY <1>1 DEF WindowStates
        <5>2. window' = [window EXCEPT ![open] = [window[open] EXCEPT !.doc = docs + 1]]
          BY <1>1, <3>3 DEF SilentEdit
        <5> QED
          BY <5>1, <5>2
      <4> QED
        BY <3>1, <4>1
    <3> QED
      BY <1>6, <3>2, <3>3
  <2> DEFINE v == [window[open] EXCEPT !.doc = docs + 1, !.revision = r]
  <2>4. v \in WindowStates /\ v.receipts = window[open].receipts
    BY <1>1, <2>2 DEF WindowStates
  <2>5. window' = [window EXCEPT ![open] = v]
    BY <2>3
  <2> HIDE DEF v
  <2> QED
    BY <1>4, <2>1, <2>2, <2>4, <2>5
<1>7. ASSUME NEW mode \in Modes, SetMode(mode) PROVE WindowsTyped'
  <2> DEFINE r == IF Sharing THEN window[open].revision ELSE window[open].revision + 1
             v == [window[open] EXCEPT !.mode = mode, !.revision = r]
  <2>1. r \in Nat
    BY <1>1 DEF WindowStates
  <2>2. window' = [window EXCEPT ![open] = v] /\ docs' = docs /\ taken' = taken
    BY <1>1, <1>7 DEF SetMode
  <2> HIDE DEF r
  <2>3. v \in WindowStates /\ v.receipts = window[open].receipts
    BY <1>1, <2>1 DEF WindowStates
  <2> HIDE DEF v
  <2> QED
    BY <1>2, <1>4, <2>2, <2>3
<1>8. CASE Collect
  BY <1>8, CollectIs DEF WindowsTyped
<1>9. CASE Drop \/ DialFails
  <2>1. Settled(window[open]) \in WindowStates
        /\ Settled(window[open]).receipts = window[open].receipts
    BY <1>1 DEF Settled, WindowStates
  <2>2. window' = [window EXCEPT ![open] = Settled(window[open])]
        /\ docs' = docs /\ taken' = taken
    BY <1>9 DEF Drop, DialFails
  <2> QED
    BY <1>2, <1>4, <2>1, <2>2
<1>10. ASSUME NEW w \in Windows, Reload(w) PROVE WindowsTyped'
  <2>1. docs < MaxDocs /\ docs' = docs + 1 /\ taken' = taken /\ w # open
    BY <1>10 DEF Reload
  <2>2. docs' \in Docs /\ DocsAreBudgeted' /\ docs + 1 \in Docs
    BY <2>1, OneDocMore
  <2> DEFINE v == NewWindow(window[open].mode, docs + 1)
             u == NewWindow("off", 0)
  <2>3. /\ v \in WindowStates /\ v.receipts = <<>>
        /\ u \in WindowStates /\ u.receipts = <<>>
    <3>1. window[open].mode \in Modes /\ "off" \in Modes /\ 0 \in Docs
      BY <1>1, LiveAssumption DEF WindowStates, Modes, Docs
    <3> QED
      BY <2>2, <3>1, NewWindowIs
  <2>4. window' = [window EXCEPT ![w] = v, ![open] = u]
    BY <1>10 DEF Reload
  <2> HIDE DEF v, u
  <2>5. \A x \in Windows : window'[x] = IF x = open THEN u ELSE IF x = w THEN v ELSE window[x]
    BY <1>1, <2>1, <2>4
  <2>6. window' \in [Windows -> WindowStates]
    BY <1>1, <2>3, <2>4
  <2>7. Len(<<>>) <= Memory
    BY LiveAssumption
  <2> QED
    BY <1>1, <2>1, <2>2, <2>3, <2>5, <2>6, <2>7 DEF WindowsTyped
<1>11. ASSUME NEW id \in Conns, Serve(id) PROVE WindowsTyped'
  <2>1. docs' = docs /\ taken' = taken
    BY <1>11 DEF Serve
  <2>2. \/ window' = window
        \/ \E a \in Seq(Proposals) : window' = [window EXCEPT ![open].answer = a]
    BY <1>11, ServeIs DEF ServeReleases, ServePublishes
  <2>3. ASSUME NEW a \in Seq(Proposals), window' = [window EXCEPT ![open].answer = a]
        PROVE  WindowsTyped'
    <3> DEFINE v == [window[open] EXCEPT !.answer = a]
    <3>1. v \in WindowStates /\ v.receipts = window[open].receipts
      BY <1>1 DEF WindowStates
    <3>2. window' = [window EXCEPT ![open] = v]
      BY <2>3
    <3> HIDE DEF v
    <3> QED
      BY <1>2, <1>4, <2>1, <3>1, <3>2
  <2> QED
    BY <1>3, <2>1, <2>2, <2>3
<1>12. CASE \E id \in Conns : HandlerEnds(id) \/ Lapse(id)
  BY <1>3, <1>12 DEF HandlerEnds, Lapse
<1>13. CASE \E g \in Agents : Pull(g) \/ Push(g) \/ PushLost(g) \/ Poll(g)
  BY <1>3, <1>13 DEF Pull, Push, PushLost, Poll
<1>14. CASE \E g \in Agents : TimeOut(g) \/ AgentDrop(g) \/ AgentLeaves(g)
  BY <1>3, <1>14 DEF TimeOut, AgentDrop, AgentLeaves
<1>15. CASE Dial \/ UNCHANGED vars
  BY <1>3, <1>15 DEF Dial, vars
<1> QED
  BY <1>5, <1>6, <1>7, <1>8, <1>9, <1>10, <1>11, <1>12, <1>13, <1>14, <1>15 DEF Next
-----------------------------------------------------------------------------
(* Where the proposals go in a step.                                       *)

SessionStays == Keeps(session, session') /\ offers' = offers
SessionEnds ==
    /\ IsEmpty(session') /\ offers' = offers
    /\ "renumbered" \notin happened' => session.issued = 0 \/ ~Remembered
HostPublishes ==
    /\ offers' = offers
    /\ \E id \in Conns : Serve(id) /\ ServePublishes(id)
OfferIsLetIn == \E g \in Agents : LetIn(g) /\ (Push(g) \/ PushLost(g))

LEMMA SessionStep ==
    ASSUME IInv, [Next]_vars
    PROVE  /\ SessionStays \/ SessionEnds \/ HostPublishes \/ OfferIsLetIn
           /\ happened \subseteq happened'
           /\ happened' \subseteq {"silentEdit", "newWindow", "renumbered"}
<1> DEFINE Known == /\ happened \subseteq happened'
                    /\ happened' \subseteq {"silentEdit", "newWindow", "renumbered"}
<1>1. /\ session \in Sessions /\ Keeps(session, session)
      /\ happened \subseteq {"silentEdit", "newWindow", "renumbered"}
  BY KeepsItself DEF IInv, TypeOK
<1>2. CASE session' = session /\ offers' = offers
           /\ happened' \in {happened, happened \cup {"silentEdit"}, happened \cup {"newWindow"}}
  BY <1>1, <1>2 DEF SessionStays
<1>3. CASE Tick \/ Edit \/ SilentEdit \/ Collect
  BY <1>2, <1>3 DEF Tick, Edit, SilentEdit, Collect, Note
<1>4. CASE Drop \/ DialFails \/ Dial
  BY <1>2, <1>4 DEF Drop, DialFails, Dial
<1>5. CASE (\E mode \in Modes : SetMode(mode)) \/ (\E w \in Windows : Reload(w))
  BY <1>2, <1>5 DEF SetMode, Reload, Note
<1>6. ASSUME NEW id \in Conns, Serve(id)
      PROVE  (SessionStays \/ SessionEnds \/ HostPublishes) /\ Known
  <2>1. CASE ServePublishes(id)
    BY <1>1, <1>6, <2>1, ServeIs DEF HostPublishes, ServePublishes
  <2>2. CASE ~ServePublishes(id)
    <3>1. ServeReleases(id) /\ offers' = offers
      BY <1>6, <2>2, ServeIs
    <3>2. session' \in Sessions
      BY <1>1, <3>1 DEF ServeReleases, IsEmpty
    <3>3. \E s \in Sessions : Set(s) /\ s = session'
      BY <1>6, <3>2 DEF Serve, Set
    <3>4. /\ happened' \in {happened, happened \cup {"renumbered"}}
          /\ "renumbered" \notin happened' =>
                session'.issued >= session.issued \/ ~Remembered
      BY <3>3, SetIs
    <3>5. session.issued \in Nat
      BY <1>1 DEF Sessions
    <3>6. SessionStays \/ SessionEnds
      BY <1>1, <3>1, <3>4, <3>5
      DEF ServeReleases, SessionStays, SessionEnds, IsEmpty
    <3> QED
      BY <1>1, <3>4, <3>6
  <2> QED
    BY <2>1, <2>2
<1>7. ASSUME NEW id \in Conns, HandlerEnds(id)
      PROVE  (SessionStays \/ SessionEnds) /\ Known
  <2>1. Set(Gone(id)) /\ offers' = offers
    BY <1>7 DEF HandlerEnds
  <2>2. IF session.host = id THEN IsEmpty(Gone(id)) ELSE Keeps(session, Gone(id))
    BY GoneIs
  <2>3. Gone(id) \in Sessions
    BY <2>2 DEF IsEmpty, Keeps
  <2>4. /\ session' = Gone(id)
        /\ happened' \in {happened, happened \cup {"renumbered"}}
        /\ "renumbered" \notin happened' =>
              Gone(id).issued >= session.issued \/ ~Remembered
    BY <2>1, <2>3, SetIs
  <2>5. session.issued \in Nat
    BY <1>1 DEF Sessions
  <2>6. SessionStays \/ SessionEnds
    BY <2>1, <2>2, <2>4, <2>5 DEF SessionStays, SessionEnds, IsEmpty
  <2> QED
    BY <1>1, <2>4, <2>6
<1>8. ASSUME NEW id \in Conns, Lapse(id) PROVE SessionStays /\ Known
  <2>1. /\ session' = [session EXCEPT !.lapsed = @ \cup {id}]
        /\ id \in session.guests /\ offers' = offers /\ happened' = happened
    BY <1>8 DEF Lapse
  <2>2. Within(session.pending, session.pending)
    BY <1>1 DEF Keeps
  <2>3. Keeps(session, session')
    BY <1>1, <2>1, <2>2 DEF Keeps, Sessions
  <2> QED
    BY <1>1, <2>1, <2>3 DEF SessionStays
<1>9. ASSUME NEW g \in Agents, Pull(g) \/ Poll(g) PROVE SessionStays /\ Known
  <2>1. Set(Expire(Touch(session, Id(g)))) /\ offers' = offers /\ Id(g) \in Conns
    BY <1>9, IdIs DEF Pull, Poll, Clients
  <2> QED
    BY <1>1, <2>1, CallIs DEF SessionStays
<1>10. ASSUME NEW g \in Agents, AgentLeaves(g) PROVE SessionStays /\ Known
  <2>1. Set(Without(session, {Id(g)})) /\ offers' = offers
    BY <1>10 DEF AgentLeaves
  <2> QED
    BY <1>1, <2>1, PartingIs DEF SessionStays
<1>11. ASSUME NEW g \in Agents, Push(g) \/ PushLost(g)
       PROVE  (SessionStays \/ OfferIsLetIn) /\ Known
  <2>1. \/ session' = session /\ offers' = offers /\ happened' = happened
        \/ Offered(g)
    BY <1>11 DEF Push, PushLost
  <2>2. Reads(g)
    BY <1>11 DEF Push, PushLost, Reads
  <2>3. CASE Offered(g)
    BY <1>1, <1>11, <2>2, <2>3, OfferedIs DEF SessionStays, OfferIsLetIn, LetIn
  <2>4. CASE session' = session /\ offers' = offers /\ happened' = happened
    BY <1>1, <2>4 DEF SessionStays
  <2> QED
    BY <2>1, <2>3, <2>4
<1>12. CASE \E g \in Agents : TimeOut(g) \/ AgentDrop(g)
  BY <1>2, <1>12 DEF TimeOut, AgentDrop
<1>13. CASE UNCHANGED vars
  BY <1>2, <1>13 DEF vars
<1> QED
  BY <1>2, <1>3, <1>4, <1>5, <1>6, <1>7, <1>8, <1>9, <1>10, <1>11, <1>12, <1>13 DEF Next

SessionsTyped ==
    /\ session \in Sessions /\ Len(session.pending) <= MaxPending
    /\ offers \in 0 .. MaxOffers

LEMMA SessionsStep ==
    ASSUME IInv, [Next]_vars
    PROVE  SessionsTyped'
<1>1. /\ session \in Sessions /\ session.pending \in Seq(Proposals)
      /\ Len(session.pending) <= MaxPending /\ offers \in 0 .. MaxOffers
      /\ MaxPending \in Nat /\ Len(session.pending) \in Nat /\ Len(<<>>) = 0
  BY AnswerIs, LiveAssumption, LenProperties DEF IInv, TypeOK
<1>2. CASE SessionStays
  <2>1. session'.pending \in Seq(Proposals) /\ Len(session'.pending) <= Len(session.pending)
    BY <1>2 DEF SessionStays, Keeps, Within, Sessions
  <2>2. Len(session'.pending) \in Nat
    BY <2>1, LenProperties
  <2> QED
    BY <1>1, <1>2, <2>1, <2>2 DEF SessionStays, Keeps, SessionsTyped
<1>3. CASE SessionEnds
  BY <1>1, <1>3 DEF SessionEnds, IsEmpty, SessionsTyped
<1>4. CASE HostPublishes
  BY <1>1, <1>4 DEF HostPublishes, ServePublishes, SessionsTyped
<1>5. CASE OfferIsLetIn
  <2>1. PICK g \in Agents : LetIn(g)
    BY <1>5 DEF OfferIsLetIn
  <2>2. /\ Offer(g) \in Proposals /\ session'.pending = Append(session.pending, Offer(g))
        /\ Len(session.pending) < MaxPending /\ session' \in Sessions
        /\ offers' = offers + 1 /\ Offer(g).nonce = offers + 1
    BY <2>1 DEF LetIn, Offer
  <2>3. Len(session'.pending) = Len(session.pending) + 1
    BY <1>1, <2>2, AppendProperties
  <2>4. offers + 1 \in 0 .. MaxOffers
    BY <1>1, <2>2 DEF Proposals
  <2> QED
    BY <1>1, <2>2, <2>3, <2>4 DEF SessionsTyped
<1> QED
  BY <1>2, <1>3, <1>4, <1>5, SessionStep

(* The agents. *)
LEMMA AgentsStep ==
    ASSUME IInv, [Next]_vars
    PROVE  agent' \in [Agents -> AgentStates]
<1>1. agent \in [Agents -> AgentStates] /\ session \in Sessions
  BY DEF IInv, TypeOK
<1>2. ASSUME NEW g \in Agents, NEW r \in AgentStates, Becomes(g, r)
      PROVE  agent' \in [Agents -> AgentStates]
  BY <1>1, <1>2 DEF Becomes
<1>3. NewAgent \in AgentStates /\ 0 \in 0 .. MaxOffers
      /\ "failed" \in Between \cup {"resending", "waiting"}
      /\ "adopted" \in Between \cup {"resending", "waiting"}
  BY LiveAssumption DEF NewAgent, AgentStates, Between
<1>4. [NewAgent EXCEPT !.at = "failed"] \in AgentStates
  BY <1>3 DEF AgentStates
<1>5. ASSUME NEW g \in Agents, Pull(g) PROVE agent' \in [Agents -> AgentStates]
  <2> DEFINE s == Expire(Touch(session, Id(g)))
             r == [NewAgent EXCEPT !.at = "pulled", !.base = s.revision,
                                   !.read = s.doc, !.allows = s.allows]
  <2>1. /\ Set(s) /\ Id(g) \in Conns
        /\ Becomes(g, IF s.host = None THEN [NewAgent EXCEPT !.at = "failed"] ELSE r)
    BY <1>5, IdIs DEF Pull, Clients
  <2>2. s \in Sessions
    BY <2>1, CallIs DEF Keeps
  <2> HIDE DEF s
  <2>3. r \in AgentStates
    BY <1>3, <2>2 DEF NewAgent, AgentStates, Sessions, Between
  <2> HIDE DEF r
  <2> QED
    BY <1>2, <1>4, <2>1, <2>3
<1>6. ASSUME NEW g \in Agents, Push(g) PROVE agent' \in [Agents -> AgentStates]
  <2>1. CASE Becomes(g, [NewAgent EXCEPT !.at = "failed"])
    BY <1>2, <1>4, <2>1
  <2>2. CASE ~Becomes(g, [NewAgent EXCEPT !.at = "failed"])
    <3> DEFINE r == [NewAgent EXCEPT !.at = "waiting", !.id = session.issued + 1,
                                     !.nonce = offers + 1]
    <3>1. /\ Offered(g) /\ ~Refusal(session, agent[g].base)
          /\ Becomes(g, r)
      BY <1>6, <2>2, Zenon DEF Push
    <3>2. Reads(g)
      BY <1>6 DEF Push, Reads
    <3>3. Offer(g) \in Proposals
      BY <3>1, <3>2, OfferedIs DEF LetIn
    <3>4. session.issued + 1 \in 0 .. MaxOffers /\ offers + 1 \in 0 .. MaxOffers
      BY <3>3 DEF Offer, Proposals
    <3>5. r \in AgentStates
      BY <1>3, <3>4 DEF NewAgent, AgentStates
    <3> HIDE DEF r
    <3> QED
      BY <1>2, <3>1, <3>5
  <2> QED
    BY <2>1, <2>2
<1>7. ASSUME NEW g \in Agents, PushLost(g) PROVE agent' \in [Agents -> AgentStates]
  <2>1. [agent[g] EXCEPT !.at = "resending"] \in AgentStates
    BY <1>1 DEF AgentStates
  <2> QED
    BY <1>2, <1>4, <1>7, <2>1 DEF PushLost
<1>8. ASSUME NEW g \in Agents, Poll(g) PROVE agent' \in [Agents -> AgentStates]
  <2>1. agent[g] \in AgentStates
    BY <1>1
  <2>2. [agent[g] EXCEPT !.at = "adopted", !.id = 0] \in AgentStates
    BY <1>3, <2>1 DEF AgentStates
  <2> DEFINE s == Expire(Touch(session, Id(g)))
  <2>3. \/ Becomes(g, [NewAgent EXCEPT !.at = "failed"])
        \/ Becomes(g, [agent[g] EXCEPT !.at = "adopted", !.id = 0])
        \/ Becomes(g, agent[g])
    BY <1>8 DEF Poll
  <2> QED
    BY <1>2, <1>4, <2>2, <2>1, <2>3
<1>9. CASE \E g \in Agents : TimeOut(g) \/ AgentLeaves(g)
  BY <1>2, <1>4, <1>3, <1>9 DEF TimeOut, AgentLeaves
<1>10. CASE agent' = agent
  BY <1>1, <1>10
<1>11. CASE Tick \/ Edit \/ SilentEdit \/ Collect \/ Drop \/ DialFails \/ Dial
  BY <1>10, <1>11 DEF Tick, Edit, SilentEdit, Collect, Drop, DialFails, Dial
<1>12. CASE (\E mode \in Modes : SetMode(mode)) \/ (\E w \in Windows : Reload(w))
  BY <1>10, <1>12 DEF SetMode, Reload
<1>13. CASE \E id \in Conns : Serve(id) \/ HandlerEnds(id) \/ Lapse(id)
  BY <1>10, <1>13 DEF Serve, HandlerEnds, Lapse
<1>14. CASE (\E g \in Agents : AgentDrop(g)) \/ UNCHANGED vars
  BY <1>10, <1>14 DEF AgentDrop, vars
<1> QED
  BY <1>5, <1>6, <1>7, <1>8, <1>9, <1>11, <1>12, <1>13, <1>14 DEF Next

LEMMA TypeStep ==
    ASSUME IInv, [Next]_vars
    PROVE  TypeOK' /\ taken' \subseteq Replacements /\ GoneAreOld' /\ DocsAreBudgeted'
<1>1. /\ ConnsTyped' /\ GoneAreOld' /\ WindowsTyped' /\ SessionsTyped' /\ WireGoesOn
      /\ agent' \in [Agents -> AgentStates]
      /\ happened' \subseteq {"silentEdit", "newWindow", "renumbered"}
  BY ConnsStep, WindowsStep, SessionsStep, WireStep, AgentsStep, SessionStep
<1>2. \A c \in Clients : Id(c)' \notin closing'
  <2> SUFFICES ASSUME NEW c \in Clients, Id(c)' \in closing' PROVE FALSE
    OBVIOUS
  <2>1. Id(c)' = <<c, conn'[c]>> /\ conn'[c] \in Int
    BY <1>1 DEF Id, ConnsTyped
  <2>2. conn'[c] < conn'[c]
    BY <1>1, <2>1 DEF GoneAreOld
  <2> QED
    BY <2>1, <2>2
<1> QED
  BY <1>1, <1>2 DEF ConnsTyped, WindowsTyped, SessionsTyped, WireGoesOn, TypeOK
-----------------------------------------------------------------------------
(* Where the agents, the window and the connections go in a step.          *)

AgentGoes(g) ==
    \/ agent'[g] = agent[g]
    \/ agent'[g].at \in {"idle", "failed"}
    \/ /\ agent'[g].at = "pulled" /\ session.host # None
       /\ agent'[g].base = session.revision /\ agent'[g].read = session.doc
    \/ /\ agent[g].at = "pulled" /\ agent'[g].at = "resending"
       /\ agent'[g].base = agent[g].base /\ agent'[g].read = agent[g].read
    \/ /\ LetIn(g) /\ agent'[g].at = "waiting"
       /\ agent'[g].id = session.issued + 1 /\ agent'[g].nonce = offers + 1
    \/ /\ agent[g].at = "waiting" /\ agent[g].id \in Range(session.applied)
       /\ agent'[g].at = "adopted" /\ agent'[g].nonce = agent[g].nonce

LEMMA AgentsGo ==
    ASSUME IInv, [Next]_vars
    PROVE  \A g \in Agents : AgentGoes(g)
<1>1. agent \in [Agents -> AgentStates] /\ session \in Sessions
  BY DEF IInv, TypeOK
<1>2. ASSUME NEW g \in Agents, NEW r, Becomes(g, r)
      PROVE  agent'[g] = r /\ \A h \in Agents : h # g => AgentGoes(h)
  BY <1>1, <1>2 DEF Becomes, AgentGoes
<1>3. [NewAgent EXCEPT !.at = "failed"].at = "failed" /\ NewAgent.at = "idle"
  BY DEF NewAgent
<1>4. CASE agent' = agent
  BY <1>4 DEF AgentGoes
<1>5. ASSUME NEW g \in Agents,
             \/ Becomes(g, NewAgent) \/ Becomes(g, [NewAgent EXCEPT !.at = "failed"])
             \/ Becomes(g, agent[g])
      PROVE  \A h \in Agents : AgentGoes(h)
  <2>1. PICK r : Becomes(g, r) /\ (r.at \in {"idle", "failed"} \/ r = agent[g])
    BY <1>3, <1>5
  <2>2. agent'[g] = r /\ \A h \in Agents : h # g => AgentGoes(h)
    BY <1>2, <2>1
  <2>3. AgentGoes(g)
    BY <2>1, <2>2 DEF AgentGoes
  <2> QED
    BY <2>2, <2>3
<1>6. ASSUME NEW g \in Agents, Pull(g) PROVE \A h \in Agents : AgentGoes(h)
  <2> DEFINE s == Expire(Touch(session, Id(g)))
             r == [NewAgent EXCEPT !.at = "pulled", !.base = s.revision,
                                   !.read = s.doc, !.allows = s.allows]
  <2>1. /\ Set(s) /\ Id(g) \in Conns
        /\ Becomes(g, IF s.host = None THEN [NewAgent EXCEPT !.at = "failed"] ELSE r)
    BY <1>6, IdIs DEF Pull, Clients
  <2>2. s.host = session.host /\ s.doc = session.doc /\ s.revision = session.revision
    BY <2>1, CallIs DEF Keeps
  <2> HIDE DEF s
  <2>3. r.at = "pulled" /\ r.base = s.revision /\ r.read = s.doc
    BY DEF NewAgent
  <2> HIDE DEF r
  <2>4. CASE s.host = None
    BY <1>5, <2>1, <2>4
  <2>5. CASE s.host # None
    <3>1. agent'[g] = r /\ \A h \in Agents : h # g => AgentGoes(h)
      BY <1>2, <2>1, <2>5
    <3>2. AgentGoes(g)
      BY <2>2, <2>3, <2>5, <3>1 DEF AgentGoes
    <3> QED
      BY <3>1, <3>2
  <2> QED
    BY <2>4, <2>5
<1>7. ASSUME NEW g \in Agents, Push(g) PROVE \A h \in Agents : AgentGoes(h)
  <2>1. CASE Becomes(g, [NewAgent EXCEPT !.at = "failed"])
    BY <1>5, <2>1
  <2>2. CASE ~Becomes(g, [NewAgent EXCEPT !.at = "failed"])
    <3> DEFINE r == [NewAgent EXCEPT !.at = "waiting", !.id = session.issued + 1,
                                     !.nonce = offers + 1]
    <3>1. Offered(g) /\ ~Refusal(session, agent[g].base) /\ Becomes(g, r)
      BY <1>7, <2>2, Zenon DEF Push
    <3>2. Reads(g)
      BY <1>7 DEF Push, Reads
    <3>3. LetIn(g)
      BY <3>1, <3>2, OfferedIs
    <3>4. r.at = "waiting" /\ r.id = session.issued + 1 /\ r.nonce = offers + 1
      BY DEF NewAgent
    <3> HIDE DEF r
    <3>5. agent'[g] = r /\ \A h \in Agents : h # g => AgentGoes(h)
      BY <1>2, <3>1
    <3>6. AgentGoes(g)
      BY <3>3, <3>4, <3>5 DEF AgentGoes
    <3> QED
      BY <3>5, <3>6
  <2> QED
    BY <2>1, <2>2
<1>8. ASSUME NEW g \in Agents, PushLost(g) PROVE \A h \in Agents : AgentGoes(h)
  <2> DEFINE r == [agent[g] EXCEPT !.at = "resending"]
  <2>1. CASE agent[g].at = "pulled"
    <3>1. Becomes(g, r)
      BY <1>8, <2>1 DEF PushLost
    <3>2. r.at = "resending" /\ r.base = agent[g].base /\ r.read = agent[g].read
      BY <1>1 DEF AgentStates
    <3> HIDE DEF r
    <3>3. agent'[g] = r /\ \A h \in Agents : h # g => AgentGoes(h)
      BY <1>2, <3>1
    <3>4. AgentGoes(g)
      BY <2>1, <3>2, <3>3 DEF AgentGoes
    <3> QED
      BY <3>3, <3>4
  <2>2. CASE agent[g].at # "pulled"
    <3>1. Becomes(g, [NewAgent EXCEPT !.at = "failed"])
      BY <1>8, <2>2 DEF PushLost
    <3> QED
      BY <1>5, <3>1
  <2> QED
    BY <2>1, <2>2
<1>9. ASSUME NEW g \in Agents, Poll(g) PROVE \A h \in Agents : AgentGoes(h)
  <2> DEFINE s == Expire(Touch(session, Id(g)))
             r == [agent[g] EXCEPT !.at = "adopted", !.id = 0]
  <2>1. /\ Set(s) /\ Id(g) \in Conns /\ agent[g].at = "waiting"
        /\ \/ Becomes(g, [NewAgent EXCEPT !.at = "failed"])
           \/ Adopted(s, agent[g]) /\ Becomes(g, r)
           \/ Becomes(g, agent[g])
    BY <1>9, IdIs DEF Poll, Clients
  <2>2. s.applied = session.applied
    BY <2>1, CallIs DEF Keeps
  <2> HIDE DEF s
  <2>3. CASE Adopted(s, agent[g]) /\ Becomes(g, r)
    <3>1. r.at = "adopted" /\ r.nonce = agent[g].nonce
      BY <1>1 DEF AgentStates
    <3> HIDE DEF r
    <3>2. agent'[g] = r /\ \A h \in Agents : h # g => AgentGoes(h)
      BY <1>2, <2>3
    <3>3. agent[g].id \in Range(session.applied)
      BY <2>2, <2>3 DEF Adopted, Contains, Range
    <3>4. AgentGoes(g)
      BY <2>1, <3>1, <3>2, <3>3 DEF AgentGoes
    <3> QED
      BY <3>2, <3>4
  <2> QED
    BY <1>5, <2>1, <2>3
<1>10. CASE \E g \in Agents : TimeOut(g) \/ AgentLeaves(g)
  BY <1>5, <1>10 DEF TimeOut, AgentLeaves
<1>11. CASE Tick \/ Edit \/ SilentEdit \/ Collect \/ Drop \/ DialFails \/ Dial
  BY <1>4, <1>11 DEF Tick, Edit, SilentEdit, Collect, Drop, DialFails, Dial
<1>12. CASE (\E mode \in Modes : SetMode(mode)) \/ (\E w \in Windows : Reload(w))
  BY <1>4, <1>12 DEF SetMode, Reload
<1>13. CASE \E id \in Conns : Serve(id) \/ HandlerEnds(id) \/ Lapse(id)
  BY <1>4, <1>13 DEF Serve, HandlerEnds, Lapse
<1>14. CASE (\E g \in Agents : AgentDrop(g)) \/ UNCHANGED vars
  BY <1>4, <1>14 DEF AgentDrop, vars
<1> QED
  BY <1>6, <1>7, <1>8, <1>9, <1>10, <1>11, <1>12, <1>13, <1>14 DEF Next

(* What the window is handed. *)
Handed ==
    /\ HostPublishes /\ session'.pending = <<>> /\ taken' = taken
    /\ window'[open].answer \in Seq(Proposals)
    /\ Within(window'[open].answer, session.pending)
    /\ \A p \in Range(window'[open].answer) : p.agent \notin session.lapsed

AnswerGoes ==
    \/ window'[open'].answer = None
    \/ open' = open /\ window'[open].answer = window[open].answer
    \/ open' = open /\ Handed

ReceiptsGo ==
    \/ Collect
    \/ taken' = taken
       /\ Range(window'[open'].receipts) \subseteq Range(window[open].receipts)

(* A revision that was told keeps its document. *)
RevisionGoes ==
    Quiet' =>
        /\ open' = open
        /\ \/ window'[open].revision > window[open].revision
           \/ /\ window'[open].revision = window[open].revision
              /\ Sharing' => Sharing /\ window'[open].doc = window[open].doc

LEMMA WindowGoes ==
    ASSUME IInv, [Next]_vars
    PROVE  AnswerGoes /\ ReceiptsGo /\ RevisionGoes
<1> DEFINE w == window[open]
<1>1. /\ window \in [Windows -> WindowStates] /\ open \in Windows /\ w \in WindowStates
      /\ w.revision \in Nat
  BY DEF IInv, TypeOK, WindowStates
<1>2. CASE UNCHANGED <<window, open, taken>>
  BY <1>2 DEF AnswerGoes, ReceiptsGo, RevisionGoes, Sharing
<1>3. ASSUME NEW v, window' = [window EXCEPT ![open] = v], open' = open,
             taken' = taken, v.receipts = w.receipts, v.answer \in {None, w.answer},
             \/ ~Quiet'
             \/ v.revision > w.revision
             \/ v.revision = w.revision /\ (v.mode # "off" => w.mode # "off" /\ v.doc = w.doc)
      PROVE  AnswerGoes /\ ReceiptsGo /\ RevisionGoes
  <2>1. window'[open] = v
    BY <1>1, <1>3
  <2> QED
    BY <1>3, <2>1 DEF AnswerGoes, ReceiptsGo, RevisionGoes, Sharing
<1>4. CASE Tick
  <2> DEFINE v == [w EXCEPT !.tick = TRUE]
  <2>1. /\ v.receipts = w.receipts /\ v.answer = w.answer /\ v.mode = w.mode
        /\ v.revision = w.revision /\ v.doc = w.doc
    BY <1>1 DEF WindowStates
  <2>2. window' = [window EXCEPT ![open] = v] /\ open' = open /\ taken' = taken
    BY <1>4 DEF Tick
  <2> HIDE DEF v, w
  <2> QED
    BY <1>3, <2>1, <2>2
<1>5. CASE Edit
  <2> DEFINE r == IF Sharing THEN w.revision + 1 ELSE w.revision
             v == [w EXCEPT !.doc = docs + 1, !.revision = r]
  <2>1. /\ v.receipts = w.receipts /\ v.answer = w.answer /\ v.mode = w.mode
        /\ v.revision = r
    BY <1>1 DEF WindowStates
  <2>2. window' = [window EXCEPT ![open] = v] /\ open' = open /\ taken' = taken
    BY <1>1, <1>5 DEF Edit
  <2> HIDE DEF v
  <2>3. v.revision > w.revision \/ (v.revision = w.revision /\ v.mode = "off")
    BY <1>1, <2>1 DEF Sharing
  <2> HIDE DEF w, r
  <2> QED
    BY <1>3, <2>1, <2>2, <2>3
<1>6. CASE SilentEdit
  <2> DEFINE v == [w EXCEPT !.doc = docs + 1]
  <2>1. /\ v.receipts = w.receipts /\ v.answer = w.answer /\ v.mode = w.mode
        /\ v.revision = w.revision
    BY <1>1 DEF WindowStates
  <2>2. window' = [window EXCEPT ![open] = v] /\ open' = open /\ taken' = taken
    BY <1>6 DEF SilentEdit
  <2> HIDE DEF v
  <2>3. ~Quiet' \/ w.mode = "off"
    BY <1>6 DEF SilentEdit, Note, Quiet, Sharing
  <2> HIDE DEF w
  <2> QED
    BY <1>3, <2>1, <2>2, <2>3
<1>7. ASSUME NEW mode \in Modes, SetMode(mode)
      PROVE  AnswerGoes /\ ReceiptsGo /\ RevisionGoes
  <2> DEFINE r == IF Sharing THEN w.revision ELSE w.revision + 1
             v == [w EXCEPT !.mode = mode, !.revision = r]
  <2>1. /\ v.receipts = w.receipts /\ v.answer = w.answer /\ v.doc = w.doc
        /\ v.revision = r
    BY <1>1 DEF WindowStates
  <2>2. window' = [window EXCEPT ![open] = v] /\ open' = open /\ taken' = taken
    BY <1>1, <1>7 DEF SetMode
  <2> HIDE DEF v
  <2>3. v.revision > w.revision \/ (v.revision = w.revision /\ w.mode # "off")
    BY <1>1, <2>1 DEF Sharing
  <2> HIDE DEF w, r
  <2> QED
    BY <1>3, <2>1, <2>2, <2>3
<1>8. CASE Collect
  <2>1. /\ open' = open /\ w.mode = window'[open].mode /\ window'[open].answer = None
        /\ \/ window'[open].revision = w.revision /\ window'[open].doc = w.doc
           \/ window'[open].revision > w.revision
    BY <1>8, CollectIs
  <2> QED
    BY <1>8, <2>1 DEF AnswerGoes, ReceiptsGo, RevisionGoes, Sharing
<1>9. CASE Drop \/ DialFails
  <2> DEFINE v == Settled(w)
  <2>1. /\ v.receipts = w.receipts /\ v.answer = None /\ v.mode = w.mode
        /\ v.revision = w.revision /\ v.doc = w.doc
    BY <1>1 DEF Settled, WindowStates
  <2>2. window' = [window EXCEPT ![open] = v] /\ open' = open /\ taken' = taken
    BY <1>9 DEF Drop, DialFails
  <2> HIDE DEF v, w
  <2> QED
    BY <1>3, <2>1, <2>2
<1>10. ASSUME NEW x \in Windows, Reload(x)
       PROVE  AnswerGoes /\ ReceiptsGo /\ RevisionGoes
  <2> DEFINE v == NewWindow(window[open].mode, docs + 1)
             u == NewWindow("off", 0)
  <2>1. /\ window' = [window EXCEPT ![x] = v, ![open] = u]
        /\ open' = x /\ x # open /\ taken' = taken
        /\ happened' = happened \cup {"newWindow"}
    BY <1>10 DEF Reload, Note
  <2>2. v.receipts = <<>> /\ v.answer = None /\ Range(<<>>) = {}
    BY DEF NewWindow, Range
  <2> HIDE DEF v, u
  <2>3. window'[x] = v
    BY <1>1, <2>1
  <2>4. ~Quiet'
    BY <2>1 DEF Quiet
  <2> QED
    BY <2>1, <2>2, <2>3, <2>4 DEF AnswerGoes, ReceiptsGo, RevisionGoes
<1>11. ASSUME NEW id \in Conns, Serve(id)
       PROVE  AnswerGoes /\ ReceiptsGo /\ RevisionGoes
  <2>1. open' = open /\ taken' = taken /\ offers' = offers
    BY <1>11 DEF Serve
  <2>2. CASE window' = window
    BY <1>2, <2>1, <2>2
  <2>3. CASE window' # window
    <3>1. ServePublishes(id) /\ HostPublishes /\ session'.pending = <<>>
      BY <1>11, <2>1, <2>3, ServeIs DEF ServeReleases, HostPublishes, ServePublishes
    <3>2. PICK a \in Seq(Proposals) :
             /\ window' = [window EXCEPT ![open].answer = a]
             /\ Within(a, session.pending)
             /\ \A p \in Range(a) : p.agent \notin session.lapsed
      BY <2>3, <3>1 DEF ServePublishes
    <3> DEFINE v == [w EXCEPT !.answer = a]
    <3>3. /\ v.receipts = w.receipts /\ v.answer = a /\ v.mode = w.mode
          /\ v.revision = w.revision /\ v.doc = w.doc
      BY <1>1 DEF WindowStates
    <3>4. window' = [window EXCEPT ![open] = v]
      BY <3>2
    <3> HIDE DEF v
    <3>5. window'[open] = v
      BY <1>1, <3>4
    <3>6. Handed
      BY <2>1, <3>1, <3>2, <3>3, <3>5 DEF Handed
    <3> QED
      BY <2>1, <3>3, <3>5, <3>6 DEF AnswerGoes, ReceiptsGo, RevisionGoes, Sharing
  <2> QED
    BY <2>2, <2>3
<1>12. CASE \E id \in Conns : HandlerEnds(id) \/ Lapse(id)
  BY <1>2, <1>12 DEF HandlerEnds, Lapse
<1>13. CASE \E g \in Agents : Pull(g) \/ Push(g) \/ PushLost(g) \/ Poll(g)
  BY <1>2, <1>13 DEF Pull, Push, PushLost, Poll
<1>14. CASE \E g \in Agents : TimeOut(g) \/ AgentDrop(g) \/ AgentLeaves(g)
  BY <1>2, <1>14 DEF TimeOut, AgentDrop, AgentLeaves
<1>15. CASE UNCHANGED vars
  BY <1>2, <1>15 DEF vars
<1>16. CASE Dial
  <2>1. UNCHANGED <<window, open, taken>>
    BY <1>16 DEF Dial
  <2> QED
    BY <1>2, <2>1
<1> QED
  BY <1>4, <1>5, <1>6, <1>7, <1>8, <1>9, <1>10, <1>11, <1>12, <1>13, <1>14,
     <1>15, <1>16 DEF Next

ConnsGo ==
    /\ closing \subseteq closing'
    /\ \A g \in Agents : Id(g)' = Id(g) \/ Id(g) \in closing'
    /\ \/ Id(open)' = Id(open) /\ (up => up')
       \/ /\ session' = session
          /\ Id(open)' \notin closing \cup {Id(open)}
          /\ Id(open) \in closing' \/ ~up

LEMMA ConnsAre ==
    ASSUME IInv, [Next]_vars
    PROVE  \/ ConnsGo
           \/ \E id \in Conns : HandlerEnds(id)
<1>1. /\ \A c \in Clients : Id(c) \in Conns /\ Id(c)[1] = c /\ Id(c)[2] = conn[c]
      /\ conn \in [Clients -> 1 .. MaxConns] /\ open \in Windows
      /\ Windows \cap Agents = {} /\ closing \subseteq Conns
      /\ \A c \in Clients : Id(c) \notin closing
  BY IdIs, LiveAssumption DEF IInv, TypeOK
<1>2. CASE UNCHANGED <<conn, open, up, closing>>
  BY <1>2 DEF ConnsGo, Id
<1>3. CASE Tick \/ Edit \/ SilentEdit \/ Collect
  BY <1>2, <1>3 DEF Tick, Edit, SilentEdit, Collect
<1>4. CASE (\E mode \in Modes : SetMode(mode)) \/ DialFails
  BY <1>2, <1>4 DEF SetMode, DialFails
<1>5. CASE Dial
  BY <1>5 DEF Dial, ConnsGo, Id
<1>6. CASE Drop
  <2>1. /\ Leave(open) /\ open' = open /\ session' = session
        /\ closing' = closing \cup {Id(open)}
    BY <1>6 DEF Drop
  <2>2. /\ conn'[open] = conn[open] + 1
        /\ \A x \in Clients : x # open => conn'[x] = conn[x]
    BY <2>1, LeaveIs DEF IInv, TypeOK, Clients
  <2>3. Id(open)' = <<open, conn[open] + 1>> /\ Id(open) = <<open, conn[open]>>
    BY <2>1, <2>2 DEF Id
  <2>4. open \in Clients /\ conn[open] \in Nat
    BY <1>1 DEF Clients
  <2>5. Id(open)' # Id(open)
    BY <2>3, <2>4
  <2>6. Id(open)' \notin closing
    <3>1. \A id \in closing : id[2] < conn[id[1]]
      BY DEF IInv, GoneAreOld
    <3> QED
      BY <2>3, <2>4, <3>1
  <2>7. \A g \in Agents : Id(g)' = Id(g)
    BY <1>1, <2>2 DEF Id, Clients
  <2> QED
    BY <2>1, <2>5, <2>6, <2>7 DEF ConnsGo
<1>7. ASSUME NEW w \in Windows, Reload(w) PROVE ConnsGo
  <2>1. /\ Leave(open) /\ open' = w /\ w # open /\ session' = session
        /\ closing' = IF up THEN closing \cup {Id(open)} ELSE closing
    BY <1>7 DEF Reload
  <2>2. \A x \in Clients : x # open => conn'[x] = conn[x]
    BY <2>1, LeaveIs DEF IInv, TypeOK, Clients
  <2>3. Id(open)' = Id(w) /\ w \in Clients /\ Id(w) # Id(open)
    BY <1>1, <2>1, <2>2 DEF Id, Clients
  <2>4. \A g \in Agents : Id(g)' = Id(g)
    BY <1>1, <2>2 DEF Id, Clients
  <2> QED
    BY <1>1, <2>1, <2>3, <2>4 DEF ConnsGo
<1>8. CASE \E id \in Conns : Serve(id) \/ Lapse(id)
  BY <1>2, <1>8 DEF Serve, Lapse
<1>9. CASE \E g \in Agents : Pull(g) \/ Push(g) \/ Poll(g) \/ TimeOut(g) \/ AgentLeaves(g)
  BY <1>2, <1>9 DEF Pull, Push, Poll, TimeOut, AgentLeaves
<1>10. ASSUME NEW g \in Agents, PushLost(g) \/ AgentDrop(g) PROVE ConnsGo
  <2>1. Leave(g) /\ closing' = closing \cup {Id(g)} /\ open' = open /\ up' = up
    BY <1>10 DEF PushLost, AgentDrop
  <2>2. \A x \in Clients : x # g => conn'[x] = conn[x]
    BY <2>1, LeaveIs DEF Clients
  <2>3. Id(open)' = Id(open) /\ \A h \in Agents : h # g => Id(h)' = Id(h)
    BY <1>1, <2>1, <2>2 DEF Id, Clients
  <2> QED
    BY <2>1, <2>3 DEF ConnsGo
<1>11. CASE UNCHANGED vars
  BY <1>2, <1>11 DEF vars
<1> QED
  BY <1>3, <1>4, <1>5, <1>6, <1>7, <1>8, <1>9, <1>10, <1>11 DEF Next
-----------------------------------------------------------------------------
(* The conjuncts of the invariant, step by step.                           *)

LEMMA PartiesStep ==
    ASSUME IInv, [Next]_vars
    PROVE  DocsAreTold' /\ HostIsServed' /\ SessionHasParties'
<1>1. /\ DocsAreTold /\ HostIsServed /\ SessionHasParties /\ session \in Sessions
      /\ session'.pending \in Seq(Proposals) /\ session.pending \in Seq(Proposals)
      /\ open \in Windows /\ window[open].doc \in Docs /\ session' \in Sessions
      /\ None \notin Conns /\ \A c \in Clients : Id(c) \in Conns /\ Id(c) \notin closing
  BY AnswerIs, IdIs, SessionsStep, LiveAssumption
  DEF IInv, TypeOK, SessionsTyped, Sessions, WindowStates
<1>2. SessionStays \/ SessionEnds \/ HostPublishes \/ OfferIsLetIn
  BY SessionStep
(* the host, and the document *)
<1>3. ASSUME NEW id \in Conns, Serve(id), ServePublishes(id)
      PROVE  /\ session'.host = id /\ id \in Conns /\ session'.doc \in Docs
             /\ id \in closing \/ (id = Id(open) /\ up)
             /\ Id(open)' = Id(open) /\ up' = up /\ closing' = closing
  <2>1. Head(wire[id]).op = "host" /\ Head(wire[id]) \in Range(wire[id])
        /\ session'.doc = Head(wire[id]).doc /\ session'.host = id
    BY <1>3, ServeIs DEF ServePublishes
  <2> QED
    BY <1>1, <1>3, <2>1, ServeIs DEF DocsAreTold, Id
<1>4. \/ HostPublishes
      \/ session'.host = None
      \/ session'.host = session.host /\ session'.doc = session.doc
  BY <1>2 DEF SessionStays, Keeps, SessionEnds, IsEmpty, OfferIsLetIn, LetIn
<1>5. session'.host # None => session'.doc \in Docs
  BY <1>1, <1>3, <1>4 DEF HostPublishes, DocsAreTold
<1>6. ASSUME NEW id \in Conns, NEW m \in Range(wire'[id]), m.op = "host"
      PROVE  m.doc \in Docs
  <2>1. Relayed(id, m) \/ Sent(m)
    BY <1>6, WireStep DEF WireGoesOn
  <2>2. CASE Relayed(id, m)
    BY <1>1, <1>6, <2>2 DEF Relayed, Alike, DocsAreTold
  <2>3. CASE Sent(m)
    <3>1. m # Bye
      BY <1>6 DEF Bye
    <3>2. m = Shared(window[open], TRUE)
      BY <2>3, <3>1 DEF Sent
    <3> QED
      BY <1>1, <3>2, RequestsAre
  <2> QED
    BY <2>1, <2>2, <2>3
<1>7. ASSUME NEW g \in Agents, Reads(g)' PROVE agent'[g].read \in Docs
  BY <1>1, <1>7, AgentsGo DEF AgentGoes, Reads, DocsAreTold
<1>8. DocsAreTold'
  BY <1>5, <1>6, <1>7 DEF DocsAreTold
(* whoever is the host has a handler *)
<1>9. ASSUME NEW id \in Conns, HandlerEnds(id)
      PROVE  /\ closing' = closing \ {id} /\ UNCHANGED <<conn, open, up>>
             /\ session'.host \in {None, session.host} /\ session'.host # id
             /\ session'.guests \subseteq session.guests \ {id}
             /\ SessionStays \/ SessionEnds
  <2>1. /\ closing' = closing \ {id} /\ UNCHANGED <<conn, open, up, offers>>
        /\ Set(Gone(id))
    BY <1>9 DEF HandlerEnds
  <2>2. session' = Gone(id)
    BY <2>1 DEF Set
  <2>3. /\ IF session.host = id THEN IsEmpty(Gone(id)) ELSE Keeps(session, Gone(id))
        /\ Gone(id).guests \subseteq session.guests \ {id}
    BY GoneIs
  <2>4. session'.host \in {None, session.host} /\ session'.host # id
    BY <1>1, <2>2, <2>3 DEF IsEmpty, Keeps
  <2>5. ~HostPublishes /\ ~OfferIsLetIn
    <3>1. ~HostPublishes
      <4> SUFFICES ASSUME NEW x \in Conns, Serve(x), ServePublishes(x) PROVE FALSE
        BY DEF HostPublishes
      <4>1. x = session.host /\ closing' = closing /\ id \in closing
        BY <1>1, <1>3, <2>4, <1>9 DEF HandlerEnds
      <4> QED
        BY <2>1, <4>1
    <3>2. ~OfferIsLetIn
      <4>1. OfferIsLetIn => offers' = offers + 1 /\ offers \in Int
        BY DEF OfferIsLetIn, LetIn, IInv, TypeOK
      <4> QED
        BY <2>1, <4>1
    <3> QED
      BY <3>1, <3>2
  <2> QED
    BY <1>2, <2>1, <2>2, <2>3, <2>4, <2>5
<1>10. HostIsServed'
  <2>1. CASE HostPublishes
    <3>1. PICK id \in Conns : Serve(id) /\ ServePublishes(id)
      BY <2>1 DEF HostPublishes
    <3>2. session'.host = id /\ Id(open)' = Id(open) /\ up' = up
          /\ (id \in closing \/ (id = Id(open) /\ up))
      BY <1>3, <3>1
    <3>3. Id(open) \notin closing
      BY <1>1 DEF Clients
    <3> QED
      BY <3>2, <3>3 DEF HostIsServed
  <2>2. CASE session'.host = None
    <3>1. Id(open)' \in Conns
      <4>1. ConnsTyped'
        BY ConnsStep
      <4> QED
        BY <4>1 DEF ConnsTyped, Id, Conns, Clients
    <3> QED
      BY <1>1, <2>2, <3>1 DEF HostIsServed
  <2>3. CASE session'.host = session.host /\ session.host # None
    <3>1. CASE ConnsGo
      BY <1>1, <2>3, <3>1 DEF ConnsGo, HostIsServed, SessionHasParties
    <3>2. CASE \E id \in Conns : HandlerEnds(id)
      BY <1>1, <1>9, <2>3, <3>2 DEF HostIsServed, Id
    <3> QED
      BY <3>1, <3>2, ConnsAre
  <2> QED
    BY <1>4, <2>1, <2>2, <2>3
<1>11. session'.host # None => session'.host \in closing' \cup {Id(open)'}
  <2>1. CASE HostPublishes
    BY <1>3, <2>1 DEF HostPublishes
  <2>2. CASE session'.host = session.host /\ session.host # None
    <3>1. CASE ConnsGo
      BY <1>1, <2>2, <3>1 DEF ConnsGo, HostIsServed, SessionHasParties
    <3>2. CASE \E id \in Conns : HandlerEnds(id)
      BY <1>1, <1>9, <2>2, <3>2 DEF SessionHasParties, Id
    <3> QED
      BY <3>1, <3>2, ConnsAre
  <2> QED
    BY <1>4, <2>1, <2>2
(* the guests *)
<1>12. /\ session'.host = None => session'.doc = None /\ session'.pending = <<>>
       /\ \A p \in Range(session'.pending) : p.agent \in session'.guests
       /\ session'.lapsed \subseteq session'.guests
  <2>1. /\ \A p \in Range(session.pending) : p.agent \in session.guests
        /\ session.lapsed \subseteq session.guests
    BY <1>1 DEF SessionHasParties, Range
  <2>2. CASE SessionStays
    <3>1. session.pending = <<>> => session'.pending = <<>>
      <4>1. Len(session'.pending) <= Len(session.pending) /\ Len(session'.pending) \in Nat
        BY <1>1, <2>2, LenProperties DEF SessionStays, Keeps, Within
      <4> QED
        BY <1>1, <4>1, EmptySeq
    <3>2. \A p \in Range(session'.pending) : p.agent \in session'.guests
      BY <2>1, <2>2 DEF SessionStays, Keeps, Within
    <3> QED
      BY <1>1, <2>1, <2>2, <3>1, <3>2 DEF SessionStays, Keeps, SessionHasParties
  <2>3. CASE SessionEnds
    BY <2>3 DEF SessionEnds, IsEmpty, Range
  <2>4. CASE HostPublishes
    BY <1>1, <1>3, <2>4 DEF HostPublishes, ServePublishes, Range
  <2>5. CASE OfferIsLetIn
    <3>1. PICK g \in Agents : LetIn(g)
      BY <2>5 DEF OfferIsLetIn
    <3>2. Range(session'.pending) \subseteq Range(session.pending) \cup {Offer(g)}
      <4>1. /\ session'.pending = Append(session.pending, Offer(g))
            /\ Offer(g) \in Proposals
        BY <3>1 DEF LetIn
      <4> DEFINE s == session.pending
                 r == Append(s, Offer(g))
      <4>2. /\ \A i \in DOMAIN s : r[i] = s[i] /\ r[Len(s) + 1] = Offer(g)
            /\ \A i \in DOMAIN r : i \in DOMAIN s \/ i = Len(s) + 1
            /\ r[Len(s) + 1] = Offer(g)
        BY <1>1, <4>1, AppendElements
      <4>3. r = session'.pending
        BY <4>1
      <4> HIDE DEF r
      <4> QED
        BY <4>2, <4>3 DEF Range
    <3>3. Offer(g).agent = Id(g)
      BY DEF Offer
    <3> QED
      BY <2>1, <3>1, <3>2, <3>3 DEF LetIn
  <2> QED
    BY <1>2, <2>2, <2>3, <2>4, <2>5
<1>13. session'.guests \subseteq closing' \cup {Id(g)' : g \in Agents}
  <2> DEFINE S == closing \cup {Id(g) : g \in Agents}
             T == closing' \cup {Id(g)' : g \in Agents}
  <2>1. session.guests \subseteq S
    BY <1>1 DEF SessionHasParties
  <2>2. CASE \E id \in Conns : HandlerEnds(id)
    <3>1. \A g \in Agents : Id(g)' = Id(g)
      BY <1>9, <2>2 DEF Id
    <3> QED
      BY <1>9, <2>1, <2>2, <3>1
  <2>3. ASSUME ConnsGo, \E id \in S : session'.guests \subseteq session.guests \cup {id}
        PROVE  session'.guests \subseteq T
    BY <2>1, <2>3 DEF ConnsGo
  <2>4. ASSUME ConnsGo, session'.guests \subseteq session.guests
        PROVE  session'.guests \subseteq T
    BY <2>1, <2>4 DEF ConnsGo
  <2>7. ASSUME NEW g \in Agents, session'.guests \subseteq session.guests \cup {Id(g)}
        PROVE  session'.guests \subseteq T
    BY <2>2, <2>3, <2>7, ConnsAre
  <2>8. ASSUME session'.guests \subseteq session.guests
        PROVE  session'.guests \subseteq T
    BY <2>2, <2>4, <2>8, ConnsAre
  <2>9. CASE session' = session
    BY <2>8, <2>9
  <2>10. CASE Tick \/ Edit \/ SilentEdit \/ Collect \/ Drop \/ DialFails \/ Dial
    BY <2>9, <2>10 DEF Tick, Edit, SilentEdit, Collect, Drop, DialFails, Dial
  <2>11. CASE (\E mode \in Modes : SetMode(mode)) \/ (\E w \in Windows : Reload(w))
    BY <2>9, <2>11 DEF SetMode, Reload
  <2>12. ASSUME NEW id \in Conns, Serve(id) PROVE session'.guests \subseteq T
    <3>1. session'.guests \subseteq session.guests
      BY <2>12, ServeIs DEF ServeReleases, ServePublishes, IsEmpty
    <3> QED
      BY <2>8, <3>1
  <2>13. ASSUME NEW id \in Conns, Lapse(id) PROVE session'.guests \subseteq T
    <3>1. session'.guests = session.guests
      BY <1>1, <2>13 DEF Lapse, Sessions
    <3> QED
      BY <2>8, <3>1
  <2>14. ASSUME NEW g \in Agents, Pull(g) \/ Poll(g) PROVE session'.guests \subseteq T
    <3>1. Set(Expire(Touch(session, Id(g)))) /\ Id(g) \in Conns
      BY <1>1, <2>14 DEF Pull, Poll, Clients
    <3> QED
      BY <2>7, <3>1, CallIs
  <2>15. ASSUME NEW g \in Agents, Push(g) \/ PushLost(g) PROVE session'.guests \subseteq T
    <3>1. session' = session \/ (Offered(g) /\ Reads(g))
      BY <2>15 DEF Push, PushLost, Reads
    <3>2. CASE Offered(g) /\ Reads(g)
      BY <2>7, <3>2, OfferedIs DEF LetIn
    <3> QED
      BY <2>9, <3>1, <3>2
  <2>16. ASSUME NEW g \in Agents, AgentLeaves(g) PROVE session'.guests \subseteq T
    <3>1. Set(Without(session, {Id(g)}))
      BY <2>16 DEF AgentLeaves
    <3> QED
      BY <2>8, <3>1, PartingIs
  <2>17. CASE (\E g \in Agents : TimeOut(g) \/ AgentDrop(g)) \/ UNCHANGED vars
    BY <2>9, <2>17 DEF TimeOut, AgentDrop, vars
  <2> QED
    BY <2>2, <2>10, <2>11, <2>12, <2>13, <2>14, <2>15, <2>16, <2>17 DEF Next
<1>14. \A i \in DOMAIN session'.pending : session'.pending[i].agent \in session'.guests
  BY <1>12 DEF Range
<1> QED
  BY <1>8, <1>10, <1>11, <1>12, <1>13, <1>14 DEF SessionHasParties

(* What happens to the proposals that wait, and to those on their way. *)
LEMMA AnswerStep ==
    ASSUME IInv, [Next]_vars
    PROVE  /\ Answer' \in Seq(Proposals)
           /\ Answer' = <<>> \/ Answer' = Answer
              \/ (Handed /\ Within(Answer', session.pending))
           /\ Collect => Answer' = <<>> /\ session' = session /\ offers' = offers
           /\ taken \subseteq taken' /\ (Collect \/ taken' = taken)
<1>1. Answer' \in Seq(Proposals)
  <2>1. WindowsTyped' /\ ConnsTyped'
    BY WindowsStep, ConnsStep
  <2>2. window'[open'] \in WindowStates
    BY <2>1 DEF WindowsTyped, ConnsTyped
  <2>3. <<>> \in Seq(Proposals)
    OBVIOUS
  <2> QED
    BY <2>2, <2>3 DEF Answer, WindowStates
<1>2. Answer' = <<>> \/ Answer' = Answer \/ (Handed /\ Within(Answer', session.pending))
  <2>1. AnswerGoes
    BY WindowGoes
  <2>2. CASE window'[open'].answer = None
    BY <2>2 DEF Answer
  <2>3. CASE open' = open /\ window'[open].answer = window[open].answer
    BY <2>3 DEF Answer
  <2>4. CASE open' = open /\ Handed
    <3>1. CASE window'[open].answer = None
      BY <2>4, <3>1 DEF Answer
    <3>2. CASE window'[open].answer # None
      BY <2>4, <3>2 DEF Answer, Handed
    <3> QED
      BY <3>1, <3>2
  <2> QED
    BY <2>1, <2>2, <2>3, <2>4 DEF AnswerGoes
<1>3. Collect => Answer' = <<>> /\ session' = session /\ offers' = offers
                 /\ taken \subseteq taken'
  <2> SUFFICES ASSUME Collect
               PROVE  Answer' = <<>> /\ session' = session /\ offers' = offers
                      /\ taken \subseteq taken'
    OBVIOUS
  <2>1. /\ window'[open].answer = None /\ open' = open /\ session' = session
        /\ offers' = offers /\ taken \subseteq taken'
    BY CollectIs
  <2> QED
    BY <2>1 DEF Answer
<1>4. Collect \/ taken' = taken
  BY WindowGoes DEF ReceiptsGo
<1> QED
  BY <1>1, <1>2, <1>3, <1>4

(* The proposals that wait stay, are handed over, or are one more. *)
Waiting == Range(session.pending)

LEMMA PendingStep ==
    ASSUME IInv, [Next]_vars
    PROVE  /\ session'.pending \in Seq(Proposals)
           /\ \/ offers' = offers /\ Within(session'.pending, session.pending)
                 /\ (session'.pending = <<>> \/ SessionStays)
              \/ \E g \in Agents :
                    /\ LetIn(g) /\ Answer' = Answer /\ taken' = taken
                    /\ Range(session'.pending) = Waiting \cup {Offer(g)}
                    /\ OnceEach(session'.pending)
<1>1. /\ session.pending \in Seq(Proposals) /\ session'.pending \in Seq(Proposals)
      /\ OnceEach(session.pending)
      /\ \A p \in Range(session.pending) : p.nonce <= offers
      /\ offers \in Nat
  BY SessionsStep, AnswerIs DEF SessionsTyped, Sessions, IInv, InOnePlace, TypeOK
<1>2. Within(<<>>, session.pending)
  BY <1>1, WithinItself
<1>3. CASE OfferIsLetIn
  <2>1. PICK g \in Agents : LetIn(g) /\ (Push(g) \/ PushLost(g))
    BY <1>3 DEF OfferIsLetIn
  <2>2. Answer' = Answer /\ taken' = taken
    BY <2>1 DEF Push, PushLost, Answer
  <2>3. Offer(g) \in Proposals /\ session'.pending = Append(session.pending, Offer(g))
        /\ Offer(g).nonce = offers + 1
    BY <2>1 DEF LetIn, Offer
  <2>4. \A q \in Range(session.pending) : q.nonce # Offer(g).nonce
    <3> SUFFICES ASSUME NEW q \in Range(session.pending), q.nonce = Offer(g).nonce
                 PROVE  FALSE
      OBVIOUS
    <3>1. q \in Proposals
      BY <1>1, ElementOfSeq, LenProperties DEF Range
    <3>2. q.nonce \in Int /\ q.nonce <= offers /\ q.nonce = offers + 1
      BY <1>1, <2>3, <3>1 DEF Proposals
    <3> QED
      BY <1>1, <3>2
  <2> QED
    BY <1>1, <2>1, <2>2, <2>3, <2>4, OneMore DEF Waiting
<1>4. CASE SessionStays
  BY <1>1, <1>4 DEF SessionStays, Keeps
<1>5. CASE SessionEnds
  BY <1>1, <1>2, <1>5 DEF SessionEnds, IsEmpty
<1>6. CASE HostPublishes
  BY <1>1, <1>2, <1>6 DEF HostPublishes, ServePublishes
<1> QED
  BY <1>3, <1>4, <1>5, <1>6, SessionStep

LEMMA InOnePlaceStep ==
    ASSUME IInv, [Next]_vars
    PROVE  InOnePlace'
<1> DEFINE P == Range(session.pending)
           A == Range(Answer)
           P1 == Range(session'.pending)
           A1 == Range(Answer')
<1>1. /\ OnceEach(session.pending) /\ OnceEach(Answer)
      /\ \A p \in P : /\ p.nonce <= offers
                      /\ \A a \in A : p.nonce # a.nonce
                      /\ \A t \in taken : p.nonce # t.nonce
      /\ \A a \in A : a.nonce <= offers /\ \A t \in taken : a.nonce # t.nonce
      /\ \A t \in taken : t.nonce <= offers
      /\ session.issued <= offers /\ offers \in Nat /\ session.issued \in Nat
  BY DEF IInv, InOnePlace, TypeOK, Sessions
<1>2. /\ Range(<<>>) = {} /\ OnceEach(<<>>)
      /\ \A p \in P \cup A : p.nonce \in Nat
      /\ \A t \in taken : t.nonce \in Nat
  <2>1. \A p \in P \cup A : p \in Proposals
    BY AnswerIs, ElementOfSeq, LenProperties DEF Range
  <2>2. \A t \in taken : t \in Replacements
    BY DEF IInv
  <2> QED
    BY <2>1, <2>2 DEF Proposals, Replacements, Range, OnceEach
<1>3. /\ Answer' = <<>> \/ Answer' = Answer
         \/ (Handed /\ Within(Answer', session.pending))
      /\ Collect => Answer' = <<>> /\ session' = session /\ offers' = offers
      /\ Collect \/ taken' = taken
  BY AnswerStep
<1>4. /\ session'.issued <= offers'
      /\ session'.issued \in Nat /\ offers' \in Nat /\ offers <= offers'
  <2>1. /\ session'.issued \in Nat /\ offers' \in Nat
    BY SessionsStep DEF SessionsTyped, Sessions
  <2>2. \/ offers' = offers /\ session'.issued \in {session.issued, 0}
        \/ offers' = offers + 1 /\ session'.issued = session.issued + 1
    BY SessionStep DEF SessionStays, Keeps, SessionEnds, IsEmpty, HostPublishes,
                       ServePublishes, OfferIsLetIn, LetIn
  <2> QED
    BY <1>1, <2>1, <2>2
<1>5. CASE Collect
  <2>1. Answer' = <<>> /\ session' = session /\ offers' = offers
    BY <1>3, <1>5
  <2>2. \A t \in taken' : t \in taken \/ \E a \in A : t.nonce = a.nonce
    BY <1>5, CollectIs, ChosenIs
  <2> HIDE DEF A
  <2> QED
    BY <1>1, <1>2, <2>1, <2>2 DEF InOnePlace
<1>6. CASE ~Collect /\ offers' = offers /\ Within(session'.pending, session.pending)
  <2>1. taken' = taken
    BY <1>3, <1>6
  <2>2. P1 \subseteq P /\ OnceEach(session'.pending)
    BY <1>1, <1>6 DEF Within
  <2>3. CASE Answer' = <<>> \/ Answer' = Answer
    <3>1. A1 \subseteq A /\ OnceEach(Answer')
      BY <1>1, <1>2, <2>3
    <3> HIDE DEF A, A1, P, P1
    <3>2. /\ \A p \in P1 : /\ p.nonce <= offers
                           /\ \A a \in A1 : p.nonce # a.nonce
                           /\ \A t \in taken : p.nonce # t.nonce
          /\ \A a \in A1 : a.nonce <= offers /\ \A t \in taken : a.nonce # t.nonce
      BY <1>1, <2>2, <3>1
    <3> QED
      BY <1>1, <1>4, <1>6, <2>1, <2>2, <3>1, <3>2 DEF InOnePlace, A1, P1
  <2>4. CASE Handed /\ Within(Answer', session.pending)
    <3>1. A1 \subseteq P /\ OnceEach(Answer') /\ P1 = {}
      BY <1>1, <1>2, <2>4 DEF Within, Handed
    <3> HIDE DEF A, A1, P, P1
    <3>2. \A a \in A1 : a.nonce <= offers /\ \A t \in taken : a.nonce # t.nonce
      BY <1>1, <3>1
    <3> QED
      BY <1>1, <1>4, <1>6, <2>1, <2>2, <3>1, <3>2 DEF InOnePlace, A1, P1
  <2> QED
    BY <1>3, <2>3, <2>4
<1>7. ASSUME NEW g \in Agents, LetIn(g), Answer' = Answer, taken' = taken,
             P1 = P \cup {Offer(g)}, OnceEach(session'.pending)
      PROVE  InOnePlace'
  <2>1. Offer(g).nonce = offers + 1 /\ offers' = offers + 1
    BY <1>7 DEF LetIn, Offer
  <2> HIDE DEF A, P
  <2>2. \A p \in P1 : p \in P \/ p.nonce = offers + 1
    BY <1>7, <2>1
  <2> HIDE DEF P1
  <2>3. \A p \in P1 : /\ p.nonce <= offers + 1
                      /\ \A a \in A : p.nonce # a.nonce
                      /\ \A t \in taken : p.nonce # t.nonce
    BY <1>1, <1>2, <2>2
  <2>4. /\ \A a \in A : a.nonce <= offers + 1 /\ \A t \in taken : a.nonce # t.nonce
        /\ \A t \in taken : t.nonce <= offers + 1
    BY <1>1, <1>2
  <2> QED
    BY <1>1, <1>4, <1>7, <2>1, <2>3, <2>4 DEF InOnePlace, A, P1
<1> QED
  BY <1>5, <1>6, <1>7, PendingStep DEF Waiting

(* A revision is told by a tick; it goes on with the requests and to the   *)
(* agents.                                                                 *)
LEMMA ToldStep ==
    ASSUME IInv, [Next]_vars, NEW r \in Nat, NEW d \in Docs, Told(r, d)'
    PROVE  \/ Told(r, d)
           \/ Tick /\ r = window[open].revision /\ d = window[open].doc
<1>1. CASE \E id \in Conns : \E m \in Range(wire'[id]) :
              m.op = "host" /\ m.revision = r /\ m.doc = d
  <2>1. PICK id \in Conns : \E m \in Range(wire'[id]) :
           m.op = "host" /\ m.revision = r /\ m.doc = d
    BY <1>1
  <2>2. PICK m \in Range(wire'[id]) : m.op = "host" /\ m.revision = r /\ m.doc = d
    BY <2>1
  <2>3. Relayed(id, m) \/ Sent(m)
    BY <2>2, WireStep DEF WireGoesOn
  <2>4. CASE Relayed(id, m)
    BY <2>2, <2>4 DEF Relayed, Alike, Told
  <2>5. CASE Sent(m)
    <3>1. m # Bye
      BY <2>2 DEF Bye
    <3>2. Tick /\ m = Shared(window[open], TRUE)
      BY <2>5, <3>1 DEF Sent
    <3> QED
      BY <2>2, <3>2, RequestsAre
  <2> QED
    BY <2>3, <2>4, <2>5
<1>2. CASE session'.host # None /\ session'.revision = r /\ session'.doc = d
  <2>1. CASE SessionStays \/ OfferIsLetIn
    BY <1>2, <2>1 DEF SessionStays, Keeps, OfferIsLetIn, LetIn, Told
  <2>2. CASE HostPublishes
    <3>1. PICK id \in Conns : Serve(id) /\ ServePublishes(id)
      BY <2>2 DEF HostPublishes
    <3>2. Head(wire[id]) \in Range(wire[id])
      BY <3>1, ServeIs
    <3> QED
      BY <1>2, <3>1, <3>2 DEF ServePublishes, Told
  <2>3. CASE SessionEnds
    BY <1>2, <2>3 DEF SessionEnds, IsEmpty
  <2> QED
    BY <2>1, <2>2, <2>3, SessionStep
<1>3. CASE \E g \in Agents : Reads(g)' /\ agent'[g].base = r /\ agent'[g].read = d
  <2>1. PICK g \in Agents : Reads(g)' /\ agent'[g].base = r /\ agent'[g].read = d
    BY <1>3
  <2>2. AgentGoes(g)
    BY AgentsGo
  <2> QED
    BY <2>1, <2>2 DEF AgentGoes, Reads, Told
<1> QED
  BY <1>1, <1>2, <1>3 DEF Told

LEMMA QuietStays ==
    ASSUME IInv, [Next]_vars, Quiet'
    PROVE  Quiet
BY SessionStep DEF Quiet

LEMMA RevisionsStep ==
    ASSUME IInv, [Next]_vars
    PROVE  RevisionsTell'
<1> SUFFICES ASSUME Quiet', NEW r \in Nat, NEW d \in Docs, Told(r, d)'
             PROVE  /\ r <= window'[open'].revision
                    /\ r = window'[open'].revision /\ Sharing' => d = window'[open'].doc
                    /\ \A e \in Docs : Told(r, e)' => d = e
  BY DEF RevisionsTell
<1>1. /\ window[open].revision \in Nat /\ window'[open'].revision \in Nat
      /\ window[open].doc \in Docs
  <2>1. WindowsTyped' /\ ConnsTyped'
    BY WindowsStep, ConnsStep
  <2>2. window'[open'] \in WindowStates /\ window[open] \in WindowStates
    BY <2>1 DEF WindowsTyped, ConnsTyped, IInv, TypeOK
  <2> QED
    BY <2>2 DEF WindowStates
<1>2. \A s \in Nat, e \in Docs : Told(s, e) =>
         /\ s <= window[open].revision
         /\ s = window[open].revision /\ Sharing => e = window[open].doc
         /\ \A f \in Docs : Told(s, f) => e = f
  BY QuietStays DEF IInv, RevisionsTell
<1>3. Tick => Sharing
  BY DEF Tick
<1>4. ASSUME NEW e \in Docs, Told(r, e)'
      PROVE  Told(r, e) \/ (Tick /\ r = window[open].revision /\ e = window[open].doc)
  BY <1>4, ToldStep
<1>5. ASSUME NEW e \in Docs, Told(r, e)'
      PROVE  /\ r <= window[open].revision
             /\ r = window[open].revision /\ Sharing => e = window[open].doc
  BY <1>1, <1>2, <1>4, <1>5
<1>6. \A e \in Docs : Told(r, e)' => d = e
  BY <1>2, <1>3, <1>4, <1>5
<1>7. /\ open' = open
      /\ \/ window'[open].revision > window[open].revision
         \/ /\ window'[open].revision = window[open].revision
            /\ Sharing' => Sharing /\ window'[open].doc = window[open].doc
  BY WindowGoes DEF RevisionGoes
<1> QED
  BY <1>1, <1>5, <1>6, <1>7

(* What is in hand was in hand, or is let in. *)
LEMMA HeldStep ==
    ASSUME IInv, [Next]_vars
    PROVE  \/ Held' \subseteq Held
           \/ \E g \in Agents : LetIn(g) /\ Held' \subseteq Held \cup {Offer(g)}
<1>1. Range(<<>>) = {}
  BY DEF Range
<1>2. Range(Answer') \subseteq Held
  BY <1>1, AnswerStep DEF Within, Held
<1> QED
  BY <1>2, PendingStep DEF Within, Held, Waiting

LEMMA FairStep ==
    ASSUME IInv, [Next]_vars, Quiet'
    PROVE  AllFair'
<1>1. AllFair /\ RevisionsTell /\ Quiet
  BY QuietStays DEF IInv, QuietIsFair
<1>2. ASSUME NEW g \in Agents, LetIn(g) PROVE Fair(Offer(g))
  <2>1. /\ Told(session.revision, agent[g].read) \/ ~Reads(g)
        /\ Told(session.revision, session.doc)
        /\ session.revision \in Nat /\ session.doc \in Docs /\ agent[g].read \in Docs
    BY <1>2 DEF LetIn, Told, IInv, TypeOK, Sessions
  <2>2. Reads(g)
    BY <1>2 DEF LetIn
  <2>3. agent[g].read = session.doc
    BY <1>1, <2>1, <2>2 DEF RevisionsTell
  <2> QED
    BY <2>3 DEF Fair, Offer
<1>3. \A p \in Held' : Fair(p)
  BY <1>1, <1>2, HeldStep DEF AllFair
<1>4. \A t \in taken' : Fair(t)
  <2>1. CASE taken' = taken
    BY <1>1, <2>1 DEF AllFair
  <2>2. CASE Collect
    <3>1. \A p \in Range(Chosen) : Fair(p)
      BY <1>1, ChosenIs DEF AllFair, Held
    <3> QED
      BY <1>1, <2>2, <3>1, CollectIs DEF AllFair, Fair
  <2> QED
    BY <2>1, <2>2, AnswerStep
<1> QED
  BY <1>3, <1>4 DEF AllFair

(* A receipt somebody has was one before, or is for what is taken now. *)
LEMMA ReceiptedStep ==
    ASSUME IInv, [Next]_vars, NEW n \in 1 .. MaxOffers, Receipted(n)'
    PROVE  \/ Receipted(n) /\ (SessionEnds => Remembered)
           \/ Collect /\ \E p \in Range(Chosen) : p.id = n
<1>1. /\ wire \in [Conns -> Seq(Requests)] /\ window[open] \in WindowStates
  BY DEF IInv, TypeOK
<1>2. ASSUME n \in Range(window[open].receipts) PROVE Receipted(n) /\ Remembered
  BY <1>2 DEF Receipted, Remembered, Range
<1>3. ASSUME NEW id \in Conns, NEW m \in Range(wire[id]), n \in Range(m.applied)
      PROVE  Receipted(n) /\ Remembered
  <2>1. PICK i \in DOMAIN wire[id] : m = wire[id][i]
    BY <1>3 DEF Range
  <2>2. m.applied # <<>>
    BY <1>3 DEF Range
  <2> QED
    BY <1>3, <2>1, <2>2 DEF Receipted, Remembered
<1>4. CASE n \in Range(window'[open'].receipts)
  <2>1. CASE Collect
    <3>1. open' = open /\ n \in Range(window[open].receipts) \cup {p.id : p \in Range(Chosen)}
      BY <1>4, <2>1, CollectIs
    <3> QED
      BY <1>2, <2>1, <3>1
  <2>2. CASE ~Collect
    BY <1>2, <1>4, <2>2, WindowGoes DEF ReceiptsGo
  <2> QED
    BY <2>1, <2>2
<1>5. CASE \E id \in Conns : \E m \in Range(wire'[id]) : n \in Range(m.applied)
  <2>1. PICK id \in Conns : \E m \in Range(wire'[id]) : n \in Range(m.applied)
    BY <1>5
  <2>2. PICK m \in Range(wire'[id]) : n \in Range(m.applied)
    BY <2>1
  <2>3. Relayed(id, m) \/ Sent(m)
    BY <2>2, WireStep DEF WireGoesOn
  <2>4. CASE Relayed(id, m)
    <3>1. PICK k \in Range(wire[id]) : m.applied = k.applied
      BY <2>4 DEF Relayed, Alike
    <3> QED
      BY <1>3, <2>2, <3>1
  <2>5. CASE Sent(m)
    <3>1. m # Bye
      BY <2>2 DEF Bye, Range
    <3>2. m = Shared(window[open], TRUE)
      BY <2>5, <3>1 DEF Sent
    <3>3. m.applied = window[open].receipts
      BY <3>2, RequestsAre
    <3> QED
      BY <1>2, <2>2, <3>3
  <2> QED
    BY <2>3, <2>4, <2>5
<1>6. CASE n \in Range(session'.applied)
  <2>1. CASE SessionStays \/ OfferIsLetIn
    <3>1. session'.applied = session.applied /\ (SessionEnds => session'.applied = <<>>)
      BY <2>1 DEF SessionStays, Keeps, OfferIsLetIn, LetIn, SessionEnds, IsEmpty
    <3> QED
      BY <1>6, <3>1 DEF Receipted, Range
  <2>2. CASE HostPublishes
    <3>1. PICK id \in Conns : Serve(id) /\ ServePublishes(id)
      BY <2>2 DEF HostPublishes
    <3>2. /\ Head(wire[id]) \in Range(wire[id])
          /\ session'.applied = Head(wire[id]).applied
      BY <3>1, ServeIs DEF ServePublishes
    <3> QED
      BY <1>3, <1>6, <3>2
  <2>3. CASE SessionEnds
    BY <1>6, <2>3 DEF SessionEnds, IsEmpty, Range
  <2> QED
    BY <2>1, <2>2, <2>3, SessionStep
<1> QED
  BY <1>4, <1>5, <1>6 DEF Receipted

(* A name was one before, or is that of the proposal let in. *)
LEMMA NamesStep ==
    ASSUME IInv, [Next]_vars, NEW n, NEW m, Names(n, m)'
    PROVE  \/ Names(n, m) /\ (SessionEnds => Remembered)
           \/ /\ n = session.issued + 1 /\ m = offers + 1
              /\ \E g \in Agents : LetIn(g)
<1>1. Range(<<>>) = {}
  BY DEF Range
<1>2. ASSUME NEW a \in Range(Answer) PROVE Remembered
  <2>1. window[open].answer # None /\ window[open].answer # <<>>
    BY <1>1, <1>2 DEF Answer
  <2> QED
    BY <2>1 DEF Remembered
<1>3. ASSUME NEW p \in Range(session'.pending), p.id = n, p.nonce = m
      PROVE  \/ Names(n, m) /\ ~SessionEnds
             \/ /\ n = session.issued + 1 /\ m = offers + 1
                /\ \E g \in Agents : LetIn(g)
  <2>1. ~SessionEnds
    BY <1>1, <1>3 DEF SessionEnds, IsEmpty
  <2>2. CASE p \in Range(session.pending)
    BY <1>3, <2>1, <2>2 DEF Names
  <2>3. CASE p \notin Range(session.pending)
    <3>1. PICK g \in Agents : LetIn(g) /\ Range(session'.pending) = Waiting \cup {Offer(g)}
      BY <1>3, <2>3, PendingStep DEF Within
    <3>2. p = Offer(g)
      BY <1>3, <2>3, <3>1 DEF Waiting
    <3> QED
      BY <1>3, <3>1, <3>2 DEF Offer
  <2> QED
    BY <2>2, <2>3
<1>4. ASSUME NEW a \in Range(Answer'), a.id = n, a.nonce = m
      PROVE  Names(n, m) /\ (SessionEnds => Remembered)
  <2>1. CASE Answer' = Answer
    BY <1>2, <1>4, <2>1 DEF Names
  <2>2. CASE Handed /\ Within(Answer', session.pending)
    <3>1. ~SessionEnds
      <4>1. HostPublishes
        BY <2>2 DEF Handed
      <4>2. PICK id \in Conns : session'.host = id
        BY <4>1 DEF HostPublishes, ServePublishes
      <4> QED
        BY <4>2, LiveAssumption DEF SessionEnds, IsEmpty
    <3>2. a \in Range(session.pending)
      BY <1>4, <2>2 DEF Within
    <3> QED
      BY <1>4, <3>1, <3>2 DEF Names
  <2>3. Answer' # <<>>
    BY <1>1, <1>4
  <2> QED
    BY <2>1, <2>2, <2>3, AnswerStep
<1>5. ASSUME NEW g \in Agents, agent'[g].at = "waiting", agent'[g].id = n,
             agent'[g].nonce = m
      PROVE  \/ Names(n, m) /\ (SessionEnds => Remembered)
             \/ /\ n = session.issued + 1 /\ m = offers + 1
                /\ LetIn(g)
  BY <1>5, AgentsGo DEF AgentGoes, Names, Remembered
<1> QED
  BY <1>3, <1>4, <1>5 DEF Names

(* Numbers are given out again only when nobody knows the old ones. *)
LEMMA NumbersStep ==
    ASSUME IInv, [Next]_vars, "renumbered" \notin happened'
    PROVE  NumbersName'
<1> DEFINE N == 1 .. MaxOffers
<1>1. /\ \A n, m \in N : Names(n, m) =>
            n <= session.issued /\ \A k \in N : Names(n, k) => m = k
      /\ \A n \in N : Receipted(n) => n <= session.issued
      /\ \A g \in Agents : agent[g].at = "waiting" =>
            /\ agent[g].id >= 1 /\ agent[g].nonce >= 1
            /\ \A n \in N : n = agent[g].id /\ Receipted(n) => agent[g].nonce \in Nonces
  BY SessionStep DEF IInv, NumbersName
<1>2. /\ session.issued \in Nat /\ offers \in Nat /\ session'.issued \in Nat
      /\ agent \in [Agents -> AgentStates] /\ agent' \in [Agents -> AgentStates]
  BY SessionsStep, AgentsStep DEF IInv, TypeOK, Sessions, SessionsTyped
<1>3. \A g \in Agents : /\ agent[g].id \in 0 .. MaxOffers /\ agent[g].nonce \in 0 .. MaxOffers
                        /\ agent'[g].id \in 0 .. MaxOffers
                        /\ agent'[g].nonce \in 0 .. MaxOffers
  BY <1>2 DEF AgentStates
<1>4. \A p \in Range(Chosen) : /\ p.id \in N /\ p.nonce \in N
                               /\ Names(p.id, p.nonce) /\ Remembered
  <2> SUFFICES ASSUME NEW p \in Range(Chosen)
               PROVE  /\ p.id \in N /\ p.nonce \in N
                      /\ Names(p.id, p.nonce) /\ Remembered
    OBVIOUS
  <2>1. p \in Range(Answer) /\ p \in Proposals
    BY ChosenIs DEF Range
  <2>2. window[open].answer # None /\ window[open].answer # <<>>
    BY <2>1 DEF Answer, Range
  <2> QED
    BY <2>1, <2>2 DEF Names, Remembered, Proposals
<1>5. Nonces \subseteq Nonces' /\ (Collect => \A p \in Range(Chosen) : p.nonce \in Nonces')
  BY AnswerStep, CollectIs DEF Nonces
<1>6. ASSUME NEW g \in Agents, LetIn(g)
      PROVE  session'.issued = session.issued + 1 /\ ~SessionEnds /\ ~Collect
  <2>1. session'.issued = session.issued + 1
    BY <1>6 DEF LetIn
  <2>2. ~SessionEnds
    BY <1>2, <2>1 DEF SessionEnds, IsEmpty
  <2>3. ~Collect
    BY <1>2, <2>1, AnswerStep
  <2> QED
    BY <2>1, <2>2, <2>3
<1>7. ASSUME NEW g \in Agents, agent'[g].at = "waiting"
      PROVE  \/ /\ agent[g].at = "waiting" /\ agent'[g].id = agent[g].id
                /\ agent'[g].nonce = agent[g].nonce /\ Names(agent[g].id, agent[g].nonce)
                /\ Remembered
             \/ /\ LetIn(g) /\ agent'[g].id = session.issued + 1
                /\ agent'[g].nonce = offers + 1
  BY <1>7, AgentsGo DEF AgentGoes, Names, Remembered
<1>8. CASE SessionEnds
  <2>1. session.issued = 0 \/ ~Remembered
    BY <1>8 DEF SessionEnds
  <2>2. \A n, m \in N : ~(Names(n, m) /\ Remembered)
    BY <1>1, <2>1
  <2>3. \A n, m \in N : ~Names(n, m)'
    BY <1>6, <1>8, <2>2, NamesStep
  <2>4. \A n \in N : ~Receipted(n)'
    BY <1>1, <1>4, <1>8, <2>1, ReceiptedStep
  <2>5. \A g \in Agents : agent'[g].at # "waiting"
    <3> SUFFICES ASSUME NEW g \in Agents, agent'[g].at = "waiting" PROVE FALSE
      OBVIOUS
    <3>1. Names(agent[g].id, agent[g].nonce) /\ Remembered /\ agent[g].at = "waiting"
      BY <1>6, <1>7, <1>8
    <3>2. agent[g].id \in N /\ agent[g].nonce \in N
      BY <1>1, <1>3, <3>1
    <3> QED
      BY <2>2, <3>1, <3>2
  <2> QED
    BY <2>3, <2>4, <2>5 DEF NumbersName
<1>9. CASE ~SessionEnds
  <2>1. \/ session'.issued = session.issued
        \/ session'.issued = session.issued + 1
    BY <1>9, SessionStep DEF SessionStays, Keeps, HostPublishes, ServePublishes,
                             OfferIsLetIn, LetIn
  <2>2. session.issued <= session'.issued
    BY <1>2, <2>1
  <2>3. ASSUME NEW n \in N, NEW m \in N, Names(n, m)'
        PROVE  n <= session'.issued /\ \A k \in N : Names(n, k)' => m = k
    <3>1. ASSUME NEW k \in N, Names(n, k)'
          PROVE  \/ Names(n, k) /\ n <= session.issued
                 \/ n = session.issued + 1 /\ k = offers + 1 /\ \E g \in Agents : LetIn(g)
      BY <1>1, <3>1, NamesStep
    <3>2. n <= session'.issued
      BY <1>2, <1>6, <2>2, <2>3, <3>1
    <3>3. ASSUME NEW k \in N, Names(n, k)' PROVE m = k
      <4>1. \/ Names(n, k) /\ n <= session.issued
            \/ n = session.issued + 1 /\ k = offers + 1
        BY <3>1, <3>3
      <4>2. \/ Names(n, m) /\ n <= session.issued
            \/ n = session.issued + 1 /\ m = offers + 1
        BY <2>3, <3>1
      <4> QED
        BY <1>1, <1>2, <4>1, <4>2
    <3> QED
      BY <3>2, <3>3
  <2>4. ASSUME NEW n \in N, Receipted(n)'
        PROVE  /\ n <= session.issued
               /\ \/ Receipted(n)
                  \/ Collect /\ \E p \in Range(Chosen) : p.id = n
    BY <1>1, <1>4, <2>4, ReceiptedStep
  <2>5. ASSUME NEW g \in Agents, agent'[g].at = "waiting"
        PROVE  /\ agent'[g].id >= 1 /\ agent'[g].nonce >= 1
               /\ \A n \in N : n = agent'[g].id /\ Receipted(n)'
                                => agent'[g].nonce \in Nonces'
    <3>1. CASE /\ agent[g].at = "waiting" /\ agent'[g].id = agent[g].id
               /\ agent'[g].nonce = agent[g].nonce /\ Names(agent[g].id, agent[g].nonce)
      <4>1. agent[g].id \in N /\ agent[g].nonce \in N
        BY <1>1, <1>3, <3>1
      <4>2. ASSUME NEW n \in N, n = agent[g].id, Receipted(n)'
            PROVE  agent[g].nonce \in Nonces'
        <5>1. CASE Receipted(n)
          BY <1>1, <1>5, <3>1, <4>2, <5>1
        <5>2. CASE Collect /\ \E p \in Range(Chosen) : p.id = n
          BY <1>1, <1>4, <1>5, <3>1, <4>1, <4>2, <5>2
        <5> QED
          BY <2>4, <4>2, <5>1, <5>2
      <4> QED
        BY <1>1, <3>1, <4>2
    <3>2. CASE LetIn(g) /\ agent'[g].id = session.issued + 1 /\ agent'[g].nonce = offers + 1
      <4>1. agent'[g].id \in N /\ ~(agent'[g].id <= session.issued)
        BY <1>2, <1>3, <3>2
      <4>2. \A n \in N : ~(n = agent'[g].id /\ Receipted(n)')
        BY <2>4, <4>1
      <4> QED
        BY <1>2, <3>2, <4>2
    <3> QED
      BY <1>7, <2>5, <3>1, <3>2
  <2> QED
    BY <2>2, <2>3, <2>4, <2>5, <1>2 DEF NumbersName
<1> QED
  BY <1>8, <1>9

LEMMA AdoptedStep ==
    ASSUME IInv, [Next]_vars
    PROVE  AdoptedMeansApplied'
<1> SUFFICES ASSUME "renumbered" \notin happened', NEW g \in Agents,
                    agent'[g].at = "adopted"
             PROVE  \E t \in taken' : t.nonce = agent'[g].nonce
  BY DEF AdoptedMeansApplied, Receipt
<1>1. "renumbered" \notin happened
  BY SessionStep
<1>2. taken \subseteq taken'
  BY AnswerStep
<1>3. agent'[g] = agent[g]
      \/ (/\ agent[g].at = "waiting" /\ agent[g].id \in Range(session.applied)
          /\ agent'[g].nonce = agent[g].nonce)
  BY AgentsGo DEF AgentGoes
<1>4. \E t \in taken : t.nonce = agent'[g].nonce
  <2>1. CASE agent'[g] = agent[g]
    BY <1>1, <2>1 DEF IInv, AdoptedMeansApplied, Receipt
  <2>2. CASE /\ agent[g].at = "waiting" /\ agent[g].id \in Range(session.applied)
             /\ agent'[g].nonce = agent[g].nonce
    <3>1. agent[g].id \in 1 .. MaxOffers
      <4>1. agent[g].id \in 0 .. MaxOffers /\ agent[g].id >= 1
        BY <1>1, <2>2 DEF IInv, NumbersName, TypeOK, AgentStates
      <4> QED
        BY <4>1
    <3>2. Receipted(agent[g].id)
      BY <2>2 DEF Receipted
    <3> QED
      BY <1>1, <2>2, <3>1, <3>2 DEF IInv, NumbersName, Nonces
  <2> QED
    BY <1>3, <2>1, <2>2
<1> QED
  BY <1>2, <1>4
-----------------------------------------------------------------------------
(* The theorems.                                                           *)

LEMMA InitInv ==
    ASSUME Init
    PROVE  IInv
<1>1. /\ conn = [c \in Clients |-> 1] /\ open \in Windows /\ up = FALSE /\ closing = {}
      /\ wire = [id \in Conns |-> <<>>] /\ session = Empty
      /\ agent = [g \in Agents |-> NewAgent] /\ docs = 0 /\ offers = 0 /\ taken = {}
      /\ happened = {} /\ mishaps = MaxMishaps
  BY DEF Init
<1>2. PICK mode \in Modes : window = [w \in Windows |-> NewWindow(mode, 0)]
  BY DEF Init
<1>3. /\ 0 \in Docs /\ docs <= MaxDocs /\ 1 \in 1 .. MaxConns /\ 0 \in 0 .. MaxOffers
      /\ mishaps \in 0 .. MaxMishaps /\ Memory \in Nat /\ MaxPending \in Nat
      /\ <<>> \in Seq(Requests) /\ Len(<<>>) = 0 /\ Range(<<>>) = {} /\ DOMAIN <<>> = {}
  BY <1>1, LiveAssumption DEF Docs, Range
<1>4. /\ NewWindow(mode, 0) \in WindowStates /\ NewWindow(mode, 0).receipts = <<>>
      /\ NewWindow(mode, 0).answer = None
  BY <1>3, NewWindowIs
<1>5. NewAgent \in AgentStates /\ NewAgent.at = "idle"
  BY <1>3 DEF NewAgent, AgentStates, Between
<1>6. /\ window \in [Windows -> WindowStates]
      /\ \A w \in Windows : window[w].receipts = <<>> /\ window[w].answer = None
  <2> DEFINE v == NewWindow(mode, 0)
  <2>1. v \in WindowStates /\ v.receipts = <<>> /\ v.answer = None
    BY <1>4
  <2>2. window = [w \in Windows |-> v]
    BY <1>2
  <2> HIDE DEF v
  <2> QED
    BY <2>1, <2>2
<1>7. /\ agent \in [Agents -> AgentStates] /\ \A g \in Agents : agent[g].at = "idle"
  <2> DEFINE v == NewAgent
  <2>1. agent = [g \in Agents |-> v] /\ v \in AgentStates /\ v.at = "idle"
    BY <1>1, <1>5
  <2> HIDE DEF v
  <2> QED
    BY <2>1
<1>8. /\ conn \in [Clients -> 1 .. MaxConns] /\ wire \in [Conns -> Seq(Requests)]
      /\ \A id \in Conns : wire[id] = <<>>
  BY <1>1, <1>3
<1>9. /\ session \in Sessions /\ session.host = None /\ session.doc = None
      /\ session.applied = <<>> /\ session.pending = <<>> /\ session.issued = 0
      /\ session.guests = {} /\ session.lapsed = {}
  BY <1>1, EmptyIs
<1>10. TypeOK
  <2>1. /\ open \in Windows /\ up \in BOOLEAN /\ closing \subseteq Conns
        /\ docs \in Docs /\ offers \in 0 .. MaxOffers /\ mishaps \in 0 .. MaxMishaps
        /\ happened \subseteq {"silentEdit", "newWindow", "renumbered"}
        /\ \A c \in Clients : Id(c) \notin closing
    BY <1>1, <1>3
  <2>2. /\ \A w \in Windows : Len(window[w].receipts) <= Memory
        /\ Len(session.pending) <= MaxPending
    BY <1>3, <1>6, <1>9
  <2> QED
    BY <1>6, <1>7, <1>8, <1>9, <2>1, <2>2 DEF TypeOK
<1>11. Answer = <<>>
  BY <1>1, <1>6 DEF Answer
<1>12. \A id \in Conns : Range(wire[id]) = {}
  BY <1>3, <1>8
<1>13. GoneAreOld /\ HostIsServed /\ DocsAreTold
  <2>1. Id(open) # None
    BY <1>8, <1>10, LiveAssumption DEF Id, Conns, Clients, TypeOK
  <2> QED
    BY <1>1, <1>7, <1>9, <1>12, <2>1 DEF GoneAreOld, HostIsServed, DocsAreTold, Reads
<1>14. SessionHasParties
  BY <1>1, <1>3, <1>9 DEF SessionHasParties
<1>15. InOnePlace /\ taken \subseteq Replacements
  BY <1>1, <1>3, <1>9, <1>11 DEF InOnePlace, OnceEach
<1>16. DocsAreBudgeted
  <2>1. Nonces = {}
    BY <1>1 DEF Nonces
  <2>2. Cardinality(Nonces) = 0
    BY <2>1, FS_EmptySet
  <2> QED
    BY <1>1, <2>2, LiveAssumption DEF DocsAreBudgeted
<1>17. \A r \in Nat, d \in Docs : ~Told(r, d)
  BY <1>7, <1>9, <1>12 DEF Told, Reads
<1>18. RevisionsTell /\ QuietIsFair
  BY <1>1, <1>3, <1>9, <1>11, <1>17 DEF RevisionsTell, QuietIsFair, AllFair, Held
<1>19. NumbersName /\ AdoptedMeansApplied
  <2>1. \A n \in 1 .. MaxOffers : ~Receipted(n)
    BY <1>1, <1>3, <1>6, <1>9, <1>12 DEF Receipted
  <2>2. \A n, m \in 1 .. MaxOffers : ~Names(n, m)
    BY <1>3, <1>7, <1>9, <1>11 DEF Names
  <2> QED
    BY <1>7, <2>1, <2>2 DEF NumbersName, AdoptedMeansApplied, Receipt
<1> QED
  BY <1>10, <1>13, <1>14, <1>15, <1>16, <1>18, <1>19 DEF IInv

LEMMA InHandIs ==
    ASSUME IInv
    PROVE  Range(InHand) = Range(session.pending) \cup Range(Answer)
<1> DEFINE s == session.pending
           a == Answer
           r == s \o a
<1>1. s \in Seq(Proposals) /\ a \in Seq(Proposals)
  BY AnswerIs
<1>2. InHand = r
  BY DEF InHand, Answer
<1> HIDE DEF s, a
<1>3. /\ r \in Seq(Proposals) /\ Len(r) = Len(s) + Len(a)
      /\ Len(s) \in Nat /\ Len(a) \in Nat
      /\ DOMAIN s = 1 .. Len(s) /\ DOMAIN a = 1 .. Len(a) /\ DOMAIN r = 1 .. Len(r)
      /\ \A i \in 1 .. Len(s) + Len(a) :
            r[i] = IF i <= Len(s) THEN s[i] ELSE a[i - Len(s)]
  BY <1>1, ConcatProperties, LenProperties
<1> HIDE DEF r
<1>4. ASSUME NEW x \in Range(r) PROVE x \in Range(s) \cup Range(a)
  <2>1. PICK i \in 1 .. Len(s) + Len(a) : x = r[i]
    BY <1>3 DEF Range
  <2>2. CASE i <= Len(s)
    BY <1>3, <2>1, <2>2 DEF Range
  <2>3. CASE ~(i <= Len(s))
    <3>1. i - Len(s) \in DOMAIN a /\ x = a[i - Len(s)]
      BY <1>3, <2>1, <2>3
    <3> QED
      BY <3>1 DEF Range
  <2> QED
    BY <2>2, <2>3
<1>5. ASSUME NEW x \in Range(s) PROVE x \in Range(r)
  <2>1. PICK i \in 1 .. Len(s) : x = s[i]
    BY <1>3 DEF Range
  <2>2. i \in DOMAIN r /\ r[i] = x
    BY <1>3, <2>1
  <2> QED
    BY <2>2 DEF Range
<1>6. ASSUME NEW x \in Range(a) PROVE x \in Range(r)
  <2>1. PICK i \in 1 .. Len(a) : x = a[i]
    BY <1>3 DEF Range
  <2>2. Len(s) + i \in DOMAIN r /\ r[Len(s) + i] = x
    BY <1>3, <2>1
  <2> QED
    BY <2>2 DEF Range
<1> QED
  BY <1>2, <1>4, <1>5, <1>6 DEF s, a

LEMMA NextInv ==
    ASSUME IInv, [Next]_vars
    PROVE  IInv'
<1>1. /\ TypeOK' /\ taken' \subseteq Replacements /\ GoneAreOld' /\ DocsAreBudgeted'
      /\ DocsAreTold' /\ HostIsServed' /\ SessionHasParties'
      /\ InOnePlace' /\ RevisionsTell' /\ AdoptedMeansApplied'
  BY TypeStep, PartiesStep, InOnePlaceStep, RevisionsStep, AdoptedStep
<1>2. QuietIsFair'
  BY FairStep DEF QuietIsFair
<1>3. NumbersName'
  BY NumbersStep DEF NumbersName
<1> QED
  BY <1>1, <1>2, <1>3 DEF IInv

(* The inductive invariant holds in every state that can be reached.       *)
THEOREM LiveInvariance == Spec => []IInv
<1>1. Init => IInv
  BY InitInv
<1>2. IInv /\ [Next]_vars => IInv'
  BY NextInv
<1> QED
  BY <1>1, <1>2, PTL DEF Spec

(* Every variable keeps its type: the queues are as short as the code      *)
(* keeps them (MAX_PENDING, MAX_RECEIPTS), and no connection that is gone  *)
(* is somebody's connection still.                                         *)
THEOREM LiveTypeCorrect == Spec => []TypeOK
<1>1. IInv => TypeOK
  BY DEF IInv
<1> QED
  BY <1>1, LiveInvariance, PTL

(* poll() takes what it returns and collect() applies what it is given: no *)
(* proposal is with the session and on its way, or taken twice.            *)
THEOREM HandsOverOnce == Spec => []HandedOverOnce
<1>1. IInv => HandedOverOnce
  <2> SUFFICES ASSUME IInv PROVE HandedOverOnce
    OBVIOUS
  <2> DEFINE s == session.pending
             a == Answer
             r == s \o a
  <2>1. /\ s \in Seq(Proposals) /\ a \in Seq(Proposals) /\ InHand = r
    BY AnswerIs DEF InHand, Answer
  <2>2. /\ OnceEach(s) /\ OnceEach(a)
        /\ \A i \in DOMAIN s : \A j \in DOMAIN a : s[i].nonce # a[j].nonce
        /\ \A i \in DOMAIN s : \A t \in taken : s[i].nonce # t.nonce
        /\ \A j \in DOMAIN a : \A t \in taken : a[j].nonce # t.nonce
    BY DEF IInv, InOnePlace, Range
  <2> HIDE DEF s, a
  <2>3. /\ Len(r) = Len(s) + Len(a) /\ r \in Seq(Proposals)
        /\ Len(s) \in Nat /\ Len(a) \in Nat
        /\ DOMAIN s = 1 .. Len(s) /\ DOMAIN a = 1 .. Len(a) /\ DOMAIN r = 1 .. Len(r)
        /\ \A i \in 1 .. Len(s) + Len(a) :
              r[i] = IF i <= Len(s) THEN s[i] ELSE a[i - Len(s)]
    BY <2>1, ConcatProperties, LenProperties
  <2> HIDE DEF r
  <2>4. \A i \in DOMAIN r :
           \/ i \in DOMAIN s /\ r[i] = s[i]
           \/ /\ i \in Int /\ i > Len(s)
              /\ i - Len(s) \in DOMAIN a /\ r[i] = a[i - Len(s)]
    BY <2>3
  <2>5. \A i, j \in DOMAIN r : r[i].nonce = r[j].nonce => i = j
    <3> SUFFICES ASSUME NEW i \in DOMAIN r, NEW j \in DOMAIN r, r[i].nonce = r[j].nonce
                 PROVE  i = j
      OBVIOUS
    <3>1. CASE i \in DOMAIN s /\ r[i] = s[i]
      BY <2>2, <2>4, <3>1 DEF OnceEach
    <3>2. CASE i \in Int /\ i - Len(s) \in DOMAIN a /\ r[i] = a[i - Len(s)]
      <4>1. ~(j \in DOMAIN s /\ r[j] = s[j])
        BY <2>2, <3>2
      <4>2. j \in Int /\ j - Len(s) \in DOMAIN a /\ r[j] = a[j - Len(s)]
        BY <2>4, <4>1
      <4>3. i - Len(s) = j - Len(s)
        BY <2>2, <3>2, <4>2 DEF OnceEach
      <4> QED
        BY <2>3, <3>2, <4>2, <4>3
    <3> QED
      BY <2>4, <3>1, <3>2
  <2>6. \A i \in DOMAIN r : \A t \in taken : r[i].nonce # t.nonce
    BY <2>2, <2>4
  <2> QED
    BY <2>1, <2>5, <2>6 DEF HandedOverOnce
<1> QED
  BY <1>1, LiveInvariance, PTL

(* propose() compares revisions; that is enough to refuse what was written *)
(* against another document, as long as every change is counted.           *)
THEOREM StaleRefused == Spec => []StaleIsRefused
<1>1. IInv => StaleIsRefused
  <2> SUFFICES ASSUME IInv, Quiet
               PROVE  /\ \A i \in DOMAIN InHand : InHand[i].read = InHand[i].held
                      /\ \A t \in taken : t.read = t.held
    BY DEF StaleIsRefused, Quiet
  <2>1. AllFair
    BY DEF IInv, QuietIsFair
  <2>2. \A i \in DOMAIN InHand : InHand[i] \in Held
    BY InHandIs DEF Held, Range
  <2> QED
    BY <2>1, <2>2 DEF AllFair, Fair
<1> QED
  BY <1>1, LiveInvariance, PTL

(* release() and handle()'s finally leave nothing of a host or a guest     *)
(* that has gone.                                                          *)
THEOREM PartiesKept == Spec => []SessionHasParties
<1>1. IInv => SessionHasParties
  BY DEF IInv
<1> QED
  BY <1>1, LiveInvariance, PTL

(* _await_adoption() is told the truth, unless the numbers began anew      *)
(* while somebody knew an old one.                                         *)
THEOREM AdoptionIsTrue == Spec => []AdoptedMeansApplied
<1>1. IInv => AdoptedMeansApplied
  BY DEF IInv
<1> QED
  BY <1>1, LiveInvariance, PTL

(* publish() drops the leases that ran out before it hands over what waits,*)
(* and disconnected() takes back what a guest that leaves has offered.     *)
THEOREM LapsedAreDropped == Spec => LapsedAreNotCollected
<1> DEFINE Step == LET answer == window'[open'].answer
                   IN  answer # None /\ window[open'].answer = None =>
                          \A i \in DOMAIN answer :
                             answer[i].agent \in session.guests \ session.lapsed
<1>1. IInv /\ [Next]_vars => [Step]_vars
  <2> SUFFICES ASSUME IInv, [Next]_vars,
                      window'[open'].answer # None, window[open'].answer = None,
                      NEW i \in DOMAIN window'[open'].answer
               PROVE  window'[open'].answer[i].agent \in session.guests \ session.lapsed
    OBVIOUS
  <2>1. open' = open /\ Handed
    BY WindowGoes DEF AnswerGoes
  <2> DEFINE a == window'[open].answer
  <2>2. /\ Range(a) \subseteq Range(session.pending)
        /\ \A p \in Range(a) : p.agent \notin session.lapsed
    BY <2>1 DEF Handed, Within
  <2>3. a[i] \in Range(a)
    BY <2>1 DEF Range
  <2>4. \A p \in Range(session.pending) : p.agent \in session.guests
    BY DEF IInv, SessionHasParties, Range
  <2> HIDE DEF a
  <2>5. a[i].agent \in session.guests \ session.lapsed
    BY <2>2, <2>3, <2>4
  <2> QED
    BY <2>1, <2>5 DEF a
<1> QED
  BY <1>1, LiveInvariance, PTL DEF Spec, LapsedAreNotCollected
=============================================================================
