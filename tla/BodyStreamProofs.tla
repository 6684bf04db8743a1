-------------------------- MODULE BodyStreamProofs --------------------------
(***************************************************************************)
(* A call that ends well ends with the build it asked for.                 *)
(***************************************************************************)
EXTENDS BodyStream, SequenceFilterProofs

-----------------------------------------------------------------------------
(* The inductive invariant.                                                *)

(* Types, of the parts that TypeOK leaves open. *)
Number    == Nat \ {0}
Somewhere == Shapes \cup {None}
OverBodies(T) == UNION {[D -> T] : D \in SUBSET Bodies}

RowSets   == OverBodies([etag : Number, shape : Somewhere])
Manifests == OverBodies([etag : Number])
Results   == OverBodies(Shapes)
Answers   == [kind : {"failed", "noMesh"}] \cup [kind : {"good"}, result : Results]

Ops    == {"rebuild", "computeAll"}
Stages == {"first", "again", "whole"}

CallStates ==
    [stage : {"idle"}]
    \cup [stage : Stages, op : Ops, id : Number, doc : Builds]
    \cup [stage : {"done"}, doc : Builds, told : Answers]

Requests ==
    [id : Number, op : Ops, stage : Stages, doc : Builds, known : OverBodies(Number)]
Frames ==
    [kind : {"failed", "resync", "whole", "head", "chunk"}, id : Number,
     rows : RowSets, seq : Nat, final : BOOLEAN]
Replies == [id : Number, rows : RowSets, left : SUBSET Bodies, seq : Number]
Assemblies == [next : Number, man : Manifests, got : OverBodies(Somewhere)]

Typed ==
    /\ calls \in [Callers -> CallStates]
    /\ bodyMesh \in [Bodies -> Payloads \cup {None}]
    /\ meshes \in [Bodies -> Payloads \cup {None}]
    /\ streams \in [DOMAIN streams -> Assemblies]
    /\ IsFiniteSet(DOMAIN streams) /\ DOMAIN streams \subseteq Number
    /\ last # None => last.sig \in Manifests /\ last.result \in Results
                      /\ DOMAIN last.sig = DOMAIN last.result
    /\ queue \in Seq(Requests) /\ frames \in Seq(Frames)
    /\ sending # None => sending \in Replies

(* A request is in one place: waiting at the engine, or answered. *)
Sent(id) ==
    \/ id \in DOMAIN streams
    \/ \E i \in DOMAIN frames : frames[i].id = id
    \/ sending # None /\ sending.id = id

InOnePlace ==
    /\ \A k, l \in Callers :
          Waits(k) /\ Waits(l) /\ calls[k].id = calls[l].id => k = l
    /\ \A i, j \in DOMAIN queue : queue[i].id = queue[j].id => i = j
    /\ \A id \in Number : Sent(id) => \A i \in DOMAIN queue : queue[i].id # id

(* A reply has one head, and the bodies that come after it are those that  *)
(* it names.                                                               *)
Agrees(rows, man) ==
    DOMAIN rows \subseteq DOMAIN man /\ \A b \in DOMAIN rows : rows[b].etag = man[b].etag

Heads == {i \in DOMAIN frames : frames[i].kind = "head"}

HeadsRule ==
    /\ \A h \in Heads :
          /\ frames[h].id \notin DOMAIN streams
          /\ frames[h].final => frames[h].rows = Nothing
          /\ \A i \in DOMAIN frames : frames[i].id = frames[h].id =>
                \/ i = h
                \/ frames[i].kind = "chunk" /\ Agrees(frames[i].rows, frames[h].rows)
                \/ frames[i].kind \in {"failed", "whole"}
          /\ sending # None /\ sending.id = frames[h].id =>
                Agrees(sending.rows, frames[h].rows)
    /\ \A id \in DOMAIN streams :
          /\ \A i \in DOMAIN frames :
                frames[i].id = id /\ frames[i].kind = "chunk" =>
                    Agrees(frames[i].rows, streams[id].man)
          /\ sending # None /\ sending.id = id => Agrees(sending.rows, streams[id].man)

(* What a caller waits for is what was asked for, and all of it: a request *)
(* for everything is answered without stubs, and not refused.              *)
ForAll(k) == calls[k].op = "computeAll" \/ calls[k].stage # "first"
NoStub(rows) == \A b \in DOMAIN rows : rows[b].shape # None

AsAsked(k) ==
    /\ \A i \in DOMAIN queue : queue[i].id = calls[k].id =>
          /\ queue[i].op = calls[k].op /\ queue[i].stage = calls[k].stage
          /\ queue[i].doc = calls[k].doc
          /\ ForAll(k) => queue[i].known = Nothing
    /\ \A i \in DOMAIN frames : frames[i].id = calls[k].id =>
          /\ frames[i].kind \in {"head", "whole"} =>
                DOMAIN frames[i].rows = DOMAIN calls[k].doc
          /\ ForAll(k) => frames[i].kind # "resync" /\ NoStub(frames[i].rows)
    /\ sending # None /\ sending.id = calls[k].id =>
          /\ DOMAIN sending.rows = DOMAIN calls[k].doc
          /\ ForAll(k) => NoStub(sending.rows)
    /\ calls[k].id \in DOMAIN streams =>
          DOMAIN streams[calls[k].id].man = DOMAIN calls[k].doc

AllAsAsked == \A k \in Callers : Waits(k) => AsAsked(k)

(* Etag e of body b stands for shape s: in a payload that is held, in what *)
(* is under way, and, for a stub, in what its caller asked for.            *)
Holds(b, e, s) ==
    \/ bodyMesh[b] # None /\ bodyMesh[b].etag = e /\ bodyMesh[b].shape = s
    \/ meshes[b] # None /\ meshes[b].etag = e /\ meshes[b].shape = s
    \/ last # None /\ b \in DOMAIN last.sig /\ last.sig[b].etag = e /\ last.result[b] = s

InRows(rows, b, e, s) == b \in DOMAIN rows /\ rows[b].etag = e /\ rows[b].shape = s

Tells(id, b, e, s) ==
    \/ \E i \in DOMAIN frames : frames[i].id = id /\ InRows(frames[i].rows, b, e, s)
    \/ sending # None /\ sending.id = id /\ InRows(sending.rows, b, e, s)
    \/ /\ id \in DOMAIN streams
       /\ b \in DOMAIN streams[id].man
       /\ streams[id].man[b].etag = e /\ streams[id].got[b] = s

Means(b, e, s) ==
    \/ Holds(b, e, s)
    \/ \E id \in Number : Tells(id, b, e, s)
    \/ \E k \in Callers :
          /\ Waits(k) /\ b \in DOMAIN calls[k].doc /\ calls[k].doc[b] = s
          /\ \E x \in Somewhere : Tells(calls[k].id, b, e, x)

EtagsMean ==
    \A b \in Bodies, e \in Number, s, t \in Shapes :
        Means(b, e, s) /\ Means(b, e, t) => s = t

(* A reply has no more chunks than there are bodies. *)
ChunksAreFew ==
    /\ sending # None =>
          sending.seq + Cardinality(sending.left) <= Cardinality(Bodies) + 1
    /\ \A i \in DOMAIN frames :
          frames[i].kind = "chunk" => frames[i].seq <= Cardinality(Bodies)

IInv ==
    /\ TypeOK /\ Typed
    /\ InOnePlace /\ HeadsRule /\ AllAsAsked /\ EtagsMean /\ ChunksAreFew
    /\ AnswersAreTheBuild
-----------------------------------------------------------------------------
(* Numbers not in use.                                                     *)

LEMMA UnusedIsNew ==
    ASSUME NEW S, IsFiniteSet(S)
    PROVE  Unused(S) \in Number /\ Unused(S) \notin S
<1> DEFINE I == 1 .. Cardinality(S) + 1
           T == I \ S
<1>1. Cardinality(S) \in Nat
  BY FS_CardinalityType
<1>2. IsFiniteSet(I) /\ Cardinality(I) = Cardinality(S) + 1
  BY <1>1, FS_Interval
<1>3. T # {}
  <2>1. SUFFICES ASSUME I \in SUBSET S PROVE FALSE
    OBVIOUS
  <2>2. Cardinality(I) <= Cardinality(S)
    BY <2>1, FS_Subset
  <2> QED
    BY <1>1, <1>2, <2>2
<1>4. T \subseteq Nat
  BY <1>1
<1>5. \E n \in T : \A m \in T : n <= m
  <2>1. IsWellFoundedOn(OpToRel(<, Nat), Nat)
    BY NatLessThanWellFounded
  <2>2. PICK n \in T : \A m \in T : <<m, n>> \notin OpToRel(<, Nat)
    BY <1>3, <1>4, <2>1, WFMin
  <2> HIDE DEF T
  <2>3. \A m \in T : ~(m < n)
    BY <1>4, <2>2 DEF OpToRel
  <2>4. \A m \in T : m \in Nat /\ n \in Nat
    BY <1>4, <2>2
  <2>5. \A m \in T : n <= m
    BY <2>3, <2>4
  <2> QED
    BY <2>2, <2>5
<1>6. Unused(S) \in T
  BY <1>5 DEF Unused, Min
<1> QED
  BY <1>1, <1>6 DEF Number

LEMMA ValuesAreFinite ==
    ASSUME NEW f, IsFiniteSet(DOMAIN f)
    PROVE  IsFiniteSet({f[x] : x \in DOMAIN f})
<1> DEFINE T == {f[x] : x \in DOMAIN f}
           g == [x \in DOMAIN f |-> f[x]]
<1>1. g \in Surjection(DOMAIN f, T)
  BY DEF Surjection
<1> QED
  BY <1>1, FS_Surjection

LEMMA SequencesAreFinite ==
    ASSUME NEW S, NEW s \in Seq(S)
    PROVE  IsFiniteSet(DOMAIN s)
<1>1. DOMAIN s = 1 .. Len(s) /\ Len(s) \in Nat
  BY LenProperties
<1> QED
  BY <1>1, FS_Interval

LEMMA IdsAreFinite ==
    ASSUME Typed
    PROVE  IsFiniteSet(IdsInUse)
<1> DEFINE K == {c \in Callers : Waits(c)}
           A == {calls[k].id : k \in K}
           Q == {queue[i].id : i \in DOMAIN queue}
           F == {frames[i].id : i \in DOMAIN frames}
           S == IF sending = None THEN {} ELSE {sending.id}
<1>1. IsFiniteSet(A)
  <2> DEFINE f == [k \in K |-> calls[k].id]
  <2>1. IsFiniteSet(K)
    BY StreamAssumption, FS_Subset
  <2>2. IsFiniteSet({f[x] : x \in DOMAIN f})
    BY <2>1, ValuesAreFinite
  <2> QED
    BY <2>2
<1>2. IsFiniteSet(Q)
  <2> DEFINE f == [i \in DOMAIN queue |-> queue[i].id]
  <2>1. IsFiniteSet(DOMAIN queue)
    BY SequencesAreFinite DEF Typed
  <2>2. IsFiniteSet({f[x] : x \in DOMAIN f})
    BY <2>1, ValuesAreFinite
  <2> QED
    BY <2>2
<1>3. IsFiniteSet(F)
  <2> DEFINE f == [i \in DOMAIN frames |-> frames[i].id]
  <2>1. IsFiniteSet(DOMAIN frames)
    BY SequencesAreFinite DEF Typed
  <2>2. IsFiniteSet({f[x] : x \in DOMAIN f})
    BY <2>1, ValuesAreFinite
  <2> QED
    BY <2>2
<1>4. IsFiniteSet(S)
  BY FS_EmptySet, FS_Singleton
<1>5. IsFiniteSet(DOMAIN streams)
  BY DEF Typed
<1>6. IdsInUse = (((A \cup DOMAIN streams) \cup Q) \cup F) \cup S
  BY DEF IdsInUse, Pending
<1> QED
  <2> HIDE DEF A, Q, F, S
  <2>1. IsFiniteSet(A \cup DOMAIN streams)
    BY <1>1, <1>5, FS_Union
  <2>2. IsFiniteSet((A \cup DOMAIN streams) \cup Q)
    BY <1>2, <2>1, FS_Union
  <2>3. IsFiniteSet(((A \cup DOMAIN streams) \cup Q) \cup F)
    BY <1>3, <2>2, FS_Union
  <2> QED
    BY <1>4, <1>6, <2>3, FS_Union

(* A new id is nobody's. *)
NewId(id) ==
    /\ id \in Number /\ ~Sent(id)
    /\ \A i \in DOMAIN queue : queue[i].id # id
    /\ \A k \in Callers : Waits(k) => calls[k].id # id

LEMMA UnusedIdIsNew ==
    ASSUME Typed
    PROVE  NewId(Unused(IdsInUse))
<1>1. Unused(IdsInUse) \in Number /\ Unused(IdsInUse) \notin IdsInUse
  BY IdsAreFinite, UnusedIsNew
<1> QED
  BY <1>1 DEF NewId, IdsInUse, Pending, Sent

LEMMA EtagsAreFinite ==
    ASSUME Typed, NEW b \in Bodies
    PROVE  IsFiniteSet(EtagsInUse(b))
<1> DEFINE Q == {ClaimedIn(queue[i], b) : i \in DOMAIN queue}
           F == {EtagsIn(frames[i].rows, b) : i \in DOMAIN frames}
           M == {EtagsIn(streams[i].man, b) : i \in DOMAIN streams}
           S == IF sending = None THEN {} ELSE EtagsIn(sending.rows, b)
           L == IF last = None THEN {} ELSE EtagsIn(last.sig, b)
<1>1. \A f : IsFiniteSet(EtagsIn(f, b))
  BY FS_EmptySet, FS_Singleton DEF EtagsIn
<1>2. IsFiniteSet(S) /\ IsFiniteSet(L)
  BY <1>1, FS_EmptySet
<1>3. IsFiniteSet(EtagOf(bodyMesh[b])) /\ IsFiniteSet(EtagOf(meshes[b]))
  BY FS_EmptySet, FS_Singleton DEF EtagOf
<1>4. IsFiniteSet(UNION Q)
  <2> DEFINE f == [i \in DOMAIN queue |-> ClaimedIn(queue[i], b)]
  <2>1. IsFiniteSet(DOMAIN queue)
    BY SequencesAreFinite DEF Typed
  <2>2. IsFiniteSet({f[x] : x \in DOMAIN f})
    BY <2>1, ValuesAreFinite
  <2>3. IsFiniteSet(Q)
    BY <2>2
  <2>4. \A T \in Q : IsFiniteSet(T)
    BY FS_EmptySet, FS_Singleton DEF ClaimedIn
  <2> QED
    BY <2>3, <2>4, FS_UNION
<1>5. IsFiniteSet(UNION F)
  <2> DEFINE f == [i \in DOMAIN frames |-> EtagsIn(frames[i].rows, b)]
  <2>1. IsFiniteSet(DOMAIN frames)
    BY SequencesAreFinite DEF Typed
  <2>2. IsFiniteSet({f[x] : x \in DOMAIN f})
    BY <2>1, ValuesAreFinite
  <2>3. IsFiniteSet(F)
    BY <2>2
  <2> QED
    BY <1>1, <2>3, FS_UNION
<1>6. IsFiniteSet(UNION M)
  <2> DEFINE f == [i \in DOMAIN streams |-> EtagsIn(streams[i].man, b)]
  <2>1. IsFiniteSet(DOMAIN streams)
    BY DEF Typed
  <2>2. IsFiniteSet({f[x] : x \in DOMAIN f})
    BY <2>1, ValuesAreFinite
  <2>3. IsFiniteSet(M)
    BY <2>2
  <2> QED
    BY <1>1, <2>3, FS_UNION
<1>7. EtagsInUse(b) =
        (((((EtagOf(bodyMesh[b]) \cup EtagOf(meshes[b])) \cup (UNION Q)) \cup (UNION F))
            \cup (UNION M)) \cup S) \cup L
  BY DEF EtagsInUse
<1> QED
  <2> HIDE DEF Q, F, M, S, L
  <2>1. IsFiniteSet(EtagOf(bodyMesh[b]) \cup EtagOf(meshes[b]))
    BY <1>3, FS_Union
  <2>2. IsFiniteSet((EtagOf(bodyMesh[b]) \cup EtagOf(meshes[b])) \cup (UNION Q))
    BY <1>4, <2>1, FS_Union
  <2>3. IsFiniteSet(((EtagOf(bodyMesh[b]) \cup EtagOf(meshes[b])) \cup (UNION Q)) \cup (UNION F))
    BY <1>5, <2>2, FS_Union
  <2>4. IsFiniteSet((((EtagOf(bodyMesh[b]) \cup EtagOf(meshes[b])) \cup (UNION Q))
                        \cup (UNION F)) \cup (UNION M))
    BY <1>6, <2>3, FS_Union
  <2>5. IsFiniteSet(((((EtagOf(bodyMesh[b]) \cup EtagOf(meshes[b])) \cup (UNION Q))
                        \cup (UNION F)) \cup (UNION M)) \cup S)
    BY <1>2, <2>4, FS_Union
  <2>6. IsFiniteSet((((((EtagOf(bodyMesh[b]) \cup EtagOf(meshes[b])) \cup (UNION Q))
                        \cup (UNION F)) \cup (UNION M)) \cup S) \cup L)
    BY <1>2, <2>5, FS_Union
  <2> QED
    BY <1>7, <2>6

LEMMA UnusedEtagIsNew ==
    ASSUME Typed, NEW b \in Bodies
    PROVE  /\ Unused(EtagsInUse(b)) \in Number
           /\ \A s \in Somewhere : ~Means(b, Unused(EtagsInUse(b)), s)
<1> DEFINE e == Unused(EtagsInUse(b))
<1>1. e \in Number /\ e \notin EtagsInUse(b)
  BY EtagsAreFinite, UnusedIsNew
<1> HIDE DEF e
<1>2. \A s : ~Holds(b, e, s)
  BY <1>1 DEF Holds, EtagsInUse, EtagOf, EtagsIn
<1>3. \A id, s : ~Tells(id, b, e, s)
  BY <1>1 DEF Tells, InRows, EtagsInUse, EtagsIn
<1> QED
  BY <1>1, <1>2, <1>3 DEF Means, e
-----------------------------------------------------------------------------
(* What the helpers return.                                                *)

Caches == [Bodies -> Payloads \cup {None}]

LEMMA OverBodiesIs ==
    ASSUME NEW T, NEW f
    PROVE  f \in OverBodies(T) <=> DOMAIN f \subseteq Bodies /\ f \in [DOMAIN f -> T]
<1>1. ASSUME f \in OverBodies(T) PROVE DOMAIN f \subseteq Bodies /\ f \in [DOMAIN f -> T]
  <2>1. PICK D \in SUBSET Bodies : f \in [D -> T]
    BY <1>1 DEF OverBodies
  <2> QED
    BY <2>1
<1>2. ASSUME DOMAIN f \subseteq Bodies, f \in [DOMAIN f -> T] PROVE f \in OverBodies(T)
  BY <1>2 DEF OverBodies
<1> QED
  BY <1>1, <1>2

LEMMA BuildsAreResults == Builds \subseteq Results
BY StreamAssumption DEF Results, OverBodies

LEMMA RowsTyped ==
    ASSUME NEW rows \in RowSets
    PROVE  /\ DOMAIN rows \subseteq Bodies
           /\ \A b \in DOMAIN rows : /\ rows[b] \in [etag : Number, shape : Somewhere]
                                     /\ rows[b].etag \in Number /\ rows[b].shape \in Somewhere
           /\ Sig(rows) \in Manifests /\ DOMAIN Sig(rows) = DOMAIN rows
           /\ \A b \in DOMAIN rows : Sig(rows)[b].etag = rows[b].etag
<1>1. DOMAIN rows \subseteq Bodies /\ rows \in [DOMAIN rows -> [etag : Number, shape : Somewhere]]
  BY OverBodiesIs DEF RowSets
<1>2. \A b \in DOMAIN rows : /\ rows[b] \in [etag : Number, shape : Somewhere]
                             /\ rows[b].etag \in Number /\ rows[b].shape \in Somewhere
  BY <1>1
<1>3. Sig(rows) \in [DOMAIN rows -> [etag : Number]] /\ DOMAIN Sig(rows) = DOMAIN rows
  BY <1>2 DEF Sig
<1>4. \A b \in DOMAIN rows : Sig(rows)[b].etag = rows[b].etag
  BY DEF Sig
<1>5. Sig(rows) \in Manifests
  BY <1>1, <1>3 DEF Manifests, OverBodies
<1> QED
  BY <1>1, <1>2, <1>3, <1>4, <1>5

LEMMA ResultsTyped ==
    ASSUME NEW r \in Results
    PROVE  DOMAIN r \subseteq Bodies /\ \A b \in DOMAIN r : r[b] \in Shapes
BY OverBodiesIs DEF Results

LEMMA AssembliesTyped ==
    ASSUME NEW s \in Assemblies
    PROVE  /\ s.next \in Number
           /\ DOMAIN s.man \subseteq Bodies /\ \A b \in DOMAIN s.man : s.man[b].etag \in Number
           /\ s.got \in OverBodies(Somewhere)
           /\ DOMAIN s.got \subseteq Bodies /\ \A b \in DOMAIN s.got : s.got[b] \in Somewhere
           /\ s.man \in Manifests
<1>1. s.next \in Number /\ s.man \in Manifests /\ s.got \in OverBodies(Somewhere)
  BY DEF Assemblies
<1>2. DOMAIN s.man \subseteq Bodies /\ s.man \in [DOMAIN s.man -> [etag : Number]]
  BY <1>1, OverBodiesIs DEF Manifests
<1>3. DOMAIN s.got \subseteq Bodies /\ s.got \in [DOMAIN s.got -> Somewhere]
  BY <1>1, OverBodiesIs
<1> QED
  BY <1>1, <1>2, <1>3

LEMMA CachesTyped ==
    ASSUME NEW mesh \in Caches, NEW b \in Bodies, mesh[b] # None
    PROVE  mesh[b] \in Payloads /\ mesh[b].etag \in Number /\ mesh[b].shape \in Shapes
BY DEF Caches, Payloads, Number

(* A manifest begun: the stubs are what the cache has under their etags. *)
LEMMA BegunTyped ==
    ASSUME NEW rows \in RowSets, NEW mesh \in Caches, Backed(rows, mesh)
    PROVE  LET s == Begun(rows, mesh)
           IN  /\ s \in Assemblies
               /\ s.next = 1 /\ s.man = Sig(rows) /\ DOMAIN s.got = DOMAIN rows
               /\ \A b \in DOMAIN rows :
                     \/ rows[b].shape # None /\ s.got[b] = None
                     \/ /\ rows[b].shape = None /\ mesh[b] # None
                        /\ mesh[b].etag = rows[b].etag /\ mesh[b].shape \in Shapes
                        /\ s.got[b] = mesh[b].shape
<1> DEFINE got == [b \in DOMAIN rows |->
                      IF rows[b].shape = None THEN mesh[b].shape ELSE None]
           s == Begun(rows, mesh)
<1>1. s.next = 1 /\ s.man = Sig(rows) /\ s.got = got
      /\ s = [next |-> 1, man |-> Sig(rows), got |-> got]
  BY DEF Begun
<1>2. DOMAIN rows \subseteq Bodies /\ Sig(rows) \in Manifests
  BY RowsTyped
<1>3. \A b \in DOMAIN rows :
         \/ rows[b].shape # None /\ got[b] = None
         \/ /\ rows[b].shape = None /\ mesh[b] # None
            /\ mesh[b].etag = rows[b].etag /\ mesh[b].shape \in Shapes
            /\ got[b] = mesh[b].shape
  BY <1>2, CachesTyped DEF Backed
<1>4. got \in [DOMAIN rows -> Somewhere]
  <2>1. \A b \in DOMAIN rows : got[b] \in Somewhere
    BY <1>3 DEF Somewhere
  <2> QED
    BY <2>1
<1>5. got \in OverBodies(Somewhere) /\ DOMAIN got = DOMAIN rows
  BY <1>2, <1>4 DEF OverBodies
<1>6. s \in Assemblies
  BY <1>1, <1>2, <1>5 DEF Assemblies, Number
<1> QED
  BY <1>1, <1>3, <1>5, <1>6

LEMMA WrittenTyped ==
    ASSUME NEW rows \in RowSets, NEW s \in Assemblies
    PROVE  LET w == Written(rows, s)
           IN  /\ w \in Assemblies
               /\ w.next = s.next + 1 /\ w.man = s.man /\ DOMAIN w.got = DOMAIN s.got
               /\ \A b \in DOMAIN s.got :
                     \/ b \in DOMAIN rows /\ rows[b].shape # None /\ w.got[b] = rows[b].shape
                     \/ w.got[b] = s.got[b] /\ (b \in DOMAIN rows => rows[b].shape = None)
<1> DEFINE got == [b \in DOMAIN s.got |->
                      IF b \in DOMAIN rows /\ rows[b].shape # None
                      THEN rows[b].shape ELSE s.got[b]]
           w == Written(rows, s)
<1>1. /\ s.next \in Number /\ s.man \in Manifests
      /\ DOMAIN s.got \subseteq Bodies /\ \A b \in DOMAIN s.got : s.got[b] \in Somewhere
  BY AssembliesTyped
<1>2. s = [next |-> s.next, man |-> s.man, got |-> s.got]
  BY DEF Assemblies
<1>3. w = [next |-> s.next + 1, man |-> s.man, got |-> got]
  <2>1. w = [s EXCEPT !.next = @ + 1, !.got = got]
    BY DEF Written
  <2> HIDE DEF got, w
  <2> QED
    BY <2>1 DEF Assemblies
<1>4. \A b \in DOMAIN s.got :
         \/ b \in DOMAIN rows /\ rows[b].shape # None /\ got[b] = rows[b].shape
         \/ got[b] = s.got[b] /\ (b \in DOMAIN rows => rows[b].shape = None)
  OBVIOUS
<1>5. got \in [DOMAIN s.got -> Somewhere]
  <2>1. \A b \in DOMAIN s.got : got[b] \in Somewhere
    BY <1>1, <1>4, RowsTyped
  <2> QED
    BY <2>1
<1>6. got \in OverBodies(Somewhere) /\ DOMAIN got = DOMAIN s.got
  BY <1>1, <1>5 DEF OverBodies
<1>7. s.next + 1 \in Number
  BY <1>1 DEF Number
<1>8. w \in Assemblies
  BY <1>1, <1>3, <1>6, <1>7 DEF Assemblies
<1> HIDE DEF got
<1>9. w.next = s.next + 1 /\ w.man = s.man /\ w.got = got
  BY <1>3
<1> QED
  BY <1>4, <1>6, <1>8, <1>9

LEMMA KeptTyped ==
    ASSUME NEW rows \in RowSets, NEW mesh \in Caches
    PROVE  /\ Kept(rows, mesh) \in Caches
           /\ \A b \in Bodies :
                 \/ Kept(rows, mesh)[b] = mesh[b]
                 \/ /\ b \in DOMAIN rows /\ rows[b].shape # None
                    /\ Kept(rows, mesh)[b] = rows[b]
<1> DEFINE m == Kept(rows, mesh)
<1>1. \A b \in Bodies : \/ m[b] = mesh[b]
                        \/ b \in DOMAIN rows /\ rows[b].shape # None /\ m[b] = rows[b]
  BY DEF Kept
<1>2. \A b \in DOMAIN rows : rows[b].shape # None => rows[b] \in Payloads
  BY RowsTyped DEF Payloads, Somewhere, Number
<1>3. \A b \in Bodies : m[b] \in Payloads \cup {None}
  BY <1>1, <1>2 DEF Caches
<1>4. m \in Caches
  <2>1. m = [b \in Bodies |-> m[b]]
    BY DEF Kept
  <2> QED
    BY <1>3, <2>1 DEF Caches
<1> QED
  BY <1>1, <1>4

LEMMA PrunedTyped ==
    ASSUME NEW man, NEW mesh \in Caches
    PROVE  /\ Pruned(man, mesh) \in Caches
           /\ \A b \in Bodies : Pruned(man, mesh)[b] \in {mesh[b], None}
BY DEF Caches, Pruned

LEMMA NoMeshesTyped == NoMeshes \in Caches /\ \A b \in Bodies : NoMeshes[b] = None
BY DEF Caches, NoMeshes

LEMMA NothingTyped ==
    /\ Nothing \in RowSets /\ Nothing \in OverBodies(Number) /\ DOMAIN Nothing = {}
    /\ \A f : DOMAIN f = {} /\ f = [b \in DOMAIN f |-> f[b]] => f = Nothing
<1>1. DOMAIN Nothing = {} /\ \A T : Nothing \in [{} -> T]
  BY DEF Nothing
<1>2. \A f : DOMAIN f = {} /\ f = [b \in DOMAIN f |-> f[b]] => f = Nothing
  BY DEF Nothing
<1> QED
  BY <1>1, <1>2 DEF RowSets, OverBodies
-----------------------------------------------------------------------------
(* What a step of the client comes to: it takes frames, drops or opens     *)
(* streams, settles calls and asks.                                        *)

FramesLeft ==
    \E e \in [DOMAIN frames' -> DOMAIN frames] :
        /\ \A i \in DOMAIN frames' : frames'[i] = frames[e[i]]
        /\ \A i, j \in DOMAIN frames' : e[i] = e[j] => i = j

SendingLeft == sending' # None => sending' = sending

NobodyAsks ==
    /\ \A k \in Callers : Waits(k)' => Waits(k) /\ calls'[k] = calls[k]
    /\ queue' \in {queue, <<>>}

Asks(k, r) ==
    /\ Waits(k)' /\ NewId(calls'[k].id)
    /\ \A l \in Callers \ {k} : calls'[l] = calls[l]
    /\ queue' = Append(queue, r)
    /\ r.id = calls'[k].id /\ r.op = calls'[k].op /\ r.stage = calls'[k].stage
    /\ r.doc = calls'[k].doc
    /\ ForAll(k)' => r.known = Nothing

CallsMove == NobodyAsks \/ \E k \in Callers, r \in Requests : Asks(k, r)

(* A stream goes on, or begins with the head that has arrived. *)
Opened(id) ==
    /\ frames # <<>> /\ frames' = Tail(frames)
    /\ Head(frames).kind = "head" /\ Head(frames).id = id
    /\ streams'[id].man = Sig(Head(frames).rows)

StreamsCome ==
    \A id \in DOMAIN streams' :
        \/ id \in DOMAIN streams /\ streams'[id].man = streams[id].man
        \/ Opened(id)

ShapesCome ==
    \A id \in DOMAIN streams', b \in Bodies :
        b \in DOMAIN streams'[id].man =>
            /\ \E y \in Somewhere : Tells(id, b, streams'[id].man[b].etag, y)
            /\ streams'[id].got[b] \in Shapes =>
                  Means(b, streams'[id].man[b].etag, streams'[id].got[b])

HoldsCome ==
    \A b \in Bodies, e \in Number, s \in Shapes : Holds(b, e, s)' => Means(b, e, s)

ClientMoves ==
    /\ FramesLeft /\ SendingLeft /\ CallsMove
    /\ StreamsCome /\ ShapesCome /\ HoldsCome

LEMMA HeadFrame ==
    ASSUME Typed, frames # <<>>
    PROVE  /\ Head(frames) \in Frames /\ Head(frames) = frames[1] /\ 1 \in DOMAIN frames
           /\ Head(frames).id \in Number /\ Head(frames).rows \in RowSets
           /\ Tail(frames) \in Seq(Frames) /\ Len(Tail(frames)) = Len(frames) - 1
           /\ \A i \in DOMAIN Tail(frames) :
                 i + 1 \in DOMAIN frames /\ Tail(frames)[i] = frames[i + 1]
                 /\ i + 1 # 1 /\ i \in Nat
<1>1. frames \in Seq(Frames)
  BY DEF Typed
<1>2. /\ Head(frames) \in Frames /\ Head(frames) = frames[1] /\ Tail(frames) \in Seq(Frames)
      /\ Len(frames) \in Nat \ {0} /\ DOMAIN frames = 1 .. Len(frames)
      /\ DOMAIN Tail(frames) = 1 .. Len(frames) - 1
      /\ \A i \in DOMAIN Tail(frames) : i + 1 \in DOMAIN frames /\ Tail(frames)[i] = frames[i + 1]
  BY <1>1, TailElements
<1>3. Len(Tail(frames)) = Len(frames) - 1
  BY <1>1, <1>2, LenProperties
<1>4. Head(frames).id \in Number /\ Head(frames).rows \in RowSets
  BY <1>2 DEF Frames
<1> QED
  BY <1>2, <1>3, <1>4

LEMMA TailIsLeft ==
    ASSUME Typed, frames # <<>>, frames' = Tail(frames)
    PROVE  FramesLeft
<1> DEFINE e == [i \in DOMAIN frames' |-> i + 1]
<1>1. \A i \in DOMAIN frames' : i + 1 \in DOMAIN frames /\ frames'[i] = frames[i + 1] /\ i \in Nat
  BY HeadFrame
<1>2. e \in [DOMAIN frames' -> DOMAIN frames]
  BY <1>1
<1>3. \A i \in DOMAIN frames' : frames'[i] = frames[e[i]]
  BY <1>1
<1>4. \A i, j \in DOMAIN frames' : e[i] = e[j] => i = j
  BY <1>1
<1> QED
  BY <1>2, <1>3, <1>4 DEF FramesLeft

LEMMA SameIsLeft ==
    ASSUME frames' = frames
    PROVE  FramesLeft
<1> DEFINE e == [i \in DOMAIN frames' |-> i]
<1>1. /\ e \in [DOMAIN frames' -> DOMAIN frames]
      /\ \A i \in DOMAIN frames' : frames'[i] = frames[e[i]]
      /\ \A i, j \in DOMAIN frames' : e[i] = e[j] => i = j
  OBVIOUS
<1> QED
  BY <1>1 DEF FramesLeft

LEMMA NoneIsLeft ==
    ASSUME frames' = <<>>
    PROVE  FramesLeft
<1> DEFINE e == [i \in {} |-> 1]
<1>1. DOMAIN frames' = {}
  OBVIOUS
<1>2. /\ e \in [DOMAIN frames' -> DOMAIN frames]
      /\ \A i \in DOMAIN frames' : frames'[i] = frames[e[i]]
      /\ \A i, j \in DOMAIN frames' : e[i] = e[j] => i = j
  BY <1>1
<1> QED
  BY <1>2 DEF FramesLeft

LEMMA SentBefore ==
    ASSUME Typed, FramesLeft, SendingLeft, StreamsCome
    PROVE  \A id : Sent(id)' => Sent(id)
<1>1. PICK e \in [DOMAIN frames' -> DOMAIN frames] :
         \A i \in DOMAIN frames' : frames'[i] = frames[e[i]]
  BY DEF FramesLeft
<1>2. ASSUME NEW id, id \in DOMAIN streams' PROVE Sent(id)
  BY <1>2, HeadFrame DEF StreamsCome, Opened, Sent
<1>3. ASSUME NEW id, NEW i \in DOMAIN frames', frames'[i].id = id PROVE Sent(id)
  BY <1>1, <1>3 DEF Sent
<1>4. ASSUME NEW id, sending' # None, sending'.id = id PROVE Sent(id)
  BY <1>4 DEF Sent, SendingLeft
<1> QED
  BY <1>2, <1>3, <1>4 DEF Sent

LEMMA ClientPlaces ==
    ASSUME Typed, InOnePlace, FramesLeft, SendingLeft, StreamsCome, CallsMove
    PROVE  InOnePlace'
<1>1. \A id : Sent(id)' => Sent(id)
  BY SentBefore
<1>2. CASE NobodyAsks
  <2>1. \A k, l \in Callers :
           Waits(k)' /\ Waits(l)' /\ calls'[k].id = calls'[l].id => k = l
    BY <1>2 DEF NobodyAsks, InOnePlace
  <2>2. queue' = queue \/ DOMAIN queue' = {}
    BY <1>2 DEF NobodyAsks
  <2>3. \A i, j \in DOMAIN queue' : queue'[i].id = queue'[j].id => i = j
    BY <2>2 DEF InOnePlace
  <2>4. \A id \in Number : Sent(id)' => \A i \in DOMAIN queue' : queue'[i].id # id
    BY <1>1, <2>2 DEF InOnePlace
  <2> QED
    BY <2>1, <2>3, <2>4 DEF InOnePlace, Waits
<1>3. CASE \E k \in Callers, r \in Requests : Asks(k, r)
  <2>1. PICK k \in Callers, r \in Requests : Asks(k, r)
    BY <1>3
  <2> DEFINE id == calls'[k].id
  <2>2. NewId(id) /\ r.id = id /\ queue' = Append(queue, r)
        /\ \A l \in Callers \ {k} : calls'[l] = calls[l]
    BY <2>1 DEF Asks
  <2>3. queue \in Seq(Requests)
    BY DEF Typed
  <2>4. /\ DOMAIN queue' = 1 .. Len(queue) + 1 /\ Len(queue) \in Nat
        /\ DOMAIN queue = 1 .. Len(queue)
        /\ \A i \in DOMAIN queue : i \in DOMAIN queue' /\ queue'[i] = queue[i]
        /\ queue'[Len(queue) + 1] = r
    BY <2>2, <2>3, AppendElements
  <2> HIDE DEF id
  <2>5. \A i \in DOMAIN queue' :
           \/ i \in DOMAIN queue /\ queue'[i] = queue[i]
           \/ i = Len(queue) + 1 /\ queue'[i].id = id
    BY <2>2, <2>4
  <2>6. \A i, j \in DOMAIN queue' : queue'[i].id = queue'[j].id => i = j
    BY <2>2, <2>5 DEF InOnePlace, NewId
  <2>7. \A n \in Number : Sent(n)' => \A i \in DOMAIN queue' : queue'[i].id # n
    <3> SUFFICES ASSUME NEW n \in Number, Sent(n)', NEW i \in DOMAIN queue'
                 PROVE  queue'[i].id # n
      OBVIOUS
    <3>1. CASE i \in DOMAIN queue /\ queue'[i] = queue[i]
      BY <1>1, <3>1 DEF InOnePlace
    <3>2. CASE queue'[i].id = id
      BY <1>1, <2>2, <3>2 DEF NewId
    <3> QED
      BY <2>5, <3>1, <3>2
  <2>8. \A l \in Callers : l # k /\ Waits(l)' => Waits(l) /\ calls'[l].id # id
    BY <2>2 DEF Waits, NewId
  <2>9. \A l, m \in Callers :
           Waits(l)' /\ Waits(m)' /\ calls'[l].id = calls'[m].id => l = m
    <3> SUFFICES ASSUME NEW l \in Callers, NEW m \in Callers, Waits(l)', Waits(m)',
                        calls'[l].id = calls'[m].id
                 PROVE  l = m
      OBVIOUS
    <3>1. CASE l = k \/ m = k
      BY <2>8, <3>1 DEF id
    <3>2. CASE l # k /\ m # k
      BY <2>2, <2>8, <3>2 DEF InOnePlace
    <3> QED
      BY <3>1, <3>2
  <2> QED
    BY <2>6, <2>7, <2>9 DEF InOnePlace, Waits
<1> QED
  BY <1>2, <1>3 DEF CallsMove

LEMMA ClientHeads ==
    ASSUME Typed, HeadsRule, FramesLeft, SendingLeft, StreamsCome
    PROVE  HeadsRule'
<1>1. PICK e \in [DOMAIN frames' -> DOMAIN frames] :
         /\ \A i \in DOMAIN frames' : frames'[i] = frames[e[i]]
         /\ \A i, j \in DOMAIN frames' : e[i] = e[j] => i = j
  BY DEF FramesLeft
<1> DEFINE HeadsNext == {i \in DOMAIN frames' : frames'[i].kind = "head"}
<1>2. \A h \in HeadsNext : e[h] \in Heads /\ frames'[h] = frames[e[h]]
  BY <1>1 DEF Heads
(* The head that opened a stream is gone, and was the only one. *)
<1>3. ASSUME NEW id \in DOMAIN streams', Opened(id)
      PROVE  /\ 1 \in Heads /\ frames[1].id = id /\ streams'[id].man = Sig(frames[1].rows)
             /\ frames[1].rows \in RowSets
             /\ \A i \in DOMAIN frames' : i + 1 \in DOMAIN frames /\ i + 1 # 1
                                          /\ frames'[i] = frames[i + 1]
  BY <1>3, HeadFrame DEF Opened, Heads
<1>4. ASSUME NEW h \in HeadsNext PROVE frames'[h].id \notin DOMAIN streams'
  <2>1. SUFFICES ASSUME frames'[h].id \in DOMAIN streams' PROVE FALSE
    OBVIOUS
  <2>2. CASE frames'[h].id \in DOMAIN streams
    BY <1>2, <2>2 DEF HeadsRule
  <2>3. CASE Opened(frames'[h].id)
    <3>1. /\ 1 \in Heads /\ frames[1].id = frames'[h].id
          /\ h + 1 \in DOMAIN frames /\ h + 1 # 1 /\ frames'[h] = frames[h + 1]
      BY <1>3, <2>1, <2>3
    <3>2. frames[h + 1].kind = "head"
      BY <3>1
    <3> QED
      BY <3>1, <3>2 DEF HeadsRule
  <2> QED
    BY <2>1, <2>2, <2>3 DEF StreamsCome
<1>5. ASSUME NEW h \in HeadsNext
      PROVE  /\ frames'[h].final => frames'[h].rows = Nothing
             /\ \A i \in DOMAIN frames' : frames'[i].id = frames'[h].id =>
                   \/ i = h
                   \/ frames'[i].kind = "chunk" /\ Agrees(frames'[i].rows, frames'[h].rows)
                   \/ frames'[i].kind \in {"failed", "whole"}
             /\ sending' # None /\ sending'.id = frames'[h].id =>
                   Agrees(sending'.rows, frames'[h].rows)
  <2>1. e[h] \in Heads /\ frames'[h] = frames[e[h]]
    BY <1>2
  <2>2. frames'[h].final => frames'[h].rows = Nothing
    BY <2>1 DEF HeadsRule
  <2>3. sending' # None /\ sending'.id = frames'[h].id => Agrees(sending'.rows, frames'[h].rows)
    BY <2>1 DEF HeadsRule, SendingLeft
  <2>4. ASSUME NEW i \in DOMAIN frames', frames'[i].id = frames'[h].id
        PROVE  \/ i = h
               \/ frames'[i].kind = "chunk" /\ Agrees(frames'[i].rows, frames'[h].rows)
               \/ frames'[i].kind \in {"failed", "whole"}
    <3>1. frames'[i] = frames[e[i]] /\ e[i] \in DOMAIN frames /\ (e[i] = e[h] => i = h)
      BY <1>1
    <3>2. \/ e[i] = e[h]
          \/ frames[e[i]].kind = "chunk" /\ Agrees(frames[e[i]].rows, frames[e[h]].rows)
          \/ frames[e[i]].kind \in {"failed", "whole"}
      BY <2>1, <2>4, <3>1 DEF HeadsRule
    <3> QED
      BY <2>1, <3>1, <3>2
  <2> QED
    BY <2>2, <2>3, <2>4
<1>6. ASSUME NEW id \in DOMAIN streams'
      PROVE  /\ \A i \in DOMAIN frames' :
                   frames'[i].id = id /\ frames'[i].kind = "chunk" =>
                       Agrees(frames'[i].rows, streams'[id].man)
             /\ sending' # None /\ sending'.id = id => Agrees(sending'.rows, streams'[id].man)
  <2>1. CASE id \in DOMAIN streams /\ streams'[id].man = streams[id].man
    <3>1. \A i \in DOMAIN frames' : frames'[i] = frames[e[i]] /\ e[i] \in DOMAIN frames
      BY <1>1
    <3> QED
      BY <2>1, <3>1 DEF HeadsRule, SendingLeft
  <2>2. CASE Opened(id)
    <3> DEFINE rows == frames[1].rows
    <3>1. /\ 1 \in Heads /\ frames[1].id = id /\ streams'[id].man = Sig(rows)
          /\ rows \in RowSets
          /\ \A i \in DOMAIN frames' : i + 1 \in DOMAIN frames /\ i + 1 # 1
                                       /\ frames'[i] = frames[i + 1]
      BY <1>3, <2>2
    <3>2. \A r : Agrees(r, rows) => Agrees(r, Sig(rows))
      BY <3>1, RowsTyped DEF Agrees
    <3>3. \A i \in DOMAIN frames' : frames'[i].id = id /\ frames'[i].kind = "chunk" =>
             Agrees(frames'[i].rows, rows)
      BY <3>1 DEF HeadsRule
    <3>4. sending' # None /\ sending'.id = id => Agrees(sending'.rows, rows)
      BY <3>1 DEF HeadsRule, SendingLeft
    <3> HIDE DEF rows
    <3> QED
      BY <3>1, <3>2, <3>3, <3>4
  <2> QED
    BY <2>1, <2>2 DEF StreamsCome
<1> QED
  BY <1>4, <1>5, <1>6 DEF HeadsRule, Heads, Agrees, Nothing

LEMMA ClientAsks ==
    ASSUME Typed, HeadsRule, AllAsAsked, FramesLeft, SendingLeft, StreamsCome, CallsMove
    PROVE  AllAsAsked'
<1>1. \A id : Sent(id)' => Sent(id)
  BY SentBefore
<1>2. PICK e \in [DOMAIN frames' -> DOMAIN frames] :
         \A i \in DOMAIN frames' : frames'[i] = frames[e[i]]
  BY DEF FramesLeft
(* A caller that waited and waits still: the request it asked under the id *)
(* it has is the only one with it.                                         *)
<1>3. ASSUME NEW k \in Callers, Waits(k), calls'[k] = calls[k],
             \A i \in DOMAIN queue' : queue'[i].id = calls[k].id =>
                i \in DOMAIN queue /\ queue'[i] = queue[i]
      PROVE  AsAsked(k)'
  <2> DEFINE id == calls[k].id
  <2>1. AsAsked(k)
    BY <1>3 DEF AllAsAsked
  <2>2. \A i \in DOMAIN queue' : queue'[i].id = id =>
           /\ queue'[i].op = calls[k].op /\ queue'[i].stage = calls[k].stage
           /\ queue'[i].doc = calls[k].doc
           /\ ForAll(k) => queue'[i].known = Nothing
    BY <1>3, <2>1 DEF AsAsked
  <2>3. \A i \in DOMAIN frames' : frames'[i].id = id =>
           /\ frames'[i].kind \in {"head", "whole"} =>
                 DOMAIN frames'[i].rows = DOMAIN calls[k].doc
           /\ ForAll(k) => frames'[i].kind # "resync" /\ NoStub(frames'[i].rows)
    BY <1>2, <2>1 DEF AsAsked
  <2>4. sending' # None /\ sending'.id = id =>
           /\ DOMAIN sending'.rows = DOMAIN calls[k].doc
           /\ ForAll(k) => NoStub(sending'.rows)
    BY <2>1 DEF AsAsked, SendingLeft
  <2>5. id \in DOMAIN streams' => DOMAIN streams'[id].man = DOMAIN calls[k].doc
    <3>1. CASE id \in DOMAIN streams /\ streams'[id].man = streams[id].man
      BY <2>1, <3>1 DEF AsAsked
    <3>2. CASE id \in DOMAIN streams' /\ Opened(id)
      <4>1. /\ 1 \in DOMAIN frames /\ Head(frames) = frames[1] /\ frames[1].id = id
            /\ frames[1].kind = "head" /\ frames[1].rows \in RowSets
            /\ streams'[id].man = Sig(frames[1].rows)
        BY <3>2, HeadFrame DEF Opened
      <4>2. DOMAIN frames[1].rows = DOMAIN calls[k].doc
        BY <2>1, <4>1 DEF AsAsked
      <4> QED
        BY <4>1, <4>2, RowsTyped
    <3> QED
      BY <3>1, <3>2 DEF StreamsCome
  <2> QED
    BY <1>3, <2>2, <2>3, <2>4, <2>5 DEF AsAsked, ForAll, NoStub, Nothing
<1>4. CASE NobodyAsks
  <2>1. queue' = queue \/ DOMAIN queue' = {}
    BY <1>4 DEF NobodyAsks
  <2> QED
    BY <1>3, <1>4, <2>1 DEF NobodyAsks, AllAsAsked, Waits
<1>5. CASE \E k \in Callers, r \in Requests : Asks(k, r)
  <2>1. PICK k \in Callers, r \in Requests : Asks(k, r)
    BY <1>5
  <2> DEFINE id == calls'[k].id
  <2>2. NewId(id) /\ r.id = id /\ queue' = Append(queue, r)
        /\ \A l \in Callers \ {k} : calls'[l] = calls[l]
    BY <2>1 DEF Asks
  <2>3. /\ DOMAIN queue' = 1 .. Len(queue) + 1 /\ Len(queue) \in Nat
        /\ DOMAIN queue = 1 .. Len(queue)
        /\ \A i \in DOMAIN queue : i \in DOMAIN queue' /\ queue'[i] = queue[i]
        /\ queue'[Len(queue) + 1] = r
    BY <2>2, AppendElements DEF Typed
  <2> HIDE DEF id
  <2>4. \A i \in DOMAIN queue' :
           \/ i \in DOMAIN queue /\ queue'[i] = queue[i] /\ queue[i].id # id
           \/ i = Len(queue) + 1 /\ queue'[i] = r
    BY <2>2, <2>3 DEF NewId
  <2>5. ASSUME NEW l \in Callers, l # k, Waits(l)'
        PROVE  AsAsked(l)'
    <3>1. Waits(l) /\ calls'[l] = calls[l] /\ calls[l].id # id
      BY <2>2, <2>5 DEF Waits, NewId
    <3> QED
      BY <1>3, <2>2, <2>4, <3>1
  <2>6. AsAsked(k)'
    <3>1. \A n : n = id => ~Sent(n)'
      BY <1>1, <2>2 DEF NewId
    <3>2. /\ \A i \in DOMAIN frames' : frames'[i].id # id
          /\ ~(sending' # None /\ sending'.id = id)
          /\ id \notin DOMAIN streams'
      BY <3>1 DEF Sent
    <3>3. \A i \in DOMAIN queue' : queue'[i].id = id => queue'[i] = r
      BY <2>4
    <3>4. \A i \in DOMAIN queue' : queue'[i].id = id =>
             /\ queue'[i].op = calls'[k].op /\ queue'[i].stage = calls'[k].stage
             /\ queue'[i].doc = calls'[k].doc
             /\ ForAll(k)' => queue'[i].known = Nothing
      BY <2>1, <3>3 DEF Asks
    <3> QED
      BY <3>2, <3>4 DEF AsAsked, id, ForAll, Nothing
  <2> QED
    BY <2>5, <2>6 DEF AllAsAsked
<1> QED
  BY <1>4, <1>5 DEF CallsMove

LEMMA ClientTells ==
    ASSUME FramesLeft, SendingLeft, ShapesCome,
           NEW id \in Number, NEW b \in Bodies, NEW e \in Number, NEW x \in Somewhere,
           Tells(id, b, e, x)'
    PROVE  /\ \E y \in Somewhere : Tells(id, b, e, y)
           /\ x \in Shapes => Means(b, e, x)
<1>1. CASE \E i \in DOMAIN frames' : frames'[i].id = id /\ InRows(frames'[i].rows, b, e, x)
  <2>1. Tells(id, b, e, x)
    BY <1>1 DEF FramesLeft, Tells
  <2> QED
    BY <2>1 DEF Means
<1>2. CASE sending' # None /\ sending'.id = id /\ InRows(sending'.rows, b, e, x)
  <2>1. Tells(id, b, e, x)
    BY <1>2 DEF SendingLeft, Tells
  <2> QED
    BY <2>1 DEF Means
<1>3. CASE /\ id \in DOMAIN streams' /\ b \in DOMAIN streams'[id].man
           /\ streams'[id].man[b].etag = e /\ streams'[id].got[b] = x
  BY <1>3 DEF ShapesCome
<1> QED
  BY <1>1, <1>2, <1>3 DEF Tells, InRows

(* What an etag stands for in one place it stood for in another before. *)
LEMMA MeaningsStay ==
    ASSUME EtagsMean, CallsMove, HoldsCome,
           \A k \in Callers : Waits(k)' => calls'[k].id \in Number,
           \A id \in Number, b \in Bodies, e \in Number, x \in Somewhere :
               Tells(id, b, e, x)' =>
                   /\ \E y \in Somewhere : Tells(id, b, e, y)
                   /\ x \in Shapes => Means(b, e, x)
    PROVE  EtagsMean'
<1>1. \A id \in Number : NewId(id) =>
         \A b \in Bodies, e \in Number, y \in Somewhere : ~Tells(id, b, e, y)
  BY DEF NewId, Sent, Tells
<1>2. \A k \in Callers : Waits(k)' =>
         \/ Waits(k) /\ calls'[k] = calls[k]
         \/ NewId(calls'[k].id)
  BY DEF CallsMove, NobodyAsks, Asks, Waits
<1>3. ASSUME NEW b \in Bodies, NEW e \in Number, NEW s \in Shapes, Means(b, e, s)'
      PROVE  Means(b, e, s)
  <2>1. CASE Holds(b, e, s)'
    BY <2>1 DEF HoldsCome
  <2>2. CASE \E id \in Number : Tells(id, b, e, s)'
    BY <2>2 DEF Somewhere
  <2>3. CASE \E k \in Callers : /\ Waits(k)' /\ b \in DOMAIN calls'[k].doc
                                /\ calls'[k].doc[b] = s
                                /\ \E id \in Number : id = calls'[k].id /\
                                      \E x \in Somewhere : Tells(id, b, e, x)'
    <3>1. PICK k \in Callers : /\ Waits(k)' /\ b \in DOMAIN calls'[k].doc
                               /\ calls'[k].doc[b] = s
                               /\ \E id \in Number : id = calls'[k].id /\
                                      \E x \in Somewhere : Tells(id, b, e, x)'
      BY <2>3
    <3>2. PICK y \in Somewhere : \A id \in Number : id = calls'[k].id => Tells(id, b, e, y)
      BY <3>1
    <3>3. Waits(k) /\ calls'[k] = calls[k]
      BY <1>1, <1>2, <3>1, <3>2
    <3> QED
      BY <3>1, <3>2, <3>3 DEF Means
  <2> QED
    <3>1. \/ Holds(b, e, s)'
          \/ \E id \in Number : Tells(id, b, e, s)'
          \/ \E k \in Callers : /\ Waits(k)' /\ b \in DOMAIN calls'[k].doc
                                /\ calls'[k].doc[b] = s
                                /\ \E x \in Somewhere : \E id \in Number :
                                      id = calls'[k].id /\ Tells(id, b, e, x)'
      BY <1>3 DEF Means, Waits, Tells
    <3> QED
      BY <2>1, <2>2, <2>3, <3>1
<1> QED
  BY <1>3 DEF EtagsMean

LEMMA ClientChunks ==
    ASSUME ChunksAreFew, FramesLeft, SendingLeft
    PROVE  ChunksAreFew'
<1>1. \A i \in DOMAIN frames' :
         frames'[i].kind = "chunk" => frames'[i].seq <= Cardinality(Bodies)
  BY DEF ChunksAreFew, FramesLeft
<1>2. sending' # None =>
         sending'.seq + Cardinality(sending'.left) <= Cardinality(Bodies) + 1
  BY DEF ChunksAreFew, SendingLeft
<1> QED
  BY <1>1, <1>2 DEF ChunksAreFew

LEMMA ClientStep ==
    ASSUME IInv, Typed', ClientMoves
    PROVE  InOnePlace' /\ HeadsRule' /\ AllAsAsked' /\ EtagsMean' /\ ChunksAreFew'
<1>1. \A k \in Callers : Waits(k)' => calls'[k].id \in Number
  BY DEF Typed, CallStates, Waits
<1>2. InOnePlace' /\ HeadsRule' /\ AllAsAsked' /\ ChunksAreFew'
  BY ClientPlaces, ClientHeads, ClientAsks, ClientChunks DEF IInv, ClientMoves
<1>3. EtagsMean'
  BY <1>1, ClientTells, MeaningsStay DEF IInv, ClientMoves
<1> QED
  BY <1>2, <1>3
-----------------------------------------------------------------------------
(* A call is made, or settled.                                             *)

Answered(k) ==
    calls'[k].stage = "done" =>
        /\ calls'[k].told.kind # "noMesh"
        /\ calls'[k].told.kind = "good" => calls'[k].told.result = calls'[k].doc

CallsAreKept ==
    /\ CallsMove
    /\ calls' \in [Callers -> CallStates] /\ queue' \in Seq(Requests)
    /\ \A k \in Callers : Answered(k)

LEMMA CallTyped ==
    ASSUME Typed, NEW k \in Callers, Waits(k)
    PROVE  /\ calls[k].op \in Ops /\ calls[k].stage \in Stages
           /\ calls[k].id \in Number /\ calls[k].doc \in Builds
BY DEF Typed, CallStates, Waits

LEMMA CallMade ==
    ASSUME IInv, NEW k \in Callers, NEW op \in Ops, NEW stage \in Stages,
           NEW doc \in Builds, NEW known \in OverBodies(Number),
           op = "computeAll" \/ stage # "first" => known = Nothing,
           calls' = [calls EXCEPT ![k] = Call(op, stage, Unused(IdsInUse), doc)],
           queue' = Append(queue, Request(Unused(IdsInUse), op, stage, doc, known))
    PROVE  CallsAreKept
<1> DEFINE id == Unused(IdsInUse)
           c == Call(op, stage, id, doc)
           r == Request(id, op, stage, doc, known)
<1>1. NewId(id) /\ id \in Number
  BY UnusedIdIsNew DEF IInv, NewId
<1>2. calls \in [Callers -> CallStates] /\ queue \in Seq(Requests)
  BY DEF IInv, Typed
<1> HIDE DEF id
<1>3. c \in CallStates /\ c.stage = stage /\ c.op = op /\ c.id = id /\ c.doc = doc
  BY <1>1 DEF Call, CallStates
<1>4. r \in Requests /\ r.id = id /\ r.op = op /\ r.stage = stage /\ r.doc = doc
      /\ r.known = known
  BY <1>1 DEF Request, Requests
<1>5. calls' = [calls EXCEPT ![k] = c] /\ queue' = Append(queue, r)
  BY DEF id
<1> HIDE DEF c, r
<1>6. calls' \in [Callers -> CallStates] /\ calls'[k] = c
      /\ \A l \in Callers \ {k} : calls'[l] = calls[l]
  BY <1>2, <1>3, <1>5
<1>7. queue' \in Seq(Requests)
  BY <1>2, <1>4, <1>5
<1>8. Waits(k)' /\ (ForAll(k)' => op = "computeAll" \/ stage # "first")
  BY <1>3, <1>6 DEF Waits, ForAll, Stages
<1>9. Asks(k, r)
  BY <1>1, <1>3, <1>4, <1>5, <1>6, <1>8 DEF Asks
<1>10. \A l \in Callers : Answered(l)
  <2>1. Answered(k)
    BY <1>3, <1>6 DEF Answered, Stages
  <2>2. \A l \in Callers \ {k} : Answered(l)
    BY <1>6 DEF Answered, IInv, AnswersAreTheBuild
  <2> QED
    BY <2>1, <2>2
<1> QED
  BY <1>4, <1>6, <1>7, <1>9, <1>10 DEF CallsAreKept, CallsMove

(* What a reply may say to the caller that waits for it. *)
Fits(id, reply) ==
    \A k \in Callers : Waits(k) /\ calls[k].id = id =>
        \/ reply = [kind |-> "failed"]
        \/ reply.kind \in {"resync", "unbacked"} /\ ~ForAll(k)
        \/ reply = Good(calls[k].doc)

LEMMA CallTold ==
    ASSUME IInv, NEW k \in Callers, Waits(k), NEW reply,
           reply = [kind |-> "failed"] \/ reply = Good(calls[k].doc),
           calls' = [calls EXCEPT ![k] = Told(k, Outcome(reply))],
           UNCHANGED queue
    PROVE  CallsAreKept
<1> DEFINE d == calls[k].doc
           c == [stage |-> "done", doc |-> d, told |-> reply]
<1>1. d \in Builds /\ d \in Results
  BY CallTyped, BuildsAreResults DEF IInv
<1>2. reply.kind \in {"good", "failed"} /\ Outcome(reply) = reply
  BY DEF Outcome, Good
<1>3. calls \in [Callers -> CallStates] /\ queue \in Seq(Requests)
  BY DEF IInv, Typed
<1>4. calls' = [calls EXCEPT ![k] = c]
  BY <1>2 DEF Told
<1> HIDE DEF d
<1>5. reply \in Answers
  BY <1>1 DEF Answers, Good, d
<1>6. c \in CallStates /\ c.stage = "done" /\ c.told = reply /\ c.doc = d
  BY <1>1, <1>5 DEF CallStates
<1> HIDE DEF c
<1>7. calls' \in [Callers -> CallStates] /\ calls'[k] = c
      /\ \A l \in Callers \ {k} : calls'[l] = calls[l]
  BY <1>3, <1>4, <1>6
<1>8. NobodyAsks
  BY <1>6, <1>7 DEF NobodyAsks, Waits
<1>9. \A l \in Callers : Answered(l)
  <2>1. Answered(k)
    <3>1. reply.kind # "noMesh" /\ (reply.kind = "good" => reply.result = d)
      BY <1>2 DEF Good, d
    <3> QED
      BY <1>6, <1>7, <3>1 DEF Answered
  <2>2. \A l \in Callers \ {k} : Answered(l)
    BY <1>7 DEF Answered, IInv, AnswersAreTheBuild
  <2> QED
    BY <2>1, <2>2
<1> QED
  BY <1>3, <1>7, <1>8, <1>9 DEF CallsAreKept, CallsMove

LEMMA CallsUntouched ==
    ASSUME IInv, UNCHANGED <<calls, queue>>
    PROVE  CallsAreKept
<1>1. NobodyAsks
  BY DEF NobodyAsks, Waits
<1>2. \A k \in Callers : Answered(k)
  BY DEF Answered, IInv, AnswersAreTheBuild
<1> QED
  BY <1>1, <1>2 DEF CallsAreKept, CallsMove, IInv, Typed

LEMMA SettleKeeps ==
    ASSUME IInv, NEW id, NEW reply, NEW mesh, NEW base,
           Fits(id, reply), Settle(id, reply, mesh, base)
    PROVE  /\ CallsAreKept
           /\ bodyMesh' \in {mesh, NoMeshes} /\ last' \in {base, None}
           /\ streams' = Restrict(streams, DOMAIN streams \ {id})
<1>1. streams' = Restrict(streams, DOMAIN streams \ {id})
  BY DEF Settle
<1>2. CASE id \in Pending
  <2>1. PICK k \in Callers : Waits(k) /\ calls[k].id = id /\ Resume(k, reply, mesh, base)
    BY <1>2 DEF Settle
  <2>2. calls[k].op \in Ops /\ calls[k].stage \in Stages /\ calls[k].doc \in Builds
    BY <2>1, CallTyped DEF IInv
  <2>3. ASSUME NEW stage \in {"again", "whole"}, AskAgain(k, stage)
        PROVE  CallsAreKept /\ bodyMesh' = NoMeshes
    <3>1. calls' = [calls EXCEPT ![k] = Call("rebuild", stage, Unused(IdsInUse), calls[k].doc)]
      BY <2>3 DEF AskAgain
    <3>2. queue' = Append(queue,
             Request(Unused(IdsInUse), "rebuild", stage, calls[k].doc, Nothing))
      BY <2>3 DEF AskAgain
    <3>3. stage \in Stages /\ "rebuild" \in Ops /\ Nothing \in OverBodies(Number)
      BY NothingTyped DEF Stages, Ops
    <3>4. CallsAreKept
      BY <2>2, <3>1, <3>2, <3>3, CallMade
    <3> QED
      BY <2>3, <3>4 DEF AskAgain
  <2>4. CASE reply.kind \in {"resync", "unbacked"} /\ ~ForAll(k)
    <3>1. calls[k].op = "rebuild" /\ calls[k].stage = "first"
      BY <2>2, <2>4 DEF ForAll, Ops
    <3>2. \/ AskAgain(k, "again") /\ last' = base
          \/ AskAgain(k, "whole") /\ last' = None
      BY <2>1, <2>4, <3>1 DEF Resume
    <3> QED
      BY <1>1, <2>3, <3>2
  <2>5. CASE reply = [kind |-> "failed"] \/ reply = Good(calls[k].doc)
    <3>1. reply.kind \notin {"resync", "unbacked"}
      BY <2>5 DEF Good
    <3>2. /\ calls' = [calls EXCEPT ![k] = Told(k, Outcome(reply))]
          /\ bodyMesh' = mesh /\ last' = base /\ UNCHANGED queue
      BY <2>1, <3>1 DEF Resume
    <3>3. CallsAreKept
      BY <2>1, <2>5, <3>2, CallTold
    <3> QED
      BY <1>1, <3>2, <3>3
  <2> QED
    BY <2>1, <2>4, <2>5 DEF Fits
<1>3. CASE id \notin Pending
  <2>1. bodyMesh' = mesh /\ last' = base /\ UNCHANGED <<calls, queue>>
    BY <1>3 DEF Settle
  <2> QED
    BY <1>1, <2>1, CallsUntouched
<1> QED
  BY <1>2, <1>3
-----------------------------------------------------------------------------
(* The steps of the client.                                                *)

StreamTyped(s) ==
    /\ s \in Assemblies
    /\ s.next \in 1 .. Cardinality(Bodies) + 1
    /\ DOMAIN s.got = DOMAIN s.man

StreamsTyped ==
    /\ streams = [id \in DOMAIN streams |-> streams[id]]
    /\ IsFiniteSet(DOMAIN streams) /\ DOMAIN streams \subseteq Number
    /\ \A id \in DOMAIN streams : StreamTyped(streams[id])

BaseTyped(base) ==
    base # None =>
        /\ base.sig \in Manifests /\ base.result \in Results
        /\ DOMAIN base.sig = DOMAIN base.result

FramesTaken ==
    frames' = frames \/ (frames # <<>> /\ frames' = Tail(frames))

LEMMA StreamsAreTyped ==
    ASSUME IInv
    PROVE  StreamsTyped
BY DEF IInv, Typed, TypeOK, StreamsTyped, StreamTyped

LEMMA FramesAreTaken ==
    ASSUME IInv, FramesTaken
    PROVE  FramesLeft /\ frames' \in Seq(Frames) /\ Len(frames') <= Room
<1>1. frames \in Seq(Frames) /\ Len(frames) <= Room /\ Len(frames) \in Nat
  BY LenProperties DEF IInv, Typed, TypeOK
<1>2. CASE frames' = frames
  BY <1>1, <1>2, SameIsLeft
<1>3. CASE frames # <<>> /\ frames' = Tail(frames)
  <2>1. Tail(frames) \in Seq(Frames) /\ Len(Tail(frames)) = Len(frames) - 1
    BY <1>3, HeadFrame DEF IInv
  <2>2. Len(frames') <= Room
    BY <1>1, <1>3, <2>1, StreamAssumption
  <2> QED
    BY <1>3, <2>1, <2>2, TailIsLeft DEF IInv
<1> QED
  BY <1>2, <1>3 DEF FramesTaken

LEMMA ClientKeeps ==
    ASSUME IInv, CallsAreKept, FramesTaken, UNCHANGED <<sending, meshes>>,
           bodyMesh' \in Caches, BaseTyped(last'), StreamsTyped',
           StreamsCome, ShapesCome, HoldsCome,
           conn' \in {"up", "down"}, mishaps' \in 0 .. MaxMishaps
    PROVE  IInv'
<1>1. FramesLeft /\ frames' \in Seq(Frames) /\ Len(frames') <= Room
  BY FramesAreTaken
<1>2. Typed'
  <2>1. streams' \in [DOMAIN streams' -> Assemblies]
    BY DEF StreamsTyped, StreamTyped
  <2> QED
    BY <1>1, <2>1 DEF Typed, CallsAreKept, Caches, StreamsTyped, BaseTyped, IInv
<1>3. ClientMoves
  BY <1>1 DEF ClientMoves, SendingLeft, CallsAreKept
<1>4. InOnePlace' /\ HeadsRule' /\ AllAsAsked' /\ EtagsMean' /\ ChunksAreFew'
  BY <1>2, <1>3, ClientStep
<1>5. TypeOK'
  <2>1. \A k \in Callers : Waits(k)' => calls'[k].doc \in Builds
    BY DEF CallsAreKept, CallStates, Waits
  <2>2. \A b \in Bodies : {bodyMesh'[b], meshes'[b]} \subseteq Payloads \cup {None}
    BY DEF IInv, TypeOK, Caches
  <2>3. \A id \in DOMAIN streams' :
           /\ streams'[id].next \in 1 .. Cardinality(Bodies) + 1
           /\ DOMAIN streams'[id].got = DOMAIN streams'[id].man
           /\ Range(streams'[id].got) \subseteq Shapes \cup {None}
    <3> SUFFICES ASSUME NEW id \in DOMAIN streams'
                 PROVE  /\ streams'[id].next \in 1 .. Cardinality(Bodies) + 1
                        /\ DOMAIN streams'[id].got = DOMAIN streams'[id].man
                        /\ Range(streams'[id].got) \subseteq Shapes \cup {None}
      OBVIOUS
    <3>1. StreamTyped(streams'[id])
      BY DEF StreamsTyped, StreamTyped
    <3>2. \A b \in DOMAIN streams'[id].got : streams'[id].got[b] \in Somewhere
      BY <3>1, AssembliesTyped DEF StreamTyped
    <3> QED
      BY <3>1, <3>2 DEF StreamTyped, Range, Somewhere
  <2>4. sending' # None => sending'.left # {} /\ sending'.left \subseteq DOMAIN sending'.rows
    BY DEF IInv, TypeOK
  <2> QED
    BY <1>1, <2>1, <2>2, <2>3, <2>4 DEF TypeOK, Waits
<1>6. AnswersAreTheBuild'
  BY DEF CallsAreKept, Answered, AnswersAreTheBuild
<1> QED
  BY <1>2, <1>4, <1>5, <1>6 DEF IInv

(* What a stream has, it tells. *)
LEMMA StreamTells ==
    ASSUME IInv, NEW id \in DOMAIN streams, NEW b \in Bodies,
           b \in DOMAIN streams[id].man
    PROVE  /\ streams[id].man[b].etag \in Number
           /\ \E y \in Somewhere : Tells(id, b, streams[id].man[b].etag, y)
           /\ streams[id].got[b] \in Shapes =>
                 Means(b, streams[id].man[b].etag, streams[id].got[b])
<1> DEFINE s == streams[id]
           e == s.man[b].etag
<1>1. StreamTyped(s) /\ id \in Number
  BY StreamsAreTyped DEF StreamsTyped
<1>2. e \in Number /\ s.got[b] \in Somewhere
  BY <1>1, AssembliesTyped DEF StreamTyped
<1>3. Tells(id, b, e, s.got[b])
  BY DEF Tells
<1> QED
  BY <1>1, <1>2, <1>3 DEF Means

LEMMA StreamsRestricted ==
    ASSUME IInv, NEW id, streams' = Restrict(streams, DOMAIN streams \ {id})
    PROVE  StreamsTyped' /\ StreamsCome /\ ShapesCome
<1>1. StreamsTyped
  BY StreamsAreTyped
<1>2. /\ DOMAIN streams' = DOMAIN streams \ {id}
      /\ \A n \in DOMAIN streams' : streams'[n] = streams[n]
      /\ streams' = [n \in DOMAIN streams' |-> streams'[n]]
  BY DEF Restrict
<1>3. IsFiniteSet(DOMAIN streams')
  BY <1>1, <1>2, FS_Subset DEF StreamsTyped
<1>4. \A n \in DOMAIN streams' : StreamTyped(streams[n])
  BY <1>1, <1>2 DEF StreamsTyped
<1>5. \A n \in DOMAIN streams' : StreamTyped(streams'[n])
  BY <1>2, <1>4
<1>6. StreamsTyped'
  BY <1>1, <1>2, <1>3, <1>5 DEF StreamsTyped, StreamTyped, Assemblies
<1>7. StreamsCome
  BY <1>2 DEF StreamsCome
<1>8. ShapesCome
  BY <1>2, StreamTells DEF ShapesCome
<1> QED
  BY <1>6, <1>7, <1>8

MeshComes(mesh) ==
    \A b \in Bodies : mesh[b] # None => Means(b, mesh[b].etag, mesh[b].shape)

BaseComes(base) ==
    base # None => \A b \in DOMAIN base.sig : Means(b, base.sig[b].etag, base.result[b])

LEMMA HeldMeans ==
    /\ MeshComes(bodyMesh) /\ MeshComes(meshes) /\ BaseComes(last)
    /\ MeshComes(NoMeshes) /\ BaseComes(None)
<1>1. MeshComes(bodyMesh) /\ MeshComes(meshes) /\ BaseComes(last)
  BY DEF MeshComes, BaseComes, Means, Holds
<1>2. MeshComes(NoMeshes) /\ BaseComes(None)
  BY NoMeshesTyped DEF MeshComes, BaseComes
<1> QED
  BY <1>1, <1>2

LEMMA HeldComes ==
    ASSUME MeshComes(bodyMesh'), MeshComes(meshes'), BaseComes(last')
    PROVE  HoldsCome
BY DEF MeshComes, BaseComes, HoldsCome, Holds

LEMMA SettleStep ==
    ASSUME IInv, NEW id, NEW reply, NEW mesh \in Caches, NEW base,
           Fits(id, reply), Settle(id, reply, mesh, base),
           FramesTaken, UNCHANGED <<sending, meshes>>,
           BaseTyped(base), MeshComes(mesh), BaseComes(base),
           conn' \in {"up", "down"}, mishaps' \in 0 .. MaxMishaps
    PROVE  IInv'
<1>1. /\ CallsAreKept
      /\ bodyMesh' \in {mesh, NoMeshes} /\ last' \in {base, None}
      /\ streams' = Restrict(streams, DOMAIN streams \ {id})
  BY SettleKeeps
<1>2. StreamsTyped' /\ StreamsCome /\ ShapesCome
  BY <1>1, StreamsRestricted
<1>3. bodyMesh' \in Caches /\ BaseTyped(last')
  BY <1>1, NoMeshesTyped DEF BaseTyped
<1>4. HoldsCome
  BY <1>1, HeldMeans, HeldComes
<1> QED
  BY <1>1, <1>2, <1>3, <1>4, ClientKeeps

(* What the frame that arrives tells. *)
LEMMA HeadTells ==
    ASSUME IInv, frames # <<>>
    PROVE  LET f == Head(frames)
           IN  /\ f \in Frames /\ f.id \in Number /\ f.rows \in RowSets
               /\ \A b \in DOMAIN f.rows :
                     /\ b \in Bodies /\ f.rows[b].etag \in Number
                     /\ \E y \in Somewhere : Tells(f.id, b, f.rows[b].etag, y)
                     /\ f.rows[b].shape # None =>
                           /\ f.rows[b].shape \in Shapes
                           /\ Means(b, f.rows[b].etag, f.rows[b].shape)
<1> DEFINE f == Head(frames)
<1>1. f \in Frames /\ f = frames[1] /\ 1 \in DOMAIN frames /\ f.id \in Number
      /\ f.rows \in RowSets
  BY HeadFrame DEF IInv
<1>2. ASSUME NEW b \in DOMAIN f.rows
      PROVE  /\ b \in Bodies /\ f.rows[b].etag \in Number
             /\ f.rows[b].shape \in Somewhere
             /\ Tells(f.id, b, f.rows[b].etag, f.rows[b].shape)
  <2>1. b \in Bodies /\ f.rows[b].etag \in Number /\ f.rows[b].shape \in Somewhere
    BY <1>1, RowsTyped
  <2>2. Tells(f.id, b, f.rows[b].etag, f.rows[b].shape)
    BY <1>1 DEF Tells, InRows
  <2> QED
    BY <2>1, <2>2
<1> HIDE DEF f
<1>3. ASSUME NEW b \in DOMAIN f.rows, f.rows[b].shape # None
      PROVE  f.rows[b].shape \in Shapes /\ Means(b, f.rows[b].etag, f.rows[b].shape)
  BY <1>1, <1>2, <1>3 DEF Somewhere, Means
<1>4. \A b \in DOMAIN f.rows :
         /\ b \in Bodies /\ f.rows[b].etag \in Number
         /\ \E y \in Somewhere : Tells(f.id, b, f.rows[b].etag, y)
         /\ f.rows[b].shape # None =>
               /\ f.rows[b].shape \in Shapes
               /\ Means(b, f.rows[b].etag, f.rows[b].shape)
  BY <1>2, <1>3
<1> QED
  BY <1>1, <1>4 DEF f

LEMMA KeptComes ==
    ASSUME IInv, frames # <<>>
    PROVE  LET m == Kept(Head(frames).rows, bodyMesh) IN m \in Caches /\ MeshComes(m)
<1> DEFINE rows == Head(frames).rows
           m == Kept(rows, bodyMesh)
<1>1. bodyMesh \in Caches /\ rows \in RowSets
  BY HeadTells DEF IInv, Typed, Caches
<1>2. m \in Caches /\ \A b \in Bodies :
         \/ m[b] = bodyMesh[b]
         \/ b \in DOMAIN rows /\ rows[b].shape # None /\ m[b] = rows[b]
  BY <1>1, KeptTyped
<1>3. \A b \in DOMAIN rows : rows[b].shape # None => Means(b, rows[b].etag, rows[b].shape)
  BY HeadTells
<1> HIDE DEF m, rows
<1>4. MeshComes(m)
  BY <1>2, <1>3, HeldMeans DEF MeshComes
<1> QED
  BY <1>2, <1>4 DEF m, rows

LEMMA PrunedComes ==
    ASSUME NEW mesh \in Caches, MeshComes(mesh), NEW man
    PROVE  Pruned(man, mesh) \in Caches /\ MeshComes(Pruned(man, mesh))
<1>1. Pruned(man, mesh) \in Caches /\ \A b \in Bodies : Pruned(man, mesh)[b] \in {mesh[b], None}
  BY PrunedTyped
<1> QED
  BY <1>1 DEF MeshComes

(* A result whose shapes are those of the etags told is what was asked.    *)
LEMMA GoodFits ==
    ASSUME IInv, NEW id, NEW result \in Results,
           \A k \in Callers : Waits(k) /\ calls[k].id = id =>
               /\ DOMAIN result = DOMAIN calls[k].doc
               /\ \A b \in DOMAIN result : \E e \in Number :
                     /\ Means(b, e, result[b])
                     /\ \E y \in Somewhere : Tells(id, b, e, y)
    PROVE  Fits(id, Good(result))
<1> SUFFICES ASSUME NEW k \in Callers, Waits(k), calls[k].id = id
             PROVE  result = calls[k].doc
  BY DEF Fits, Good
<1> DEFINE doc == calls[k].doc
<1>1. doc \in Results
  BY CallTyped, BuildsAreResults DEF IInv
<1>2. DOMAIN result = DOMAIN doc
  OBVIOUS
<1>3. ASSUME NEW b \in DOMAIN result PROVE result[b] = doc[b]
  <2>1. PICK e \in Number : Means(b, e, result[b]) /\ \E y \in Somewhere : Tells(id, b, e, y)
    OBVIOUS
  <2>2. Means(b, e, doc[b])
    BY <1>2, <2>1 DEF Means
  <2>3. b \in Bodies /\ result[b] \in Shapes /\ doc[b] \in Shapes
    BY <1>1, <1>2, ResultsTyped
  <2> QED
    BY <2>1, <2>2, <2>3 DEF IInv, EtagsMean
<1>4. result = [b \in DOMAIN result |-> result[b]] /\ doc = [b \in DOMAIN doc |-> doc[b]]
  BY <1>1, OverBodiesIs DEF Results
<1> HIDE DEF doc
<1>5. result = doc
  BY <1>2, <1>3, <1>4
<1> QED
  BY <1>5 DEF doc

LEMMA FailedFits ==
    ASSUME NEW id
    PROVE  Fits(id, [kind |-> "failed"])
BY DEF Fits

(* A frame with a stub is for a caller that has not asked for everything.  *)
LEMMA UnbackedFits ==
    ASSUME IInv, frames # <<>>, NEW kind \in {"resync", "unbacked"},
           ~Backed(Head(frames).rows, bodyMesh)
    PROVE  Fits(Head(frames).id, [kind |-> kind])
<1>1. ~NoStub(Head(frames).rows)
  BY DEF Backed, NoStub
<1>2. Head(frames) = frames[1] /\ 1 \in DOMAIN frames
  BY HeadFrame DEF IInv
<1>3. \A k \in Callers : Waits(k) /\ calls[k].id = Head(frames).id => ~ForAll(k)
  BY <1>1, <1>2 DEF IInv, AllAsAsked, AsAsked
<1> QED
  BY <1>3 DEF Fits

(* The client looks at nothing, or drops what it gets. *)
LEMMA ClientIdle ==
    ASSUME IInv, UNCHANGED <<client, queue, sending, meshes>>, FramesTaken,
           conn' \in {"up", "down"}, mishaps' \in 0 .. MaxMishaps
    PROVE  IInv'
<1>1. UNCHANGED <<calls, bodyMesh, streams, last, queue, sending, meshes>>
  BY DEF client
<1>2. CallsAreKept
  BY <1>1, CallsUntouched
<1>3. StreamsTyped' /\ StreamsCome /\ ShapesCome
  <2>1. StreamsTyped
    BY StreamsAreTyped
  <2>2. StreamsTyped'
    BY <1>1, <2>1 DEF StreamsTyped, StreamTyped, Assemblies
  <2> QED
    BY <1>1, <2>2, StreamTells DEF StreamsCome, ShapesCome
<1>4. HoldsCome
  BY <1>1, HeldMeans, HeldComes
<1>5. bodyMesh' \in Caches /\ BaseTyped(last')
  BY <1>1 DEF IInv, Typed, Caches, BaseTyped
<1> QED
  BY <1>1, <1>2, <1>3, <1>4, <1>5, ClientKeeps

LEMMA TextStep ==
    ASSUME IInv, ReceiveText
    PROVE  IInv'
<1> DEFINE f == Head(frames)
<1>1. /\ frames # <<>> /\ f.kind \in {"failed", "resync"} /\ frames' = Tail(frames)
      /\ UNCHANGED <<conn, sending, meshes, mishaps>>
  BY DEF ReceiveText, Arrives, engine
<1>2. FramesTaken /\ conn' \in {"up", "down"} /\ mishaps' \in 0 .. MaxMishaps
  BY <1>1 DEF FramesTaken, IInv, TypeOK
<1>3. bodyMesh \in Caches /\ BaseTyped(last)
  BY DEF IInv, Typed, Caches, BaseTyped
<1>4. CASE Settle(f.id, [kind |-> f.kind], bodyMesh, last)
  <2>1. f = frames[1] /\ 1 \in DOMAIN frames
    BY <1>1, HeadFrame DEF IInv
  <2>2. Fits(f.id, [kind |-> f.kind])
    <3>1. CASE f.kind = "failed"
      BY <3>1, FailedFits
    <3>2. CASE f.kind = "resync"
      <4>1. \A k \in Callers : Waits(k) /\ calls[k].id = f.id => ~ForAll(k)
        BY <2>1, <3>2 DEF IInv, AllAsAsked, AsAsked
      <4> QED
        BY <3>2, <4>1 DEF Fits
    <3> QED
      BY <1>1, <3>1, <3>2
  <2> HIDE DEF f
  <2> QED
    BY <1>1, <1>2, <1>3, <1>4, <2>2, HeldMeans, SettleStep
<1>5. CASE UNCHANGED <<client, queue>>
  BY <1>1, <1>2, <1>5, ClientIdle
<1> QED
  BY <1>4, <1>5 DEF ReceiveText

(* All is as it was: the baseline is what is there. *)
LEMMA UnchangedStep ==
    ASSUME IInv, frames # <<>>, frames' = Tail(frames),
           UNCHANGED <<conn, sending, meshes, mishaps>>,
           Head(frames).kind \in {"head", "whole"}, Unchanged(Head(frames).rows),
           Settle(Head(frames).id, Good(last.result), bodyMesh, last)
    PROVE  IInv'
<1> DEFINE f == Head(frames)
           rows == f.rows
<1>1. /\ f = frames[1] /\ 1 \in DOMAIN frames /\ rows \in RowSets
      /\ \A b \in DOMAIN rows : /\ rows[b].etag \in Number
                                /\ \E y \in Somewhere : Tells(f.id, b, rows[b].etag, y)
  BY HeadFrame, HeadTells DEF IInv
<1>2. bodyMesh \in Caches /\ BaseTyped(last) /\ last # None /\ last.sig = Sig(rows)
  BY DEF IInv, Typed, Caches, BaseTyped, Unchanged
<1>3. /\ last.result \in Results /\ DOMAIN last.result = DOMAIN rows
      /\ \A b \in DOMAIN rows : last.sig[b].etag = rows[b].etag
  BY <1>1, <1>2, RowsTyped DEF BaseTyped
<1>4. \A b \in DOMAIN rows : Means(b, rows[b].etag, last.result[b])
  BY <1>2, <1>3, HeldMeans DEF BaseComes, BaseTyped
<1>5. \A k \in Callers : Waits(k) /\ calls[k].id = f.id => DOMAIN rows = DOMAIN calls[k].doc
  BY <1>1 DEF IInv, AllAsAsked, AsAsked
<1>6. Fits(f.id, Good(last.result))
  <2> HIDE DEF f, rows
  <2> QED
    BY <1>1, <1>3, <1>4, <1>5, GoodFits
<1>7. FramesTaken /\ conn' \in {"up", "down"} /\ mishaps' \in 0 .. MaxMishaps
  BY DEF FramesTaken, IInv, TypeOK
<1> QED
  BY <1>2, <1>6, <1>7, HeldMeans, SettleStep

LEMMA WholeStep ==
    ASSUME IInv, ReceiveWhole
    PROVE  IInv'
<1> DEFINE f == Head(frames)
           rows == f.rows
           b0 == Begun(rows, bodyMesh)
           s == Written(rows, b0)
           mesh == Pruned(rows, Kept(rows, bodyMesh))
<1>1. /\ frames # <<>> /\ f.kind = "whole" /\ frames' = Tail(frames)
      /\ UNCHANGED <<conn, sending, meshes, mishaps>>
  BY DEF ReceiveWhole, Arrives, engine
<1>2. FramesTaken /\ conn' \in {"up", "down"} /\ mishaps' \in 0 .. MaxMishaps
  BY <1>1 DEF FramesTaken, IInv, TypeOK
<1>3. bodyMesh \in Caches /\ BaseTyped(last)
  BY DEF IInv, Typed, Caches, BaseTyped
<1>4. /\ f = frames[1] /\ 1 \in DOMAIN frames /\ rows \in RowSets
      /\ \A b \in DOMAIN rows :
            /\ b \in Bodies /\ rows[b].etag \in Number
            /\ \E y \in Somewhere : Tells(f.id, b, rows[b].etag, y)
            /\ rows[b].shape # None =>
                  rows[b].shape \in Shapes /\ Means(b, rows[b].etag, rows[b].shape)
  BY <1>1, HeadFrame, HeadTells DEF IInv
<1>5. CASE f.id \notin Pending
  <2>1. UNCHANGED <<client, queue>>
    BY <1>5 DEF ReceiveWhole
  <2> QED
    BY <1>1, <1>2, <2>1, ClientIdle
<1>6. CASE f.id \in Pending /\ ~Backed(rows, bodyMesh)
  <2>1. Settle(f.id, [kind |-> "unbacked"], bodyMesh, last)
    BY <1>6 DEF ReceiveWhole
  <2>2. Fits(f.id, [kind |-> "unbacked"])
    BY <1>1, <1>6, UnbackedFits
  <2> HIDE DEF f
  <2> QED
    BY <1>1, <1>2, <1>3, <2>1, <2>2, HeldMeans, SettleStep
<1>7. CASE f.id \in Pending /\ Backed(rows, bodyMesh) /\ Unchanged(rows)
  <2>1. Settle(f.id, Good(last.result), bodyMesh, last)
    BY <1>7 DEF ReceiveWhole
  <2> QED
    BY <1>1, <1>7, <2>1, UnchangedStep
<1>8. CASE f.id \in Pending /\ Backed(rows, bodyMesh) /\ ~Unchanged(rows)
  <2>1. Settle(f.id, Good(s.got), mesh, Baseline(s))
    BY <1>8 DEF ReceiveWhole
  <2>2. /\ b0 \in Assemblies /\ b0.man = Sig(rows) /\ DOMAIN b0.got = DOMAIN rows
        /\ \A b \in DOMAIN rows :
              \/ rows[b].shape # None /\ b0.got[b] = None
              \/ /\ rows[b].shape = None /\ bodyMesh[b] # None
                 /\ bodyMesh[b].etag = rows[b].etag /\ bodyMesh[b].shape \in Shapes
                 /\ b0.got[b] = bodyMesh[b].shape
    BY <1>3, <1>4, <1>8, BegunTyped
  <2> HIDE DEF b0
  <2>3. /\ s \in Assemblies /\ s.man = b0.man /\ DOMAIN s.got = DOMAIN b0.got
        /\ \A b \in DOMAIN b0.got :
              \/ b \in DOMAIN rows /\ rows[b].shape # None /\ s.got[b] = rows[b].shape
              \/ s.got[b] = b0.got[b] /\ (b \in DOMAIN rows => rows[b].shape = None)
    BY <1>4, <2>2, WrittenTyped
  <2> HIDE DEF s
  <2>4. \A b \in DOMAIN rows : /\ s.got[b] \in Shapes
                               /\ Means(b, rows[b].etag, s.got[b])
    <3> SUFFICES ASSUME NEW b \in DOMAIN rows
                 PROVE  s.got[b] \in Shapes /\ Means(b, rows[b].etag, s.got[b])
      OBVIOUS
    <3>1. CASE rows[b].shape # None
      BY <1>4, <2>2, <2>3, <3>1
    <3>2. CASE rows[b].shape = None
      <4>1. /\ s.got[b] = bodyMesh[b].shape /\ bodyMesh[b].etag = rows[b].etag
            /\ bodyMesh[b] # None /\ bodyMesh[b].shape \in Shapes
        BY <2>2, <2>3, <3>2
      <4> QED
        BY <1>4, <4>1, HeldMeans DEF MeshComes
    <3> QED
      BY <3>1, <3>2
  <2>5. /\ s.got \in OverBodies(Somewhere) /\ DOMAIN s.got = DOMAIN rows
        /\ s.man \in Manifests /\ DOMAIN s.man = DOMAIN rows
        /\ \A b \in DOMAIN rows : s.man[b].etag = rows[b].etag
    BY <1>4, <2>2, <2>3, RowsTyped, AssembliesTyped
  <2>6. s.got \in Results
    <3>1. s.got \in [DOMAIN s.got -> Somewhere] /\ DOMAIN s.got \subseteq Bodies
      BY <2>5, OverBodiesIs
    <3>2. s.got \in [DOMAIN s.got -> Shapes]
      BY <2>4, <2>5, <3>1
    <3> QED
      BY <3>1, <3>2, OverBodiesIs DEF Results
  <2>7. \A k \in Callers : Waits(k) /\ calls[k].id = f.id => DOMAIN rows = DOMAIN calls[k].doc
    BY <1>1, <1>4 DEF IInv, AllAsAsked, AsAsked
  <2>8. mesh \in Caches /\ MeshComes(mesh)
    BY <1>1, KeptComes, PrunedComes
  <2>9. BaseTyped(Baseline(s)) /\ BaseComes(Baseline(s))
    BY <2>4, <2>5, <2>6 DEF BaseTyped, BaseComes, Baseline
  <2> HIDE DEF f, rows, mesh
  <2>10. Fits(f.id, Good(s.got))
    BY <1>4, <2>4, <2>5, <2>6, <2>7, GoodFits
  <2> QED
    BY <1>1, <1>2, <2>1, <2>8, <2>9, <2>10, SettleStep
<1> QED
  BY <1>5, <1>6, <1>7, <1>8

(* A head that opens a stream. *)
LEMMA OpenStep ==
    ASSUME IInv, frames # <<>>, frames' = Tail(frames),
           UNCHANGED <<conn, sending, meshes, mishaps>>,
           Head(frames).kind = "head", Backed(Head(frames).rows, bodyMesh),
           streams' = [id \in DOMAIN streams \cup {Head(frames).id} |->
                          IF id = Head(frames).id
                          THEN Begun(Head(frames).rows, bodyMesh) ELSE streams[id]],
           UNCHANGED <<calls, bodyMesh, last, queue>>
    PROVE  IInv'
<1> DEFINE f == Head(frames)
           rows == f.rows
           s == Begun(rows, bodyMesh)
<1>1. /\ f.id \in Number /\ rows \in RowSets
      /\ \A b \in DOMAIN rows :
            /\ b \in Bodies /\ rows[b].etag \in Number
            /\ \E y \in Somewhere : Tells(f.id, b, rows[b].etag, y)
  BY HeadTells
<1>2. FramesTaken /\ conn' \in {"up", "down"} /\ mishaps' \in 0 .. MaxMishaps
  BY DEF FramesTaken, IInv, TypeOK
<1>3. bodyMesh \in Caches /\ BaseTyped(last)
  BY DEF IInv, Typed, Caches, BaseTyped
<1>4. /\ s \in Assemblies /\ s.next = 1 /\ s.man = Sig(rows) /\ DOMAIN s.got = DOMAIN rows
      /\ \A b \in DOMAIN rows :
            \/ rows[b].shape # None /\ s.got[b] = None
            \/ /\ rows[b].shape = None /\ bodyMesh[b] # None
               /\ bodyMesh[b].etag = rows[b].etag /\ bodyMesh[b].shape \in Shapes
               /\ s.got[b] = bodyMesh[b].shape
  BY <1>1, <1>3, BegunTyped
<1>5. /\ DOMAIN s.man = DOMAIN rows /\ \A b \in DOMAIN rows : s.man[b].etag = rows[b].etag
  BY <1>1, <1>4, RowsTyped
<1>6. /\ DOMAIN streams' = DOMAIN streams \cup {f.id}
      /\ streams' = [n \in DOMAIN streams' |-> streams'[n]]
      /\ streams'[f.id] = s
      /\ \A n \in DOMAIN streams : n # f.id => streams'[n] = streams[n]
  OBVIOUS
<1> HIDE DEF s
<1>7. StreamTyped(s)
  <2>1. Cardinality(Bodies) \in Nat
    BY StreamAssumption, FS_CardinalityType
  <2> QED
    BY <1>4, <1>5, <2>1 DEF StreamTyped
<1>8. StreamsTyped'
  <2>1. StreamsTyped
    BY StreamsAreTyped
  <2>2. IsFiniteSet(DOMAIN streams') /\ DOMAIN streams' \subseteq Number
    BY <1>1, <1>6, <2>1, FS_AddElement DEF StreamsTyped
  <2>3. \A n \in DOMAIN streams' : StreamTyped(streams'[n])
    BY <1>6, <1>7, <2>1 DEF StreamsTyped
  <2> QED
    BY <1>6, <2>2, <2>3 DEF StreamsTyped, StreamTyped, Assemblies
<1>9. StreamsCome
  <2>1. Opened(f.id)
    BY <1>4, <1>6 DEF Opened
  <2> QED
    BY <1>6, <2>1 DEF StreamsCome
<1>10. ShapesCome
  <2>1. ASSUME NEW b \in DOMAIN rows
        PROVE  /\ \E y \in Somewhere : Tells(f.id, b, s.man[b].etag, y)
               /\ s.got[b] \in Shapes => Means(b, s.man[b].etag, s.got[b])
    <3>1. \E y \in Somewhere : Tells(f.id, b, s.man[b].etag, y)
      BY <1>1, <1>5
    <3>2. ASSUME s.got[b] \in Shapes PROVE Means(b, s.man[b].etag, s.got[b])
      <4>1. /\ bodyMesh[b] # None /\ bodyMesh[b].etag = s.man[b].etag
            /\ s.got[b] = bodyMesh[b].shape
        BY <1>4, <1>5, <3>2, StreamAssumption
      <4> QED
        BY <1>1, <4>1, HeldMeans DEF MeshComes
    <3> QED
      BY <3>1, <3>2
  <2>2. ASSUME NEW n \in DOMAIN streams, NEW b \in Bodies, n # f.id,
               b \in DOMAIN streams'[n].man
        PROVE  /\ \E y \in Somewhere : Tells(n, b, streams'[n].man[b].etag, y)
               /\ streams'[n].got[b] \in Shapes =>
                     Means(b, streams'[n].man[b].etag, streams'[n].got[b])
    BY <1>6, <2>2, StreamTells
  <2> HIDE DEF f, rows
  <2> QED
    BY <1>5, <1>6, <2>1, <2>2 DEF ShapesCome
<1>11. CallsAreKept
  BY CallsUntouched
<1>12. HoldsCome
  BY HeldMeans, HeldComes
<1>13. bodyMesh' \in Caches /\ BaseTyped(last')
  BY <1>3
<1> QED
  BY <1>2, <1>8, <1>9, <1>10, <1>11, <1>12, <1>13, ClientKeeps

LEMMA HeadStep ==
    ASSUME IInv, ReceiveHead
    PROVE  IInv'
<1> DEFINE f == Head(frames)
           rows == f.rows
           s == Begun(rows, bodyMesh)
           mesh == Pruned(rows, bodyMesh)
<1>1. /\ frames # <<>> /\ f.kind = "head" /\ frames' = Tail(frames)
      /\ UNCHANGED <<conn, sending, meshes, mishaps>>
  BY DEF ReceiveHead, Arrives, engine
<1>2. FramesTaken /\ conn' \in {"up", "down"} /\ mishaps' \in 0 .. MaxMishaps
  BY <1>1 DEF FramesTaken, IInv, TypeOK
<1>3. bodyMesh \in Caches /\ BaseTyped(last)
  BY DEF IInv, Typed, Caches, BaseTyped
<1>4. f = frames[1] /\ 1 \in DOMAIN frames /\ rows \in RowSets
  BY <1>1, HeadFrame, HeadTells DEF IInv
<1>5. CASE ~Backed(rows, bodyMesh)
  <2>1. Settle(f.id, [kind |-> "resync"], bodyMesh, last)
    BY <1>5 DEF ReceiveHead
  <2>2. Fits(f.id, [kind |-> "resync"])
    BY <1>1, <1>5, UnbackedFits
  <2> HIDE DEF f
  <2> QED
    BY <1>1, <1>2, <1>3, <2>1, <2>2, HeldMeans, SettleStep
<1>6. CASE Backed(rows, bodyMesh) /\ Unchanged(rows)
  <2>1. Settle(f.id, Good(last.result), bodyMesh, last)
    BY <1>6 DEF ReceiveHead
  <2> QED
    BY <1>1, <1>6, <2>1, UnchangedStep
<1>7. CASE Backed(rows, bodyMesh) /\ ~Unchanged(rows) /\ f.final
  <2>1. Settle(f.id, Good(s.got), mesh, Baseline(s))
    BY <1>7 DEF ReceiveHead
  <2>2. rows = Nothing /\ DOMAIN rows = {}
    BY <1>1, <1>4, <1>7, NothingTyped DEF IInv, HeadsRule, Heads
  <2>3. s \in Assemblies /\ s.man = Sig(rows) /\ DOMAIN s.got = {}
    BY <1>3, <1>4, <1>7, <2>2, BegunTyped
  <2> HIDE DEF s
  <2>4. s.got \in OverBodies(Somewhere) /\ s.man \in Manifests /\ DOMAIN s.man = {}
    BY <1>4, <2>2, <2>3, RowsTyped, AssembliesTyped
  <2>5. s.got \in Results
    <3>1. s.got \in [DOMAIN s.got -> Somewhere]
      BY <2>4, OverBodiesIs
    <3>2. s.got \in [DOMAIN s.got -> Shapes] /\ DOMAIN s.got \subseteq Bodies
      BY <2>3, <3>1
    <3> QED
      BY <3>2, OverBodiesIs DEF Results
  <2>6. \A k \in Callers : Waits(k) /\ calls[k].id = f.id => DOMAIN calls[k].doc = {}
    BY <1>1, <1>4, <2>2 DEF IInv, AllAsAsked, AsAsked
  <2>7. mesh \in Caches /\ MeshComes(mesh)
    BY <1>3, HeldMeans, PrunedComes
  <2>8. BaseTyped(Baseline(s)) /\ BaseComes(Baseline(s))
    BY <2>3, <2>4, <2>5 DEF BaseTyped, BaseComes, Baseline
  <2> HIDE DEF f, rows, mesh
  <2>9. Fits(f.id, Good(s.got))
    BY <2>3, <2>5, <2>6, GoodFits
  <2> QED
    BY <1>1, <1>2, <2>1, <2>7, <2>8, <2>9, SettleStep
<1>8. CASE Backed(rows, bodyMesh) /\ ~Unchanged(rows) /\ ~f.final
  <2>1. /\ streams' = [id \in DOMAIN streams \cup {f.id} |->
                          IF id = f.id THEN s ELSE streams[id]]
        /\ UNCHANGED <<calls, bodyMesh, last, queue>>
    BY <1>8 DEF ReceiveHead
  <2> QED
    BY <1>1, <1>8, <2>1, OpenStep
<1> QED
  BY <1>5, <1>6, <1>7, <1>8

(* A chunk for a stream: its shapes are under the etags of the manifest.   *)
LEMMA ChunkWritten ==
    ASSUME IInv, frames # <<>>, Head(frames).kind = "chunk",
           Head(frames).id \in DOMAIN streams,
           Head(frames).seq = streams[Head(frames).id].next
    PROVE  LET f == Head(frames)
               s == Written(f.rows, streams[f.id])
           IN  /\ StreamTyped(s) /\ s.man = streams[f.id].man
               /\ \A b \in DOMAIN s.man :
                     /\ b \in Bodies /\ s.man[b].etag \in Number
                     /\ \E y \in Somewhere : Tells(f.id, b, s.man[b].etag, y)
                     /\ s.got[b] \in Shapes => Means(b, s.man[b].etag, s.got[b])
<1> DEFINE f == Head(frames)
           rows == f.rows
           old == streams[f.id]
           s == Written(rows, old)
<1>1. /\ f = frames[1] /\ 1 \in DOMAIN frames /\ rows \in RowSets /\ f.id \in DOMAIN streams
      /\ f.kind = "chunk" /\ f.seq = old.next
      /\ \A b \in DOMAIN rows : rows[b].shape # None =>
            rows[b].shape \in Shapes /\ Means(b, rows[b].etag, rows[b].shape)
  BY HeadFrame, HeadTells DEF IInv
<1>2. StreamTyped(old)
  BY <1>1, StreamsAreTyped DEF StreamsTyped
<1>3. Agrees(rows, old.man)
  BY <1>1 DEF IInv, HeadsRule
<1>4. f.seq <= Cardinality(Bodies) /\ Cardinality(Bodies) \in Nat
  BY <1>1, StreamAssumption, FS_CardinalityType DEF IInv, ChunksAreFew
<1>5. \A b \in DOMAIN old.man : b \in Bodies =>
         /\ old.man[b].etag \in Number
         /\ \E y \in Somewhere : Tells(f.id, b, old.man[b].etag, y)
         /\ old.got[b] \in Shapes => Means(b, old.man[b].etag, old.got[b])
  BY <1>1, StreamTells
<1>6. /\ old \in Assemblies /\ old.next \in Number /\ DOMAIN old.man \subseteq Bodies
      /\ DOMAIN old.got = DOMAIN old.man
  BY <1>2, AssembliesTyped DEF StreamTyped
<1> HIDE DEF f, rows, old
<1>7. /\ s \in Assemblies /\ s.next = old.next + 1 /\ s.man = old.man
      /\ DOMAIN s.got = DOMAIN old.got
      /\ \A b \in DOMAIN old.got :
            \/ b \in DOMAIN rows /\ rows[b].shape # None /\ s.got[b] = rows[b].shape
            \/ s.got[b] = old.got[b] /\ (b \in DOMAIN rows => rows[b].shape = None)
  BY <1>1, <1>6, WrittenTyped
<1> HIDE DEF s
<1>8. StreamTyped(s)
  <2>1. s.next \in 1 .. Cardinality(Bodies) + 1
    BY <1>1, <1>4, <1>6, <1>7 DEF Number
  <2> QED
    BY <1>6, <1>7, <2>1 DEF StreamTyped
<1>9. ASSUME NEW b \in DOMAIN s.man
      PROVE  /\ b \in Bodies /\ s.man[b].etag \in Number
             /\ \E y \in Somewhere : Tells(f.id, b, s.man[b].etag, y)
             /\ s.got[b] \in Shapes => Means(b, s.man[b].etag, s.got[b])
  <2>1. b \in Bodies /\ b \in DOMAIN old.man /\ b \in DOMAIN old.got
    BY <1>6, <1>7
  <2>2. CASE s.got[b] = old.got[b]
    BY <1>5, <1>7, <2>1, <2>2
  <2>3. CASE b \in DOMAIN rows /\ rows[b].shape # None /\ s.got[b] = rows[b].shape
    <3>1. rows[b].etag = old.man[b].etag
      BY <1>3, <2>3 DEF Agrees
    <3> QED
      BY <1>1, <1>5, <1>7, <2>1, <2>3, <3>1
  <2> QED
    BY <1>7, <2>1, <2>2, <2>3
<1>10. /\ StreamTyped(s) /\ s.man = old.man
       /\ \A b \in DOMAIN s.man :
             /\ b \in Bodies /\ s.man[b].etag \in Number
             /\ \E y \in Somewhere : Tells(f.id, b, s.man[b].etag, y)
             /\ s.got[b] \in Shapes => Means(b, s.man[b].etag, s.got[b])
  BY <1>7, <1>8, <1>9
<1> QED
  BY <1>10 DEF f, rows, old, s

(* A chunk that is not the last. *)
LEMMA WriteStep ==
    ASSUME IInv, frames # <<>>, frames' = Tail(frames),
           UNCHANGED <<conn, sending, meshes, mishaps>>,
           Head(frames).kind = "chunk", Head(frames).id \in DOMAIN streams,
           Head(frames).seq = streams[Head(frames).id].next,
           streams' = [streams EXCEPT ![Head(frames).id] =
                          Written(Head(frames).rows, streams[Head(frames).id])],
           bodyMesh' = Kept(Head(frames).rows, bodyMesh),
           UNCHANGED <<calls, last, queue>>
    PROVE  IInv'
<1> DEFINE f == Head(frames)
           s == Written(f.rows, streams[f.id])
           mesh == Kept(f.rows, bodyMesh)
<1>1. FramesTaken /\ conn' \in {"up", "down"} /\ mishaps' \in 0 .. MaxMishaps
  BY DEF FramesTaken, IInv, TypeOK
<1>2. /\ StreamTyped(s) /\ s.man = streams[f.id].man
      /\ \A b \in DOMAIN s.man :
            /\ b \in Bodies /\ s.man[b].etag \in Number
            /\ \E y \in Somewhere : Tells(f.id, b, s.man[b].etag, y)
            /\ s.got[b] \in Shapes => Means(b, s.man[b].etag, s.got[b])
  BY ChunkWritten
<1>3. mesh \in Caches /\ MeshComes(mesh)
  BY KeptComes
<1>4. StreamsTyped
  BY StreamsAreTyped
<1>5. /\ DOMAIN streams' = DOMAIN streams /\ f.id \in DOMAIN streams
      /\ streams'[f.id] = s
      /\ \A n \in DOMAIN streams : n # f.id => streams'[n] = streams[n]
      /\ streams' = [n \in DOMAIN streams' |-> streams'[n]]
  BY <1>4 DEF StreamsTyped
<1>6. bodyMesh' = mesh
  OBVIOUS
<1> HIDE DEF s, mesh, f
<1>7. StreamsTyped'
  <2>1. \A n \in DOMAIN streams' : StreamTyped(streams'[n])
    BY <1>2, <1>4, <1>5 DEF StreamsTyped
  <2> QED
    BY <1>4, <1>5, <2>1 DEF StreamsTyped, StreamTyped, Assemblies
<1>8. StreamsCome
  BY <1>2, <1>5 DEF StreamsCome
<1>9. ShapesCome
  <2>1. ASSUME NEW n \in DOMAIN streams, NEW b \in Bodies, n # f.id,
               b \in DOMAIN streams'[n].man
        PROVE  /\ \E y \in Somewhere : Tells(n, b, streams'[n].man[b].etag, y)
               /\ streams'[n].got[b] \in Shapes =>
                     Means(b, streams'[n].man[b].etag, streams'[n].got[b])
    BY <1>5, <2>1, StreamTells
  <2> QED
    BY SMTT(40), <1>2, <1>5, <2>1 DEF ShapesCome
<1>10. HoldsCome
  BY <1>3, <1>6, HeldMeans, HeldComes
<1>11. bodyMesh' \in Caches /\ BaseTyped(last')
  BY <1>3, <1>6 DEF IInv, Typed, BaseTyped
<1>12. CallsAreKept
  BY CallsUntouched
<1> QED
  BY <1>1, <1>7, <1>8, <1>9, <1>10, <1>11, <1>12, ClientKeeps

LEMMA ChunkStep ==
    ASSUME IInv, ReceiveChunk
    PROVE  IInv'
<1> DEFINE f == Head(frames)
           mesh == Kept(f.rows, bodyMesh)
           s == Written(f.rows, streams[f.id])
<1>1. /\ frames # <<>> /\ f.kind = "chunk" /\ frames' = Tail(frames)
      /\ UNCHANGED <<conn, sending, meshes, mishaps>>
  BY DEF ReceiveChunk, Arrives, engine
<1>2. FramesTaken /\ conn' \in {"up", "down"} /\ mishaps' \in 0 .. MaxMishaps
  BY <1>1 DEF FramesTaken, IInv, TypeOK
<1>3. bodyMesh \in Caches /\ BaseTyped(last)
  BY DEF IInv, Typed, Caches, BaseTyped
<1>4. mesh \in Caches /\ MeshComes(mesh)
  BY <1>1, KeptComes
<1>5. ASSUME NEW id, NEW m \in Caches, MeshComes(m), Abort(id, m) PROVE IInv'
  <2>1. Settle(id, [kind |-> "failed"], m, last)
    BY <1>5 DEF Abort
  <2> QED
    BY <1>1, <1>2, <1>3, <1>5, <2>1, FailedFits, HeldMeans, SettleStep
<1>6. CASE f.id \notin DOMAIN streams
  <2>1. UNCHANGED <<client, queue>>
    BY <1>6 DEF ReceiveChunk
  <2> QED
    BY <1>1, <1>2, <2>1, ClientIdle
<1>7. CASE f.id \in DOMAIN streams /\ f.seq # streams[f.id].next
  <2>1. Abort(f.id, bodyMesh)
    BY <1>7 DEF ReceiveChunk
  <2> QED
    BY <1>3, <1>5, <2>1, HeldMeans
<1>8. CASE f.id \in DOMAIN streams /\ f.seq = streams[f.id].next /\ ~f.final
  <2>1. streams' = [streams EXCEPT ![f.id] = s] /\ bodyMesh' = mesh
        /\ UNCHANGED <<calls, last, queue>>
    BY <1>8 DEF ReceiveChunk
  <2> QED
    BY <1>1, <1>8, <2>1, WriteStep
<1>9. CASE f.id \in DOMAIN streams /\ f.seq = streams[f.id].next /\ f.final /\ ~Complete(s)
  <2>1. Abort(f.id, mesh)
    BY <1>9 DEF ReceiveChunk
  <2> HIDE DEF mesh, f
  <2> QED
    BY <1>4, <1>5, <2>1
<1>10. CASE f.id \in DOMAIN streams /\ f.seq = streams[f.id].next /\ f.final /\ Complete(s)
  <2>1. Settle(f.id, Good(s.got), Pruned(s.man, mesh), Baseline(s))
    BY <1>10 DEF ReceiveChunk
  <2>2. /\ StreamTyped(s) /\ s.man = streams[f.id].man
        /\ \A b \in DOMAIN s.man :
              /\ b \in Bodies /\ s.man[b].etag \in Number
              /\ \E y \in Somewhere : Tells(f.id, b, s.man[b].etag, y)
              /\ s.got[b] \in Shapes => Means(b, s.man[b].etag, s.got[b])
    BY <1>1, <1>10, ChunkWritten
  <2>3. \A k \in Callers : Waits(k) /\ calls[k].id = f.id =>
           DOMAIN streams[f.id].man = DOMAIN calls[k].doc
    BY <1>10 DEF IInv, AllAsAsked, AsAsked
  <2>4. Pruned(s.man, mesh) \in Caches /\ MeshComes(Pruned(s.man, mesh))
    BY <1>4, PrunedComes
  <2>5. Complete(s)
    BY <1>10
  <2> HIDE DEF s, f, mesh
  <2>6. /\ s.got \in OverBodies(Somewhere) /\ s.man \in Manifests
        /\ DOMAIN s.got = DOMAIN s.man
        /\ \A b \in DOMAIN s.got : s.got[b] \in Somewhere
    BY <2>2, AssembliesTyped DEF StreamTyped
  <2>7. \A b \in DOMAIN s.got : s.got[b] \in Shapes
    BY <2>5, <2>6 DEF Complete, Somewhere
  <2>8. s.got \in Results
    <3>1. s.got \in [DOMAIN s.got -> Somewhere] /\ DOMAIN s.got \subseteq Bodies
      BY <2>6, OverBodiesIs
    <3>2. s.got \in [DOMAIN s.got -> Shapes]
      BY <2>7, <3>1
    <3> QED
      BY <3>1, <3>2, OverBodiesIs DEF Results
  <2>9. BaseTyped(Baseline(s)) /\ BaseComes(Baseline(s))
    BY <2>2, <2>6, <2>7, <2>8 DEF BaseTyped, BaseComes, Baseline
  <2>10. Fits(f.id, Good(s.got))
    <3>1. \A b \in DOMAIN s.got : \E e \in Number :
             Means(b, e, s.got[b]) /\ \E y \in Somewhere : Tells(f.id, b, e, y)
      BY <2>2, <2>6, <2>7
    <3> QED
      BY <2>2, <2>3, <2>6, <2>8, <3>1, GoodFits
  <2> QED
    BY <1>1, <1>2, <2>1, <2>4, <2>9, <2>10, SettleStep
<1> QED
  BY <1>6, <1>7, <1>8, <1>9, <1>10

LEMMA MishapTyped ==
    ASSUME IInv, Mishap
    PROVE  mishaps' \in 0 .. MaxMishaps
BY StreamAssumption DEF IInv, TypeOK, Mishap

LEMMA UnreadableStep ==
    ASSUME IInv, Unreadable
    PROVE  IInv'
<1>1. FramesTaken /\ mishaps' \in 0 .. MaxMishaps
  BY MishapTyped DEF Unreadable, FramesTaken
<1>2. UNCHANGED <<client, queue, sending, meshes>> /\ conn' \in {"up", "down"}
  BY DEF Unreadable, engine, IInv, TypeOK
<1> QED
  BY <1>1, <1>2, ClientIdle

LEMMA ConnectStep ==
    ASSUME IInv, Connect
    PROVE  IInv'
<1>1. UNCHANGED <<client, queue, sending, meshes, frames, mishaps>> /\ conn' = "up"
  BY DEF Connect, engine
<1>2. mishaps \in 0 .. MaxMishaps
  BY DEF IInv, TypeOK
<1>3. FramesTaken
  BY <1>1 DEF FramesTaken
<1> QED
  BY <1>1, <1>2, <1>3, ClientIdle

(* A stream's timer fires. *)
LEMMA TimerStep ==
    ASSUME IInv, NEW id \in DOMAIN streams, Stall(id) \/ Slow(id)
    PROVE  IInv'
<1>1. UNCHANGED <<conn, sending, meshes, frames>> /\ mishaps' \in 0 .. MaxMishaps
  BY MishapTyped DEF Stall, Slow, engine, IInv, TypeOK
<1>2. Settle(id, [kind |-> "failed"], bodyMesh, last)
  BY DEF Stall, Slow, Abort
<1>3. FramesTaken
  BY <1>1 DEF FramesTaken
<1>5. conn' \in {"up", "down"}
  BY <1>1 DEF IInv, TypeOK
<1>4. bodyMesh \in Caches /\ BaseTyped(last)
  BY DEF IInv, Typed, Caches, BaseTyped
<1> QED
  BY <1>1, <1>2, <1>3, <1>4, <1>5, FailedFits, HeldMeans, SettleStep

(* Every call is told that it failed. *)
LEMMA ClosedCalls ==
    ASSUME IInv, Closed, queue' \in {queue, <<>>}
    PROVE  CallsAreKept /\ NobodyAsks
<1>1. calls' = [k \in Callers |->
                   IF Waits(k) THEN Told(k, [kind |-> "failed"]) ELSE calls[k]]
  BY DEF Closed
<1> DEFINE T(k) == Told(k, [kind |-> "failed"])
<1>2. \A k \in Callers : \/ Waits(k) /\ calls'[k] = T(k)
                         \/ ~Waits(k) /\ calls'[k] = calls[k]
  BY <1>1
<1>3. ASSUME NEW k \in Callers, Waits(k)
      PROVE  /\ T(k) \in CallStates /\ T(k).stage = "done"
             /\ T(k).told.kind = "failed"
  <2>1. calls[k].doc \in Builds
    BY <1>3, CallTyped DEF IInv
  <2>2. [kind |-> "failed"] \in Answers
    BY DEF Answers
  <2>3. T(k) \in CallStates
    BY <2>1, <2>2 DEF CallStates, Told
  <2> QED
    BY <2>3 DEF Told
<1> HIDE DEF T
<1>4. \A k \in Callers : calls'[k] \in CallStates
  <2> SUFFICES ASSUME NEW k \in Callers PROVE calls'[k] \in CallStates
    OBVIOUS
  <2>1. CASE Waits(k)
    BY <1>2, <1>3, <2>1
  <2>2. CASE ~Waits(k)
    BY <1>2, <2>2 DEF IInv, Typed
  <2> QED
    BY <2>1, <2>2
<1>5. calls' \in [Callers -> CallStates]
  BY <1>1, <1>4
<1>6. NobodyAsks
  <2> SUFFICES ASSUME NEW k \in Callers, Waits(k)'
               PROVE  Waits(k) /\ calls'[k] = calls[k]
    BY DEF NobodyAsks
  <2>1. calls'[k].stage # "done"
    BY DEF Waits
  <2>2. ~Waits(k)
    BY <1>2, <1>3, <2>1
  <2>3. calls'[k] = calls[k]
    BY <1>2, <2>2
  <2> QED
    BY <2>2, <2>3 DEF Waits
<1>7. \A k \in Callers : Answered(k)
  <2> SUFFICES ASSUME NEW k \in Callers PROVE Answered(k)
    OBVIOUS
  <2>1. CASE Waits(k)
    <3>1. calls'[k].told.kind = "failed"
      BY <1>2, <1>3, <2>1
    <3> QED
      BY <3>1 DEF Answered
  <2>2. CASE ~Waits(k)
    BY <1>2, <2>2 DEF Answered, IInv, AnswersAreTheBuild
  <2> QED
    BY <2>1, <2>2
<1>8. queue' \in Seq(Requests)
  <2>1. queue \in Seq(Requests) /\ <<>> \in Seq(Requests)
    BY EmptySeq DEF IInv, Typed
  <2> QED
    BY <2>1
<1> QED
  BY <1>5, <1>6, <1>7, <1>8 DEF CallsAreKept, CallsMove

LEMMA NoStreams ==
    ASSUME streams' = Nothing
    PROVE  StreamsTyped' /\ StreamsCome /\ ShapesCome
<1>1. DOMAIN streams' = {} /\ streams' = [n \in DOMAIN streams' |-> streams'[n]]
  BY DEF Nothing
<1>2. StreamsTyped'
  BY <1>1, FS_EmptySet DEF StreamsTyped
<1> QED
  BY <1>1, <1>2 DEF StreamsCome, ShapesCome

LEMMA ConnectFailsStep ==
    ASSUME IInv, ConnectFails
    PROVE  IInv'
<1>1. /\ UNCHANGED <<conn, queue, sending, meshes, frames>> /\ Closed
      /\ mishaps' \in 0 .. MaxMishaps
  BY MishapTyped DEF ConnectFails, engine
<1>2. streams' = Nothing /\ UNCHANGED <<bodyMesh, last>>
  BY <1>1 DEF Closed
<1>3. CallsAreKept
  BY <1>1, ClosedCalls
<1>4. StreamsTyped' /\ StreamsCome /\ ShapesCome
  BY <1>2, NoStreams
<1>5. HoldsCome
  BY <1>1, <1>2, HeldMeans, HeldComes
<1>6. bodyMesh' \in Caches /\ BaseTyped(last')
  BY <1>2 DEF IInv, Typed, Caches, BaseTyped
<1>7. FramesTaken
  BY <1>1 DEF FramesTaken
<1>8. conn' \in {"up", "down"}
  BY <1>1 DEF IInv, TypeOK
<1> QED
  BY <1>1, <1>3, <1>4, <1>5, <1>6, <1>7, <1>8, ClientKeeps

LEMMA KnownTyped ==
    ASSUME IInv
    PROVE  Known \in OverBodies(Number)
<1> DEFINE D == {c \in Bodies : bodyMesh[c] # None}
<1>1. \A b \in D : bodyMesh[b].etag \in Number
  BY CachesTyped DEF IInv, Typed, Caches
<1>2. Known \in [D -> Number]
  BY <1>1 DEF Known
<1> QED
  BY <1>2 DEF OverBodies

LEMMA CallStep ==
    ASSUME IInv, NEW k \in Callers, NEW doc \in Builds, Rebuild(k, doc) \/ ComputeAll(k, doc)
    PROVE  IInv'
<1>1. UNCHANGED <<conn, streams, last, sending, meshes, frames, mishaps>>
  BY DEF Rebuild, ComputeAll, engine
<1>2. CallsAreKept /\ bodyMesh' \in {bodyMesh, NoMeshes}
  <2>1. CASE Rebuild(k, doc)
    <3>1. /\ calls' = [calls EXCEPT ![k] = Call("rebuild", "first", Unused(IdsInUse), doc)]
          /\ queue' = Append(queue, Request(Unused(IdsInUse), "rebuild", "first", doc, Known))
          /\ bodyMesh' = bodyMesh
      BY <2>1 DEF Rebuild
    <3>2. Known \in OverBodies(Number) /\ "rebuild" \in Ops /\ "first" \in Stages
      BY KnownTyped DEF Ops, Stages
    <3>3. CallsAreKept
      BY <3>1, <3>2, CallMade
    <3> QED
      BY <3>1, <3>3
  <2>2. CASE ComputeAll(k, doc)
    <3>1. /\ calls' = [calls EXCEPT ![k] = Call("computeAll", "first", Unused(IdsInUse), doc)]
          /\ queue' = Append(queue,
                Request(Unused(IdsInUse), "computeAll", "first", doc, Nothing))
          /\ bodyMesh' = NoMeshes
      BY <2>2 DEF ComputeAll
    <3>2. Nothing \in OverBodies(Number) /\ "computeAll" \in Ops /\ "first" \in Stages
      BY NothingTyped DEF Ops, Stages
    <3>3. CallsAreKept
      BY <3>1, <3>2, CallMade
    <3> QED
      BY <3>1, <3>3
  <2> QED
    BY <2>1, <2>2
<1>3. StreamsTyped' /\ StreamsCome /\ ShapesCome
  <2>1. StreamsTyped
    BY StreamsAreTyped
  <2>2. StreamsTyped'
    BY <1>1, <2>1 DEF StreamsTyped, StreamTyped, Assemblies
  <2> QED
    BY <1>1, <2>2, StreamTells DEF StreamsCome, ShapesCome
<1>4. HoldsCome
  BY <1>1, <1>2, HeldMeans, HeldComes
<1>5. bodyMesh' \in Caches /\ BaseTyped(last')
  BY <1>1, <1>2, NoMeshesTyped DEF IInv, Typed, Caches, BaseTyped
<1>6. FramesTaken
  BY <1>1 DEF FramesTaken
<1>7. conn' \in {"up", "down"} /\ mishaps' \in 0 .. MaxMishaps
  BY <1>1 DEF IInv, TypeOK
<1> QED
  BY <1>1, <1>2, <1>3, <1>4, <1>5, <1>6, <1>7, ClientKeeps
-----------------------------------------------------------------------------
(* What a step of the engine comes to: it answers the first request of its *)
(* queue, or goes on with the reply it is sending.                         *)

ClientStays ==
    calls' = calls /\ bodyMesh' = bodyMesh /\ streams' = streams /\ last' = last

Begins(f) ==
    /\ sending = None /\ queue # <<>> /\ queue' = Tail(queue)
    /\ f.id = Head(queue).id /\ f.kind \in {"failed", "resync", "head"}
    /\ f.kind = "head" /\ f.final => f.rows = Nothing
    /\ sending' # None => /\ f.kind = "head"
                          /\ sending'.id = f.id /\ sending'.rows = f.rows

GoesOn(f) ==
    /\ sending # None /\ queue' = queue
    /\ f.id = sending.id /\ f.kind \in {"failed", "chunk", "whole"}
    /\ f.kind = "chunk" => Agrees(f.rows, sending.rows)
    /\ sending' # None => sending'.id = f.id /\ sending'.rows = sending.rows

Sends(f) ==
    /\ f \in Frames /\ frames' = Append(frames, f) /\ ClientStays
    /\ Begins(f) \/ GoesOn(f)

LEMMA FramesGrow ==
    ASSUME Typed, NEW f \in Frames, frames' = Append(frames, f)
    PROVE  /\ frames' \in Seq(Frames)
           /\ Len(frames) \in Nat /\ Len(frames') = Len(frames) + 1
           /\ \A i \in DOMAIN frames' :
                 \/ i \in DOMAIN frames /\ frames'[i] = frames[i]
                 \/ i = Len(frames) + 1 /\ frames'[i] = f
<1>1. frames \in Seq(Frames)
  BY DEF Typed
<1>2. /\ Append(frames, f) \in Seq(Frames) /\ Len(frames) \in Nat
      /\ \A i \in DOMAIN frames : Append(frames, f)[i] = frames[i]
      /\ Append(frames, f)[Len(frames) + 1] = f
      /\ \A i \in DOMAIN Append(frames, f) : i \in DOMAIN frames \/ i = Len(frames) + 1
  BY <1>1, AppendElements
<1>3. Len(Append(frames, f)) = Len(frames) + 1
  BY <1>1, AppendProperties
<1> QED
  BY <1>2, <1>3

LEMMA QueueShrinks ==
    ASSUME Typed, queue # <<>>, queue' = Tail(queue)
    PROVE  /\ queue' \in Seq(Requests)
           /\ Head(queue) \in Requests /\ Head(queue) = queue[1] /\ 1 \in DOMAIN queue
           /\ \A i \in DOMAIN queue' :
                 i + 1 \in DOMAIN queue /\ queue'[i] = queue[i + 1] /\ i + 1 # 1
<1>1. queue \in Seq(Requests)
  BY DEF Typed
<1>2. /\ Head(queue) \in Requests /\ Head(queue) = queue[1] /\ Tail(queue) \in Seq(Requests)
      /\ Len(queue) \in Nat \ {0} /\ DOMAIN queue = 1 .. Len(queue)
      /\ DOMAIN Tail(queue) = 1 .. Len(queue) - 1
      /\ \A i \in DOMAIN Tail(queue) : i + 1 \in DOMAIN queue /\ Tail(queue)[i] = queue[i + 1]
  BY <1>1, TailElements
<1>3. 1 \in DOMAIN queue /\ \A i \in DOMAIN Tail(queue) : i + 1 # 1
  BY <1>2
<1> QED
  BY <1>2, <1>3

LEMMA HeadIsNotSent ==
    ASSUME Typed, InOnePlace, queue # <<>>
    PROVE  Head(queue).id \in Number /\ ~Sent(Head(queue).id)
<1>1. Head(queue) \in Requests /\ Head(queue) = queue[1] /\ 1 \in DOMAIN queue
  <2>1. queue \in Seq(Requests)
    BY DEF Typed
  <2>2. /\ Head(queue) \in Requests /\ Head(queue) = queue[1]
        /\ Len(queue) \in Nat \ {0} /\ DOMAIN queue = 1 .. Len(queue)
    BY <2>1, TailElements
  <2> QED
    BY <2>2
<1>2. Head(queue).id \in Number
  BY <1>1 DEF Requests
<1> QED
  BY <1>1, <1>2 DEF InOnePlace

LEMMA EngineSent ==
    ASSUME Typed, NEW f, Sends(f)
    PROVE  \A id : Sent(id)' => Sent(id) \/ id = f.id
<1>1. ASSUME NEW id, id \in DOMAIN streams' PROVE Sent(id)
  BY <1>1 DEF Sends, ClientStays, Sent
<1>2. ASSUME NEW id, NEW i \in DOMAIN frames', frames'[i].id = id PROVE Sent(id) \/ id = f.id
  BY <1>2, FramesGrow DEF Sends, Sent
<1>3. ASSUME NEW id, sending' # None, sending'.id = id PROVE Sent(id) \/ id = f.id
  BY <1>3 DEF Sends, Begins, GoesOn, Sent
<1> QED
  BY <1>1, <1>2, <1>3 DEF Sent

LEMMA EnginePlaces ==
    ASSUME Typed, InOnePlace, NEW f, Sends(f)
    PROVE  InOnePlace'
<1>1. \A id : Sent(id)' => Sent(id) \/ id = f.id
  BY EngineSent
<1>2. \A k, l \in Callers :
         Waits(k)' /\ Waits(l)' /\ calls'[k].id = calls'[l].id => k = l
  BY DEF Sends, ClientStays, InOnePlace, Waits
<1>3. CASE Begins(f)
  <2>1. /\ Head(queue) = queue[1] /\ 1 \in DOMAIN queue /\ f.id = queue[1].id
        /\ \A i \in DOMAIN queue' :
              i + 1 \in DOMAIN queue /\ queue'[i] = queue[i + 1] /\ i + 1 # 1
        /\ DOMAIN queue' \subseteq Nat
    <3>1. queue # <<>> /\ queue' = Tail(queue) /\ f.id = Head(queue).id
      BY <1>3 DEF Begins
    <3>2. queue' \in Seq(Requests)
      BY <3>1, QueueShrinks
    <3>3. DOMAIN queue' \subseteq Nat
      BY <3>2, LenProperties
    <3> QED
      BY <3>1, <3>3, QueueShrinks
  <2>2. \A i, j \in DOMAIN queue' : queue'[i].id = queue'[j].id => i = j
    <3> SUFFICES ASSUME NEW i \in DOMAIN queue', NEW j \in DOMAIN queue',
                        queue'[i].id = queue'[j].id
                 PROVE  i = j
      OBVIOUS
    <3>1. i + 1 = j + 1
      BY <2>1 DEF InOnePlace
    <3>2. i \in Nat /\ j \in Nat
      BY <2>1
    <3> QED
      BY <3>1, <3>2
  <2>3. \A id \in Number : Sent(id)' => \A i \in DOMAIN queue' : queue'[i].id # id
    <3> SUFFICES ASSUME NEW id \in Number, Sent(id)', NEW i \in DOMAIN queue'
                 PROVE  queue'[i].id # id
      OBVIOUS
    <3>1. CASE Sent(id)
      BY <2>1, <3>1 DEF InOnePlace
    <3>2. CASE id = f.id
      BY <2>1, <3>2 DEF InOnePlace
    <3> QED
      BY <1>1, <3>1, <3>2
  <2> QED
    BY <1>2, <2>2, <2>3 DEF InOnePlace, Waits
<1>4. CASE GoesOn(f)
  <2>1. queue' = queue /\ Sent(f.id)
    BY <1>4 DEF GoesOn, Sent
  <2>2. \A id \in Number : Sent(id)' => \A i \in DOMAIN queue' : queue'[i].id # id
    BY <1>1, <2>1 DEF InOnePlace
  <2>3. \A i, j \in DOMAIN queue' : queue'[i].id = queue'[j].id => i = j
    BY <2>1 DEF InOnePlace
  <2> QED
    BY <1>2, <2>2, <2>3 DEF InOnePlace, Waits
<1> QED
  BY <1>3, <1>4 DEF Sends

LEMMA EngineHeads ==
    ASSUME Typed, InOnePlace, HeadsRule, NEW f, Sends(f)
    PROVE  HeadsRule'
<1> DEFINE n == Len(frames) + 1
           HeadsNext == {i \in DOMAIN frames' : frames'[i].kind = "head"}
<1>1. /\ n \notin DOMAIN frames
      /\ \A i \in DOMAIN frames' : \/ i \in DOMAIN frames /\ frames'[i] = frames[i]
                                   \/ i = n /\ frames'[i] = f
  <2>1. DOMAIN frames = 1 .. Len(frames) /\ Len(frames) \in Nat
    BY LenProperties DEF Typed
  <2> QED
    BY <2>1, FramesGrow DEF Sends
<1>2. streams' = streams
  BY DEF Sends, ClientStays
<1> HIDE DEF n
<1>3. \A h \in HeadsNext : \/ h \in Heads /\ frames'[h] = frames[h]
                           \/ h = n /\ frames'[h] = f
  BY <1>1 DEF Heads
(* Nothing of a reply that begins is there yet. *)
<1>4. CASE Begins(f)
  <2>1. /\ f.id \notin DOMAIN streams /\ \A i \in DOMAIN frames : frames[i].id # f.id
        /\ sending = None
    BY <1>4, HeadIsNotSent DEF Begins, Sent
  <2>2. /\ f.kind \in {"failed", "resync", "head"}
        /\ f.kind = "head" /\ f.final => f.rows = Nothing
        /\ sending' # None => /\ f.kind = "head"
                              /\ sending'.id = f.id /\ sending'.rows = f.rows
    BY <1>4 DEF Begins
  <2>3. ASSUME NEW h \in HeadsNext
        PROVE  /\ frames'[h].id \notin DOMAIN streams'
               /\ frames'[h].final => frames'[h].rows = Nothing
               /\ \A i \in DOMAIN frames' : frames'[i].id = frames'[h].id =>
                     \/ i = h
                     \/ frames'[i].kind = "chunk" /\ Agrees(frames'[i].rows, frames'[h].rows)
                     \/ frames'[i].kind \in {"failed", "whole"}
               /\ sending' # None /\ sending'.id = frames'[h].id =>
                     Agrees(sending'.rows, frames'[h].rows)
    <3>1. CASE h \in Heads /\ frames'[h] = frames[h]
      <4>1. h \in DOMAIN frames /\ frames[h].id # f.id
        BY <2>1, <3>1 DEF Heads
      <4>2. \A i \in DOMAIN frames' : frames'[i].id = frames'[h].id =>
               i \in DOMAIN frames /\ frames'[i] = frames[i]
        BY <1>1, <3>1, <4>1
      <4> QED
        BY <1>2, <2>2, <3>1, <4>1, <4>2 DEF HeadsRule
    <3>2. CASE h = n /\ frames'[h] = f
      <4>1. f.kind = "head"
        BY <3>2
      <4>2. \A i \in DOMAIN frames' : frames'[i].id = f.id => i = h
        BY <1>1, <2>1, <3>2
      <4> QED
        BY <1>2, <2>1, <2>2, <3>2, <4>1, <4>2 DEF Agrees
    <3> QED
      BY <1>3, <3>1, <3>2
  <2>4. ASSUME NEW id \in DOMAIN streams'
        PROVE  /\ \A i \in DOMAIN frames' :
                     frames'[i].id = id /\ frames'[i].kind = "chunk" =>
                         Agrees(frames'[i].rows, streams'[id].man)
               /\ sending' # None /\ sending'.id = id => Agrees(sending'.rows, streams'[id].man)
    <3>1. id # f.id /\ id \in DOMAIN streams /\ streams'[id] = streams[id]
      BY <1>2, <2>1
    <3>2. \A i \in DOMAIN frames' : frames'[i].id = id =>
             i \in DOMAIN frames /\ frames'[i] = frames[i]
      BY <1>1, <3>1
    <3> QED
      BY <2>2, <3>1, <3>2 DEF HeadsRule
  <2> QED
    BY <2>3, <2>4 DEF HeadsRule, Heads, Agrees, Nothing
(* What goes on is of the bodies that the head named. *)
<1>5. CASE GoesOn(f)
  <2>1. /\ sending # None /\ f.id = sending.id /\ f.kind \in {"failed", "chunk", "whole"}
        /\ f.kind = "chunk" => Agrees(f.rows, sending.rows)
        /\ sending' # None => sending'.id = sending.id /\ sending'.rows = sending.rows
    BY <1>5 DEF GoesOn
  <2>2. \A x, y, z : Agrees(x, y) /\ Agrees(y, z) => Agrees(x, z)
    BY DEF Agrees
  <2>3. ASSUME NEW h \in HeadsNext
        PROVE  /\ frames'[h].id \notin DOMAIN streams'
               /\ frames'[h].final => frames'[h].rows = Nothing
               /\ \A i \in DOMAIN frames' : frames'[i].id = frames'[h].id =>
                     \/ i = h
                     \/ frames'[i].kind = "chunk" /\ Agrees(frames'[i].rows, frames'[h].rows)
                     \/ frames'[i].kind \in {"failed", "whole"}
               /\ sending' # None /\ sending'.id = frames'[h].id =>
                     Agrees(sending'.rows, frames'[h].rows)
    <3>1. h \in Heads /\ frames'[h] = frames[h]
      BY <1>3, <2>1
    <3>2. ASSUME NEW i \in DOMAIN frames', frames'[i].id = frames'[h].id
          PROVE  \/ i = h
                 \/ frames'[i].kind = "chunk" /\ Agrees(frames'[i].rows, frames'[h].rows)
                 \/ frames'[i].kind \in {"failed", "whole"}
      <4>1. CASE i \in DOMAIN frames /\ frames'[i] = frames[i]
        BY <3>1, <3>2, <4>1 DEF HeadsRule
      <4>2. CASE frames'[i] = f
        <5>1. Agrees(sending.rows, frames[h].rows)
          BY <2>1, <3>1, <3>2, <4>2 DEF HeadsRule
        <5> QED
          BY <2>1, <2>2, <3>1, <4>2, <5>1
      <4> QED
        BY <1>1, <4>1, <4>2
    <3> QED
      BY <1>2, <2>1, <3>1, <3>2 DEF HeadsRule
  <2>4. ASSUME NEW id \in DOMAIN streams'
        PROVE  /\ \A i \in DOMAIN frames' :
                     frames'[i].id = id /\ frames'[i].kind = "chunk" =>
                         Agrees(frames'[i].rows, streams'[id].man)
               /\ sending' # None /\ sending'.id = id => Agrees(sending'.rows, streams'[id].man)
    <3>1. id \in DOMAIN streams /\ streams'[id] = streams[id]
      BY <1>2
    <3>2. sending.id = id => Agrees(sending.rows, streams[id].man)
      BY <2>1, <3>1 DEF HeadsRule
    <3>3. ASSUME NEW i \in DOMAIN frames', frames'[i].id = id, frames'[i].kind = "chunk"
          PROVE  Agrees(frames'[i].rows, streams[id].man)
      <4>1. CASE i \in DOMAIN frames /\ frames'[i] = frames[i]
        BY <3>1, <3>3, <4>1 DEF HeadsRule
      <4>2. CASE frames'[i] = f
        BY <2>1, <2>2, <3>2, <3>3, <4>2
      <4> QED
        BY <1>1, <4>1, <4>2
    <3> QED
      BY <2>1, <3>1, <3>2, <3>3
  <2> QED
    BY <2>3, <2>4 DEF HeadsRule, Heads, Agrees, Nothing
<1> QED
  BY <1>4, <1>5 DEF Sends

(* What a frame says is what the caller that waits for it asked for. *)
SaysWhatWasAsked(f) ==
    \A k \in Callers : Waits(k) /\ calls[k].id = f.id =>
        /\ f.kind \in {"head", "whole"} => DOMAIN f.rows = DOMAIN calls[k].doc
        /\ ForAll(k) => f.kind # "resync" /\ NoStub(f.rows)

LEMMA EngineAsks ==
    ASSUME Typed, InOnePlace, AllAsAsked, NEW f, Sends(f), SaysWhatWasAsked(f)
    PROVE  AllAsAsked'
<1> SUFFICES ASSUME NEW k \in Callers, Waits(k)'
             PROVE  AsAsked(k)'
  BY DEF AllAsAsked
<1>1. calls' = calls /\ streams' = streams
  BY DEF Sends, ClientStays
<1>2. Waits(k) /\ AsAsked(k)
  BY <1>1 DEF AllAsAsked, Waits
<1> DEFINE id == calls[k].id
<1>3. /\ id = f.id /\ f.kind \in {"head", "whole"} => DOMAIN f.rows = DOMAIN calls[k].doc
      /\ id = f.id /\ ForAll(k) => f.kind # "resync" /\ NoStub(f.rows)
  BY <1>2 DEF SaysWhatWasAsked
<1>4. \A i \in DOMAIN queue' : queue'[i].id = id =>
         /\ queue'[i].op = calls[k].op /\ queue'[i].stage = calls[k].stage
         /\ queue'[i].doc = calls[k].doc
         /\ ForAll(k) => queue'[i].known = Nothing
  <2>1. CASE queue' = queue
    BY <1>2, <2>1 DEF AsAsked
  <2>2. CASE queue # <<>> /\ queue' = Tail(queue)
    <3>1. \A i \in DOMAIN queue' : i + 1 \in DOMAIN queue /\ queue'[i] = queue[i + 1]
      BY <2>2, QueueShrinks
    <3> QED
      BY <1>2, <3>1 DEF AsAsked
  <2> QED
    BY <2>1, <2>2 DEF Sends, Begins, GoesOn
<1>5. \A i \in DOMAIN frames' : frames'[i].id = id =>
         /\ frames'[i].kind \in {"head", "whole"} => DOMAIN frames'[i].rows = DOMAIN calls[k].doc
         /\ ForAll(k) => frames'[i].kind # "resync" /\ NoStub(frames'[i].rows)
  <2> SUFFICES ASSUME NEW i \in DOMAIN frames', frames'[i].id = id
               PROVE  /\ frames'[i].kind \in {"head", "whole"} =>
                             DOMAIN frames'[i].rows = DOMAIN calls[k].doc
                      /\ ForAll(k) => frames'[i].kind # "resync" /\ NoStub(frames'[i].rows)
    OBVIOUS
  <2>1. CASE i \in DOMAIN frames /\ frames'[i] = frames[i]
    BY <1>2, <2>1 DEF AsAsked
  <2>2. CASE frames'[i] = f
    BY <1>3, <2>2
  <2>3. f \in Frames /\ frames' = Append(frames, f)
    BY DEF Sends
  <2> QED
    BY <2>1, <2>2, <2>3, FramesGrow
<1>6. sending' # None /\ sending'.id = id =>
         /\ DOMAIN sending'.rows = DOMAIN calls[k].doc
         /\ ForAll(k) => NoStub(sending'.rows)
  <2>1. CASE Begins(f)
    BY <1>3, <2>1 DEF Begins
  <2>2. CASE GoesOn(f)
    BY <1>2, <2>2 DEF GoesOn, AsAsked
  <2> QED
    BY <2>1, <2>2 DEF Sends
<1>7. id \in DOMAIN streams' => DOMAIN streams'[id].man = DOMAIN calls[k].doc
  BY <1>1, <1>2 DEF AsAsked
<1> QED
  BY <1>1, <1>4, <1>5, <1>6, <1>7 DEF AsAsked, ForAll, NoStub, Nothing

LEMMA StreamsStay ==
    ASSUME IInv, streams' = streams
    PROVE  /\ streams' \in [DOMAIN streams' -> Assemblies]
           /\ IsFiniteSet(DOMAIN streams') /\ DOMAIN streams' \subseteq Number
           /\ \A id \in DOMAIN streams' :
                 /\ streams'[id].next \in 1 .. Cardinality(Bodies) + 1
                 /\ DOMAIN streams'[id].got = DOMAIN streams'[id].man
                 /\ Range(streams'[id].got) \subseteq Shapes \cup {None}
BY DEF IInv, Typed, TypeOK, Range

(* The caches of both sides, and the callers, are typed and answered well. *)
LEMMA EngineTypes ==
    ASSUME IInv, ClientStays, meshes' \in Caches,
           queue' \in Seq(Requests), frames' \in Seq(Frames), Len(frames') <= Room,
           sending' # None => /\ sending' \in Replies /\ sending'.left # {}
                              /\ sending'.left \subseteq DOMAIN sending'.rows,
           conn' \in {"up", "down"}, mishaps' \in 0 .. MaxMishaps
    PROVE  Typed' /\ TypeOK' /\ AnswersAreTheBuild'
<1>1. calls' = calls /\ bodyMesh' = bodyMesh /\ streams' = streams /\ last' = last
  BY DEF ClientStays
<1>2. Typed'
  <2>1. calls' \in [Callers -> CallStates]
    BY <1>1 DEF IInv, Typed
  <2>2. bodyMesh' \in [Bodies -> Payloads \cup {None}]
    BY <1>1 DEF IInv, Typed
  <2>3. meshes' \in [Bodies -> Payloads \cup {None}]
    BY DEF Caches
  <2>4. last' # None => last'.sig \in Manifests /\ last'.result \in Results
                        /\ DOMAIN last'.sig = DOMAIN last'.result
    BY <1>1 DEF IInv, Typed
  <2>5. sending' # None => sending' \in Replies
    OBVIOUS
  <2> QED
    BY <1>1, <2>1, <2>2, <2>3, <2>4, <2>5, StreamsStay DEF Typed
<1>3. TypeOK'
  <2>1. \A k \in Callers : Waits(k)' => calls'[k].doc \in Builds
    BY <1>1 DEF IInv, TypeOK, Waits
  <2>2. \A b \in Bodies : {bodyMesh'[b], meshes'[b]} \subseteq Payloads \cup {None}
    BY <1>1 DEF IInv, TypeOK, Caches
  <2>3. sending' # None => sending'.left # {} /\ sending'.left \subseteq DOMAIN sending'.rows
    OBVIOUS
  <2> QED
    BY <1>1, <2>1, <2>2, <2>3, StreamsStay DEF TypeOK, Waits
<1>4. AnswersAreTheBuild'
  BY <1>1 DEF IInv, AnswersAreTheBuild
<1> QED
  BY <1>2, <1>3, <1>4

LEMMA EngineKeeps ==
    ASSUME IInv, NEW f, Sends(f), SaysWhatWasAsked(f), EtagsMean',
           meshes' \in Caches, Len(frames) < Room,
           sending' # None =>
               /\ sending' \in Replies /\ sending'.left # {}
               /\ sending'.left \subseteq DOMAIN sending'.rows
               /\ sending'.seq + Cardinality(sending'.left) <= Cardinality(Bodies) + 1,
           f.kind = "chunk" => f.seq <= Cardinality(Bodies),
           conn' = conn, mishaps' \in 0 .. MaxMishaps
    PROVE  IInv'
<1>1. InOnePlace' /\ HeadsRule' /\ AllAsAsked'
  BY EnginePlaces, EngineHeads, EngineAsks DEF IInv
<1>2. f \in Frames /\ frames' = Append(frames, f) /\ ClientStays
  BY DEF Sends
<1>3. frames' \in Seq(Frames) /\ Len(frames') <= Room
  <2>1. /\ frames' \in Seq(Frames)
        /\ Len(frames) \in Nat /\ Len(frames') = Len(frames) + 1
    BY <1>2, FramesGrow DEF IInv
  <2>2. Room \in Nat
    BY StreamAssumption
  <2> QED
    BY <2>1, <2>2
<1>4. queue' \in Seq(Requests)
  <2>1. CASE queue' = queue
    BY <2>1 DEF IInv, Typed
  <2>2. CASE queue # <<>> /\ queue' = Tail(queue)
    BY <2>2, QueueShrinks DEF IInv
  <2> QED
    BY <2>1, <2>2 DEF Sends, Begins, GoesOn
<1>5. conn' \in {"up", "down"}
  BY DEF IInv, TypeOK
<1>6. Typed' /\ TypeOK' /\ AnswersAreTheBuild'
  BY <1>2, <1>3, <1>4, <1>5, EngineTypes
<1>7. ChunksAreFew'
  <2>1. \A i \in DOMAIN frames' :
           frames'[i].kind = "chunk" => frames'[i].seq <= Cardinality(Bodies)
    <3> SUFFICES ASSUME NEW i \in DOMAIN frames', frames'[i].kind = "chunk"
                 PROVE  frames'[i].seq <= Cardinality(Bodies)
      OBVIOUS
    <3>1. CASE i \in DOMAIN frames /\ frames'[i] = frames[i]
      BY <3>1 DEF IInv, ChunksAreFew
    <3>2. CASE frames'[i] = f
      BY <3>2
    <3> QED
      BY <1>2, <3>1, <3>2, FramesGrow DEF IInv
  <2> QED
    BY <2>1 DEF ChunksAreFew
<1> QED
  BY <1>1, <1>6, <1>7 DEF IInv

(* An etag keeps its meaning over a build: one that is given anew meant    *)
(* nothing, and a payload that is held still shows what it showed.         *)
LEMMA MeaningsGrow ==
    ASSUME EtagsMean, NEW doc, NEW built,
           \A k \in Callers : Waits(k)' => Waits(k) /\ calls'[k] = calls[k],
           \A k \in Callers : Waits(k) => calls[k].id \in Number,
           \A b \in DOMAIN doc, t \in Shapes : Means(b, built[b].etag, t) => t = doc[b],
           \A b \in Bodies, e \in Number, s \in Shapes : Holds(b, e, s)' =>
               \/ Means(b, e, s)
               \/ b \in DOMAIN doc /\ e = built[b].etag /\ s = doc[b],
           \A id \in Number, b \in Bodies, e \in Number, x \in Somewhere : Tells(id, b, e, x)' =>
               \/ Tells(id, b, e, x)
               \/ /\ b \in DOMAIN doc /\ e = built[b].etag /\ x \in {None, doc[b]}
                  /\ \A k \in Callers : Waits(k) /\ calls[k].id = id => calls[k].doc = doc
    PROVE  EtagsMean'
<1>1. ASSUME NEW b \in Bodies, NEW e \in Number, NEW s \in Shapes, Means(b, e, s)'
      PROVE  \/ Means(b, e, s)
             \/ b \in DOMAIN doc /\ e = built[b].etag /\ s = doc[b]
  <2>1. CASE Holds(b, e, s)'
    BY <2>1
  <2>2. CASE \E id \in Number : Tells(id, b, e, s)'
    <3>1. PICK id \in Number : Tells(id, b, e, s)'
      BY <2>2
    <3>2. s \in Somewhere /\ s # None
      BY StreamAssumption DEF Somewhere
    <3>3. \/ Tells(id, b, e, s)
          \/ b \in DOMAIN doc /\ e = built[b].etag /\ s \in {None, doc[b]}
      BY <3>1, <3>2
    <3> QED
      BY <3>2, <3>3 DEF Means
  <2>3. CASE \E k \in Callers : /\ Waits(k)' /\ b \in DOMAIN calls'[k].doc
                                /\ calls'[k].doc[b] = s
                                /\ \E x \in Somewhere : \E id \in Number :
                                      id = calls'[k].id /\ Tells(id, b, e, x)'
    <3>1. PICK k \in Callers : /\ Waits(k)' /\ b \in DOMAIN calls'[k].doc
                               /\ calls'[k].doc[b] = s
                               /\ \E x \in Somewhere : \E id \in Number :
                                     id = calls'[k].id /\ Tells(id, b, e, x)'
      BY <2>3
    <3>2. Waits(k) /\ b \in DOMAIN calls[k].doc /\ calls[k].doc[b] = s
      BY <3>1
    <3>3. PICK x \in Somewhere, id \in Number : id = calls[k].id /\ Tells(id, b, e, x)'
      BY <3>1
    <3>4. CASE Tells(id, b, e, x)
      BY <3>2, <3>3, <3>4 DEF Means
    <3>5. CASE b \in DOMAIN doc /\ e = built[b].etag /\ calls[k].doc = doc
      BY <3>2, <3>5
    <3> QED
      BY <3>2, <3>3, <3>4, <3>5
  <2> QED
    <3>1. \/ Holds(b, e, s)'
          \/ \E id \in Number : Tells(id, b, e, s)'
          \/ \E k \in Callers, x \in Somewhere :
                /\ Waits(k)' /\ b \in DOMAIN calls'[k].doc /\ calls'[k].doc[b] = s
                /\ Tells(calls[k].id, b, e, x)'
      BY <1>1 DEF Means
    <3>2. ASSUME NEW k \in Callers, NEW x \in Somewhere,
                 Waits(k)', b \in DOMAIN calls'[k].doc, calls'[k].doc[b] = s,
                 Tells(calls[k].id, b, e, x)'
          PROVE  \E y \in Somewhere : \E id \in Number :
                     id = calls'[k].id /\ Tells(id, b, e, y)'
      <4>1. PICK id \in Number : id = calls'[k].id
        BY <3>2
      <4>2. Tells(id, b, e, x)'
        BY <3>2, <4>1 DEF Tells
      <4> QED
        BY <4>1, <4>2
    <3> QED
      BY <2>1, <2>2, <2>3, <3>1, <3>2
<1>2. ASSUME NEW b \in Bodies, NEW e \in Number, NEW s \in Shapes, NEW t \in Shapes,
             Means(b, e, s)', Means(b, e, t)'
      PROVE  s = t
  BY <1>1, <1>2 DEF EtagsMean
<1> QED
  BY <1>2 DEF EtagsMean

LEMMA SendTells ==
    ASSUME Typed, NEW f, Sends(f), NEW id, NEW b, NEW e, NEW x, Tells(id, b, e, x)'
    PROVE  Tells(id, b, e, x) \/ (id = f.id /\ InRows(f.rows, b, e, x))
<1>1. CASE \E i \in DOMAIN frames' : frames'[i].id = id /\ InRows(frames'[i].rows, b, e, x)
  BY <1>1, FramesGrow DEF Sends, Tells
<1>2. CASE sending' # None /\ sending'.id = id /\ InRows(sending'.rows, b, e, x)
  BY <1>2 DEF Sends, Begins, GoesOn, Tells
<1>3. CASE /\ id \in DOMAIN streams' /\ b \in DOMAIN streams'[id].man
           /\ streams'[id].man[b].etag = e /\ streams'[id].got[b] = x
  BY <1>3 DEF Sends, ClientStays, Tells
<1> QED
  BY <1>1, <1>2, <1>3 DEF Tells, InRows

(* A frame that says nothing, or nothing but what was to be sent. *)
LEMMA PlainSend ==
    ASSUME IInv, NEW f, Sends(f), meshes' \in {meshes, NoMeshes},
           \/ f.rows = Nothing
           \/ /\ GoesOn(f)
              /\ \A b \in DOMAIN f.rows : b \in DOMAIN sending.rows /\ f.rows[b] = sending.rows[b]
    PROVE  EtagsMean' /\ meshes' \in Caches
<1>1. meshes' \in Caches
  BY NoMeshesTyped DEF IInv, Typed, Caches
<1>2. \A b, e, x : InRows(f.rows, b, e, x) => Tells(f.id, b, e, x)
  BY NothingTyped DEF InRows, Tells, GoesOn
<1>3. \A id, b, e, x : Tells(id, b, e, x)' => Tells(id, b, e, x)
  BY <1>2, SendTells DEF IInv
<1>4. \A b \in Bodies, e \in Number, s \in Shapes : Holds(b, e, s)' => Means(b, e, s)
  BY NoMeshesTyped DEF Sends, ClientStays, Holds, Means
<1>5. \A k \in Callers : Waits(k)' => Waits(k) /\ calls'[k] = calls[k]
  BY DEF Sends, ClientStays, Waits
<1>6. \A k \in Callers : Waits(k) => calls[k].id \in Number
  BY CallTyped DEF IInv
<1>7. DOMAIN Nothing = {} /\ EtagsMean
  BY NothingTyped DEF IInv
<1>8. EtagsMean'
  BY <1>3, <1>4, <1>5, <1>6, <1>7, MeaningsGrow
<1> QED
  BY <1>1, <1>8

(* What a build makes. *)
LEMMA RebuiltTyped ==
    ASSUME IInv, NEW doc \in Builds, NEW held \in {meshes, NoMeshes}
    PROVE  LET m == Rebuilt(doc, held)
           IN  /\ m \in Caches
               /\ \A b \in Bodies : b \notin DOMAIN doc => m[b] \in {None, meshes[b]}
               /\ \A b \in DOMAIN doc :
                     /\ b \in Bodies /\ doc[b] \in Shapes
                     /\ m[b].etag \in Number /\ m[b].shape = doc[b]
                     /\ \A t \in Shapes : Means(b, m[b].etag, t) => t = doc[b]
<1> DEFINE m == Rebuilt(doc, held)
           New(b) == [etag |-> Unused(EtagsInUse(b)), shape |-> doc[b]]
<1>1. \A b \in DOMAIN doc : b \in Bodies /\ doc[b] \in Shapes
  BY BuildsAreResults, ResultsTyped
<1>2. \A b \in Bodies : held[b] # None => held[b] = meshes[b]
  BY NoMeshesTyped
<1>0. CASE doc = Nothing
  <2>1. m = held /\ DOMAIN doc = {} /\ held \in Caches
    BY <1>0, NothingTyped, NoMeshesTyped DEF Rebuilt, IInv, Typed, Caches
  <2> HIDE DEF m
  <2> QED
    BY <1>2, <2>1 DEF m
<1> SUFFICES ASSUME doc # Nothing
             PROVE  /\ m \in Caches
                    /\ \A b \in Bodies : b \notin DOMAIN doc => m[b] \in {None, meshes[b]}
                    /\ \A b \in DOMAIN doc :
                          /\ b \in Bodies /\ doc[b] \in Shapes
                          /\ m[b].etag \in Number /\ m[b].shape = doc[b]
                          /\ \A t \in Shapes : Means(b, m[b].etag, t) => t = doc[b]
  BY <1>0
<1>3. /\ \A b \in Bodies : b \notin DOMAIN doc => m[b] = None
      /\ \A b \in Bodies : b \in DOMAIN doc =>
            \/ held[b] # None /\ held[b].shape = doc[b] /\ m[b] = held[b]
            \/ m[b] = New(b)
      /\ m = [b \in Bodies |-> m[b]]
  BY DEF Rebuilt
<1>4. meshes \in Caches
  BY DEF IInv, Typed, Caches
<1> HIDE DEF m
<1>5. ASSUME NEW b \in DOMAIN doc
      PROVE  /\ m[b] \in Payloads /\ m[b].etag \in Number /\ m[b].shape = doc[b]
             /\ \A t \in Shapes : Means(b, m[b].etag, t) => t = doc[b]
  <2>1. b \in Bodies /\ doc[b] \in Shapes
    BY <1>1
  <2>2. CASE held[b] # None /\ held[b].shape = doc[b] /\ m[b] = held[b]
    <3>1. meshes[b] # None /\ m[b] = meshes[b] /\ meshes[b].shape = doc[b]
      BY <1>2, <2>1, <2>2
    <3>2. meshes[b] \in Payloads /\ meshes[b].etag \in Number
      BY <1>4, <2>1, <3>1, CachesTyped
    <3>3. Means(b, meshes[b].etag, doc[b])
      BY <3>1 DEF Means, Holds
    <3> QED
      BY <2>1, <3>1, <3>2, <3>3 DEF IInv, EtagsMean
  <2>3. CASE m[b] = New(b)
    <3> DEFINE e == Unused(EtagsInUse(b))
    <3>1. e \in Number /\ \A t \in Somewhere : ~Means(b, e, t)
      BY <2>1, UnusedEtagIsNew DEF IInv
    <3> HIDE DEF e
    <3>2. m[b] = [etag |-> e, shape |-> doc[b]]
      BY <2>3 DEF e
    <3>3. m[b] \in Payloads /\ m[b].etag = e /\ m[b].shape = doc[b]
      BY <2>1, <3>1, <3>2 DEF Payloads, Number
    <3> QED
      BY <3>1, <3>3 DEF Somewhere
  <2> QED
    BY <1>3, <2>1, <2>2, <2>3
<1>6. m \in Caches
  <2>1. \A b \in Bodies : m[b] \in Payloads \cup {None}
    BY <1>3, <1>5
  <2> QED
    BY <1>3, <2>1 DEF Caches
<1> QED
  BY <1>1, <1>3, <1>5, <1>6 DEF m

LEMMA BuiltRows ==
    ASSUME NEW doc \in Builds, NEW built, NEW known,
           \A b \in DOMAIN doc : built[b].etag \in Number
    PROVE  LET rows == Rows(doc, built, known)
           IN  /\ rows \in RowSets /\ DOMAIN rows = DOMAIN doc
               /\ \A b \in DOMAIN doc :
                     rows[b].etag = built[b].etag /\ rows[b].shape \in {None, doc[b]}
               /\ known = Nothing => NoStub(rows)
               /\ (rows = Nothing) <=> (doc = Nothing)
<1> DEFINE rows == Rows(doc, built, known)
<1>1. /\ doc \in Results /\ DOMAIN doc \subseteq Bodies
      /\ \A b \in DOMAIN doc : doc[b] \in Shapes
  BY BuildsAreResults, ResultsTyped
<1>2. /\ DOMAIN rows = DOMAIN doc
      /\ \A b \in DOMAIN doc :
            rows[b] = [etag  |-> built[b].etag,
                       shape |-> IF b \in DOMAIN known /\ known[b] = built[b].etag
                                 THEN None ELSE doc[b]]
      /\ rows = [b \in DOMAIN rows |-> rows[b]]
  BY DEF Rows
<1> HIDE DEF rows
<1>3. \A b \in DOMAIN doc : /\ rows[b].etag = built[b].etag
                            /\ rows[b].shape \in {None, doc[b]}
                            /\ rows[b] \in [etag : Number, shape : Somewhere]
  BY <1>1, <1>2 DEF Somewhere
<1>4. rows \in RowSets
  <2>1. rows \in [DOMAIN rows -> [etag : Number, shape : Somewhere]]
    BY <1>2, <1>3
  <2> QED
    BY <1>1, <1>2, <2>1, OverBodiesIs DEF RowSets
<1>5. ASSUME known = Nothing PROVE NoStub(rows)
  <2>1. DOMAIN known = {}
    BY <1>5, NothingTyped
  <2>2. \A b \in DOMAIN doc : rows[b].shape = doc[b]
    BY <1>2, <2>1
  <2> QED
    BY <1>1, <1>2, <2>2, StreamAssumption DEF NoStub
<1>6. (rows = Nothing) <=> (doc = Nothing)
  <2>1. doc = [b \in DOMAIN doc |-> doc[b]]
    BY <1>1, OverBodiesIs DEF Results
  <2> QED
    BY <1>2, <2>1, NothingTyped
<1> QED
  BY <1>2, <1>3, <1>4, <1>5, <1>6 DEF rows
-----------------------------------------------------------------------------
(* The steps of the engine.                                                *)

LEMMA FrameTyped ==
    ASSUME NEW kind \in {"failed", "resync", "whole", "head", "chunk"}, NEW id \in Number,
           NEW rows \in RowSets, NEW seq \in Nat, NEW final \in BOOLEAN
    PROVE  LET f == Frame(kind, id, rows, seq, final)
           IN  /\ f \in Frames /\ f.kind = kind /\ f.id = id /\ f.rows = rows
               /\ f.seq = seq /\ f.final = final
BY DEF Frame, Frames

LEMMA BuildStep ==
    ASSUME IInv, Build
    PROVE  IInv'
<1> DEFINE r == Head(queue)
           held == Held(r)
           built == Rebuilt(r.doc, held)
           rows == Rows(r.doc, built, r.known)
           final == r.doc = Nothing
           f == Frame("head", r.id, rows, 0, final)
           reply == [id |-> r.id, rows |-> rows, left |-> DOMAIN rows, seq |-> 1]
<1>1. /\ conn' = conn /\ mishaps' = mishaps /\ ClientStays
      /\ sending = None /\ queue # <<>> /\ Len(frames) < Room /\ queue' = Tail(queue)
  BY DEF Build, Free, client, ClientStays
<1>2. meshes' = built /\ frames' = Append(frames, f)
      /\ sending' = IF final THEN None ELSE reply
  BY DEF Build
<1>3. r \in Requests /\ r = queue[1] /\ 1 \in DOMAIN queue
  BY <1>1, QueueShrinks DEF IInv
<1>4. r.id \in Number /\ r.doc \in Builds
  BY <1>3 DEF Requests
<1>5. held \in {meshes, NoMeshes}
  BY DEF Held
<1>6. /\ built \in Caches
      /\ \A b \in Bodies : b \notin DOMAIN r.doc => built[b] \in {None, meshes[b]}
      /\ \A b \in DOMAIN r.doc :
            /\ b \in Bodies /\ r.doc[b] \in Shapes
            /\ built[b].etag \in Number /\ built[b].shape = r.doc[b]
            /\ \A t \in Shapes : Means(b, built[b].etag, t) => t = r.doc[b]
  <2> HIDE DEF held, r
  <2> QED
    BY <1>4, <1>5, RebuiltTyped
<1> HIDE DEF built
<1>7. /\ rows \in RowSets /\ DOMAIN rows = DOMAIN r.doc
      /\ \A b \in DOMAIN r.doc :
            rows[b].etag = built[b].etag /\ rows[b].shape \in {None, r.doc[b]}
      /\ r.known = Nothing => NoStub(rows)
      /\ (rows = Nothing) <=> final
  <2> HIDE DEF r
  <2> QED
    BY <1>4, <1>6, BuiltRows
<1> HIDE DEF rows
<1>8. final \in BOOLEAN
  OBVIOUS
<1>9. /\ f \in Frames /\ f.kind = "head" /\ f.id = r.id /\ f.rows = rows /\ f.final = final
  <2> HIDE DEF final, r
  <2> QED
    BY <1>4, <1>7, <1>8, FrameTyped
<1> HIDE DEF f
<1>10. sending' # None => sending' = reply /\ ~final
  BY <1>2
<1>11. Begins(f)
  <2>1. reply.id = r.id /\ reply.rows = rows
    OBVIOUS
  <2>2. f.kind = "head" /\ f.final => f.rows = Nothing
    BY <1>7, <1>9
  <2> HIDE DEF reply, final
  <2>3. sending' # None => /\ f.kind = "head"
                           /\ sending'.id = f.id /\ sending'.rows = f.rows
    BY <1>9, <1>10, <2>1
  <2> QED
    BY <1>1, <1>9, <2>2, <2>3 DEF Begins
<1>12. Sends(f)
  BY <1>1, <1>2, <1>9, <1>11 DEF Sends
<1>13. \A k \in Callers : Waits(k) /\ calls[k].id = r.id =>
          calls[k].doc = r.doc /\ (ForAll(k) => r.known = Nothing)
  BY <1>3 DEF IInv, AllAsAsked, AsAsked
<1>14. SaysWhatWasAsked(f)
  BY <1>7, <1>9, <1>13 DEF SaysWhatWasAsked
<1>15. EtagsMean'
  <2> DEFINE doc == r.doc
  <2>1. \A b \in Bodies, e \in Number, s \in Shapes : Holds(b, e, s)' =>
           \/ Means(b, e, s)
           \/ b \in DOMAIN doc /\ e = built[b].etag /\ s = doc[b]
    <3> SUFFICES ASSUME NEW b \in Bodies, NEW e \in Number, NEW s \in Shapes, Holds(b, e, s)'
                 PROVE  \/ Holds(b, e, s)
                        \/ b \in DOMAIN doc /\ e = built[b].etag /\ s = doc[b]
      BY DEF Means
    <3>1. CASE meshes'[b] # None /\ meshes'[b].etag = e /\ meshes'[b].shape = s
      <4>1. CASE b \in DOMAIN doc
        BY <1>2, <1>6, <3>1, <4>1
      <4>2. CASE b \notin DOMAIN doc
        BY <1>2, <1>6, <3>1, <4>2 DEF Holds
      <4> QED
        BY <4>1, <4>2
    <3> QED
      BY <1>1, <3>1 DEF Holds, ClientStays
  <2>2. \A id \in Number, b \in Bodies, e \in Number, x \in Somewhere : Tells(id, b, e, x)' =>
           \/ Tells(id, b, e, x)
           \/ /\ b \in DOMAIN doc /\ e = built[b].etag /\ x \in {None, doc[b]}
              /\ \A k \in Callers : Waits(k) /\ calls[k].id = id => calls[k].doc = doc
    <3> SUFFICES ASSUME NEW id \in Number, NEW b \in Bodies, NEW e \in Number,
                        NEW x \in Somewhere, Tells(id, b, e, x)', ~Tells(id, b, e, x)
                 PROVE  /\ b \in DOMAIN doc /\ e = built[b].etag /\ x \in {None, doc[b]}
                        /\ \A k \in Callers :
                              Waits(k) /\ calls[k].id = id => calls[k].doc = doc
      OBVIOUS
    <3>1. id = r.id /\ InRows(rows, b, e, x)
      BY <1>9, <1>12, SendTells DEF IInv
    <3> QED
      BY <1>7, <1>13, <3>1 DEF InRows
  <2>3. \A k \in Callers : Waits(k)' => Waits(k) /\ calls'[k] = calls[k]
    BY <1>1 DEF ClientStays, Waits
  <2>4. \A k \in Callers : Waits(k) => calls[k].id \in Number
    BY CallTyped DEF IInv
  <2>5. \A b \in DOMAIN doc, t \in Shapes : Means(b, built[b].etag, t) => t = doc[b]
    BY <1>6
  <2>6. EtagsMean
    BY DEF IInv
  <2> HIDE DEF doc
  <2> QED
    BY <2>1, <2>2, <2>3, <2>4, <2>5, <2>6, MeaningsGrow
<1>16. sending' # None =>
          /\ sending' \in Replies /\ sending'.left # {}
          /\ sending'.left \subseteq DOMAIN sending'.rows
          /\ sending'.seq + Cardinality(sending'.left) <= Cardinality(Bodies) + 1
  <2>1. DOMAIN rows \subseteq Bodies
    BY <1>7, RowsTyped
  <2>2. /\ IsFiniteSet(Bodies) /\ Cardinality(Bodies) \in Nat
        /\ Cardinality(DOMAIN rows) \in Nat /\ Cardinality(DOMAIN rows) <= Cardinality(Bodies)
    BY <2>1, StreamAssumption, FS_Subset, FS_CardinalityType
  <2>3. ~final => DOMAIN rows # {}
    <3>1. rows = [b \in DOMAIN rows |-> rows[b]]
      BY <1>7, OverBodiesIs DEF RowSets
    <3> QED
      BY <1>7, <3>1, NothingTyped
  <2>4. /\ reply \in Replies /\ reply.left = DOMAIN rows /\ reply.rows = rows /\ reply.seq = 1
    BY <1>4, <1>7, <2>1 DEF Replies, Number
  <2>5. 1 + Cardinality(DOMAIN rows) <= Cardinality(Bodies) + 1
    BY <2>2
  <2> HIDE DEF reply, final
  <2> QED
    BY <1>10, <2>3, <2>4, <2>5
<1>17. mishaps' \in 0 .. MaxMishaps
  BY <1>1 DEF IInv, TypeOK
<1> QED
  BY <1>1, <1>2, <1>6, <1>9, <1>12, <1>14, <1>15, <1>16, <1>17, EngineKeeps

LEMMA RefuseStep ==
    ASSUME IInv, Refuse
    PROVE  IInv'
<1> DEFINE r == Head(queue)
<1>1. /\ conn' = conn /\ mishaps' = mishaps /\ ClientStays /\ sending' = sending
      /\ meshes' \in {meshes, NoMeshes}
      /\ sending = None /\ queue # <<>> /\ Len(frames) < Room /\ queue' = Tail(queue)
  BY DEF Refuse, Free, Held, client, ClientStays
<1>2. PICK kind \in {"failed", "resync"} :
         /\ kind = "resync" => r.op = "rebuild" /\ r.stage = "first"
         /\ frames' = Append(frames, Frame(kind, r.id, Nothing, 0, TRUE))
  BY DEF Refuse
<1>3. r \in Requests /\ r = queue[1] /\ 1 \in DOMAIN queue
  BY <1>1, QueueShrinks DEF IInv
<1> DEFINE f == Frame(kind, r.id, Nothing, 0, TRUE)
<1>4. /\ f \in Frames /\ f.kind = kind /\ f.id = r.id /\ f.rows = Nothing
  <2> DEFINE zero == 0
             yes == TRUE
             id == r.id
             rows == Nothing
  <2>1. id \in Number
    BY <1>3 DEF Requests
  <2>2. kind \in {"failed", "resync", "whole", "head", "chunk"} /\ zero \in Nat
        /\ yes \in BOOLEAN
    OBVIOUS
  <2>3. rows \in RowSets
    BY NothingTyped
  <2>4. f = Frame(kind, id, rows, zero, yes)
    OBVIOUS
  <2>5. id = r.id /\ rows = Nothing
    OBVIOUS
  <2> HIDE DEF r, f, zero, yes, id, rows
  <2>6. /\ f \in Frames /\ f.kind = kind /\ f.id = id /\ f.rows = rows
    BY <2>1, <2>2, <2>3, <2>4, FrameTyped
  <2> QED
    BY <2>5, <2>6
<1>5. frames' = Append(frames, f)
  BY <1>2
<1> HIDE DEF f
<1>6. Begins(f)
  BY <1>1, <1>4 DEF Begins
<1>7. Sends(f)
  BY <1>1, <1>4, <1>5, <1>6 DEF Sends
<1>8. \A k \in Callers : Waits(k) /\ calls[k].id = r.id =>
         calls[k].op = r.op /\ calls[k].stage = r.stage
  BY <1>3 DEF IInv, AllAsAsked, AsAsked
<1>9. SaysWhatWasAsked(f)
  <2>1. NoStub(Nothing)
    BY NothingTyped DEF NoStub
  <2> QED
    BY <1>2, <1>4, <1>8, <2>1 DEF SaysWhatWasAsked, ForAll
<1>10. EtagsMean' /\ meshes' \in Caches
  BY <1>1, <1>4, <1>7, PlainSend
<1>11. mishaps' \in 0 .. MaxMishaps
  BY <1>1 DEF IInv, TypeOK
<1> QED
  BY <1>1, <1>4, <1>7, <1>9, <1>10, <1>11, EngineKeeps

(* What is being sent is typed, and what its callers asked for. *)
LEMMA SendingTyped ==
    ASSUME IInv, sending # None
    PROVE  /\ sending \in Replies /\ sending.id \in Number /\ sending.rows \in RowSets
           /\ sending.seq \in Number /\ sending.left \subseteq Bodies
           /\ sending.left # {} /\ sending.left \subseteq DOMAIN sending.rows
           /\ IsFiniteSet(sending.left) /\ Cardinality(sending.left) \in Nat
           /\ Cardinality(Bodies) \in Nat
           /\ sending.seq + Cardinality(sending.left) <= Cardinality(Bodies) + 1
           /\ \A k \in Callers : Waits(k) /\ calls[k].id = sending.id =>
                 /\ DOMAIN sending.rows = DOMAIN calls[k].doc
                 /\ ForAll(k) => NoStub(sending.rows)
<1>1. sending \in Replies /\ sending.left # {} /\ sending.left \subseteq DOMAIN sending.rows
      /\ sending.seq + Cardinality(sending.left) <= Cardinality(Bodies) + 1
  BY DEF IInv, Typed, TypeOK, ChunksAreFew
<1>2. /\ sending.id \in Number /\ sending.rows \in RowSets
      /\ sending.seq \in Number /\ sending.left \subseteq Bodies
  BY <1>1 DEF Replies
<1>3. /\ IsFiniteSet(sending.left) /\ Cardinality(sending.left) \in Nat
      /\ Cardinality(Bodies) \in Nat
  BY <1>2, StreamAssumption, FS_Subset, FS_CardinalityType
<1>4. \A k \in Callers : Waits(k) /\ calls[k].id = sending.id =>
         /\ DOMAIN sending.rows = DOMAIN calls[k].doc
         /\ ForAll(k) => NoStub(sending.rows)
  BY DEF IInv, AllAsAsked, AsAsked
<1> QED
  BY <1>1, <1>2, <1>3, <1>4

LEMMA ChunkSent ==
    ASSUME IInv, SendChunk
    PROVE  IInv'
<1>1. /\ conn' = conn /\ mishaps' = mishaps /\ ClientStays /\ queue' = queue
      /\ meshes' = meshes /\ sending # None /\ Len(frames) < Room
  BY DEF SendChunk, client, ClientStays
<1> DEFINE rest(now) == sending.left \ now
           final(now) == rest(now) = {}
           chunk(now) == Frame("chunk", sending.id, Restrict(sending.rows, now),
                               sending.seq, final(now))
           next(now) == [sending EXCEPT !.left = rest(now), !.seq = @ + 1]
<1>2. PICK now \in (SUBSET sending.left) \ {{}} :
         /\ frames' = Append(frames, chunk(now))
         /\ sending' = IF final(now) THEN None ELSE next(now)
  BY DEF SendChunk
<1> DEFINE left == rest(now)
           last1 == final(now)
           rows == Restrict(sending.rows, now)
           f == chunk(now)
           reply == next(now)
<1>3. /\ sending \in Replies /\ sending.id \in Number /\ sending.rows \in RowSets
      /\ sending.seq \in Number /\ sending.left \subseteq Bodies
      /\ sending.left # {} /\ sending.left \subseteq DOMAIN sending.rows
      /\ IsFiniteSet(sending.left) /\ Cardinality(sending.left) \in Nat
      /\ Cardinality(Bodies) \in Nat
      /\ sending.seq + Cardinality(sending.left) <= Cardinality(Bodies) + 1
  BY <1>1, SendingTyped
<1>4. now \subseteq sending.left /\ now # {} /\ now \subseteq DOMAIN sending.rows
      /\ now \subseteq Bodies
  BY <1>2, <1>3
<1>5. /\ DOMAIN rows = now /\ \A b \in now : rows[b] = sending.rows[b]
      /\ rows = [b \in now |-> rows[b]]
  BY DEF Restrict
<1> HIDE DEF rows
<1>6. rows \in RowSets
  <2>1. \A b \in now : rows[b] \in [etag : Number, shape : Somewhere]
    BY <1>3, <1>4, <1>5, RowsTyped
  <2>2. rows \in [now -> [etag : Number, shape : Somewhere]]
    BY <1>5, <2>1
  <2> QED
    BY <1>4, <2>2 DEF RowSets, OverBodies
<1>7. /\ f \in Frames /\ f.kind = "chunk" /\ f.id = sending.id /\ f.rows = rows
      /\ f.seq = sending.seq
  <2>1. last1 \in BOOLEAN
    OBVIOUS
  <2>2. f = Frame("chunk", sending.id, rows, sending.seq, last1)
    BY DEF rows
  <2>3. sending.seq \in Nat
    BY <1>3 DEF Number
  <2> HIDE DEF f, last1
  <2> QED
    BY <1>3, <1>6, <2>1, <2>2, <2>3, FrameTyped
<1>8. frames' = Append(frames, f) /\ (sending' # None => sending' = reply /\ left # {})
  BY <1>2
<1>9. /\ reply.id = sending.id /\ reply.rows = sending.rows /\ reply.left = left
      /\ reply.seq = sending.seq + 1
      /\ reply = [id |-> sending.id, rows |-> sending.rows, left |-> left,
                  seq |-> sending.seq + 1]
  <2>1. reply = [sending EXCEPT !.left = left, !.seq = @ + 1]
    OBVIOUS
  <2> HIDE DEF reply, left
  <2>2. reply = [id |-> sending.id, rows |-> sending.rows, left |-> left,
                 seq |-> sending.seq + 1]
    BY <1>3, <2>1 DEF Replies
  <2> QED
    BY <2>2
<1>10. left \subseteq sending.left /\ left \subseteq Bodies
  BY <1>3
<1>11. IsFiniteSet(left) /\ Cardinality(left) \in Nat
       /\ Cardinality(left) <= Cardinality(sending.left) - 1
  <2>1. PICK x \in now : TRUE
    BY <1>4
  <2>2. /\ IsFiniteSet(sending.left \ {x})
        /\ Cardinality(sending.left \ {x}) = Cardinality(sending.left) - 1
    BY <1>3, <1>4, <2>1, FS_RemoveElement
  <2>3. left \subseteq sending.left \ {x}
    BY <2>1
  <2>4. IsFiniteSet(left) /\ Cardinality(left) <= Cardinality(sending.left \ {x})
    BY <2>2, <2>3, FS_Subset
  <2>5. Cardinality(left) \in Nat
    BY <2>4, FS_CardinalityType
  <2> QED
    BY <2>2, <2>4, <2>5
<1> HIDE DEF f, reply, left
<1>12. Agrees(rows, sending.rows)
  BY <1>4, <1>5 DEF Agrees
<1>13. GoesOn(f)
  BY <1>1, <1>7, <1>8, <1>9, <1>12 DEF GoesOn
<1>14. Sends(f)
  BY <1>1, <1>7, <1>8, <1>13 DEF Sends
<1>15. SaysWhatWasAsked(f)
  <2>1. \A k \in Callers : Waits(k) /\ calls[k].id = sending.id =>
           (ForAll(k) => NoStub(sending.rows))
    BY <1>1, SendingTyped
  <2>2. NoStub(sending.rows) => NoStub(rows)
    BY <1>4, <1>5 DEF NoStub
  <2> QED
    BY <1>7, <2>1, <2>2 DEF SaysWhatWasAsked
<1>16. EtagsMean' /\ meshes' \in Caches
  <2>1. \A b \in DOMAIN f.rows : b \in DOMAIN sending.rows /\ f.rows[b] = sending.rows[b]
    BY <1>4, <1>5, <1>7
  <2> QED
    BY <1>1, <1>13, <1>14, <2>1, PlainSend
<1>17. sending' # None =>
          /\ sending' \in Replies /\ sending'.left # {}
          /\ sending'.left \subseteq DOMAIN sending'.rows
          /\ sending'.seq + Cardinality(sending'.left) <= Cardinality(Bodies) + 1
  <2>1. sending.seq + 1 \in Number
    BY <1>3 DEF Number
  <2>2. reply \in Replies
    BY <1>3, <1>9, <1>10, <2>1 DEF Replies
  <2>3. (sending.seq + 1) + Cardinality(left) <= Cardinality(Bodies) + 1
    BY <1>3, <1>11 DEF Number
  <2> QED
    BY <1>3, <1>8, <1>9, <1>10, <2>2, <2>3
<1>18. f.seq <= Cardinality(Bodies)
  <2>1. Cardinality(sending.left) >= 1
    BY <1>3, <1>11
  <2> QED
    BY <1>3, <1>7, <2>1 DEF Number
<1>19. mishaps' \in 0 .. MaxMishaps
  BY <1>1 DEF IInv, TypeOK
<1> QED
  BY <1>1, <1>14, <1>15, <1>16, <1>17, <1>18, <1>19, EngineKeeps

LEMMA GiveUpStep ==
    ASSUME IInv, GiveUp
    PROVE  IInv'
<1>1. /\ conn' = conn /\ ClientStays /\ queue' = queue /\ sending' = None
      /\ sending # None /\ Len(frames) < Room /\ Mishap
  BY DEF GiveUp, client, ClientStays
<1>2. mishaps' \in 0 .. MaxMishaps
  BY <1>1, MishapTyped
<1>3. sending.id \in Number /\ sending.rows \in RowSets
      /\ \A k \in Callers : Waits(k) /\ calls[k].id = sending.id =>
            /\ DOMAIN sending.rows = DOMAIN calls[k].doc
            /\ ForAll(k) => NoStub(sending.rows)
  BY <1>1, SendingTyped
<1> DEFINE zero == 0
           yes == TRUE
<1>4. zero \in Nat /\ yes \in BOOLEAN
  OBVIOUS
<1>5. PICK kind \in {"failed", "whole"}, rows \in {Nothing, sending.rows} :
         /\ frames' = Append(frames, Frame(kind, sending.id, rows, zero, yes))
         /\ kind = "whole" => rows = sending.rows
         /\ meshes' \in {meshes, NoMeshes}
  <2>1. CASE /\ frames' = Append(frames, Frame("failed", sending.id, Nothing, 0, TRUE))
             /\ meshes' \in {meshes, NoMeshes}
    BY <2>1
  <2>2. CASE /\ frames' = Append(frames, Frame("whole", sending.id, sending.rows, 0, TRUE))
             /\ UNCHANGED meshes
    BY <2>2
  <2> QED
    BY <2>1, <2>2 DEF GiveUp
<1> HIDE DEF zero, yes
<1> DEFINE f == Frame(kind, sending.id, rows, zero, yes)
<1>6. /\ f \in Frames /\ f.kind = kind /\ f.id = sending.id /\ f.rows = rows
  <2>1. kind \in {"failed", "resync", "whole", "head", "chunk"}
    OBVIOUS
  <2>2. rows \in RowSets
    BY <1>3, NothingTyped
  <2>3. f = Frame(kind, sending.id, rows, zero, yes)
    OBVIOUS
  <2> HIDE DEF f
  <2> QED
    BY <1>3, <1>4, <2>1, <2>2, <2>3, FrameTyped
<1>7. frames' = Append(frames, f)
  BY <1>5
<1> HIDE DEF f
<1>8. GoesOn(f)
  BY <1>1, <1>6 DEF GoesOn
<1>9. Sends(f)
  BY <1>1, <1>6, <1>7, <1>8 DEF Sends
<1>10. NoStub(Nothing)
  BY NothingTyped DEF NoStub
<1>11. SaysWhatWasAsked(f)
  BY <1>3, <1>5, <1>6, <1>10 DEF SaysWhatWasAsked
<1>12. EtagsMean' /\ meshes' \in Caches
  BY <1>5, <1>6, <1>8, <1>9, PlainSend
<1>13. f.kind # "chunk"
  BY <1>6
<1> QED
  BY <1>1, <1>2, <1>9, <1>11, <1>12, <1>13, EngineKeeps

LEMMA SameStreams ==
    ASSUME IInv, streams' = streams
    PROVE  StreamsCome /\ ShapesCome
BY StreamTells DEF StreamsCome, ShapesCome

(* The worker that comes up anew holds nothing. *)
LEMMA RestartStep ==
    ASSUME IInv, Restart
    PROVE  IInv'
<1>1. /\ conn' = conn /\ ClientStays /\ queue' = queue /\ sending' = sending
      /\ frames' = frames /\ meshes' = NoMeshes /\ Mishap
  BY DEF Restart, client, ClientStays
<1>2. calls' = calls /\ bodyMesh' = bodyMesh /\ streams' = streams /\ last' = last
  BY <1>1 DEF ClientStays
<1>3. Typed' /\ TypeOK' /\ AnswersAreTheBuild'
  <2>1. meshes' \in Caches
    BY <1>1, NoMeshesTyped
  <2>2. mishaps' \in 0 .. MaxMishaps
    BY <1>1, MishapTyped
  <2>3. queue' \in Seq(Requests) /\ frames' \in Seq(Frames)
    BY <1>1 DEF IInv, Typed
  <2>4. Len(frames') <= Room /\ conn' \in {"up", "down"}
    BY <1>1 DEF IInv, TypeOK
  <2>5. sending' # None => /\ sending' \in Replies /\ sending'.left # {}
                           /\ sending'.left \subseteq DOMAIN sending'.rows
    BY <1>1 DEF IInv, Typed, TypeOK
  <2> QED
    BY <1>1, <2>1, <2>2, <2>3, <2>4, <2>5, EngineTypes
<1>4. FramesLeft /\ SendingLeft
  BY <1>1, SameIsLeft DEF SendingLeft
<1>5. CallsMove
  BY <1>1, <1>2, CallsUntouched DEF CallsAreKept
<1>6. StreamsCome /\ ShapesCome
  BY <1>2, SameStreams
<1>7. HoldsCome
  BY <1>1, <1>2, HeldMeans, HeldComes
<1>8. InOnePlace' /\ HeadsRule' /\ AllAsAsked' /\ EtagsMean' /\ ChunksAreFew'
  BY <1>3, <1>4, <1>5, <1>6, <1>7, ClientStep DEF ClientMoves
<1> QED
  BY <1>3, <1>8 DEF IInv

(* All that was under way is gone; a build may have come to its end. *)
LEMMA DropStep ==
    ASSUME IInv, Drop
    PROVE  IInv'
<1>1. /\ conn' = "down" /\ Closed /\ Mishap
      /\ queue' = <<>> /\ sending' = None /\ frames' = <<>>
  BY DEF Drop
<1>2. streams' = Nothing /\ bodyMesh' = bodyMesh /\ last' = last
  BY <1>1 DEF Closed
<1>3. CallsAreKept /\ NobodyAsks
  BY <1>1, ClosedCalls
<1>4. PICK doc, built :
         /\ meshes' \in Caches
         /\ \A b \in Bodies : meshes'[b] # None =>
               \/ meshes'[b] = meshes[b]
               \/ /\ b \in DOMAIN doc /\ meshes'[b].etag = built[b].etag
                  /\ meshes'[b].shape = doc[b]
         /\ \A b \in DOMAIN doc, t \in Shapes : Means(b, built[b].etag, t) => t = doc[b]
  <2>1. CASE meshes' = meshes
    <3>1. meshes' \in Caches /\ DOMAIN Nothing = {}
      BY <2>1, NothingTyped DEF IInv, Typed, Caches
    <3> QED
      BY <2>1, <3>1
  <2>2. CASE meshes' = NoMeshes
    <3>1. meshes' \in Caches /\ DOMAIN Nothing = {} /\ \A b \in Bodies : meshes'[b] = None
      BY <2>2, NothingTyped, NoMeshesTyped
    <3> QED
      BY <3>1
  <2>3. CASE queue # <<>> /\ meshes' = Rebuilt(Head(queue).doc, Held(Head(queue)))
    <3> DEFINE d == Head(queue).doc
               held == Held(Head(queue))
               m == Rebuilt(d, held)
    <3>1. d \in Builds
      <4>1. queue \in Seq(Requests)
        BY DEF IInv, Typed
      <4>2. Head(queue) \in Requests
        BY <2>3, <4>1, HeadTailProperties
      <4> QED
        BY <4>2 DEF Requests
    <3>0. held \in {meshes, NoMeshes}
      BY DEF Held
    <3> HIDE DEF d, held
    <3>2. /\ m \in Caches
          /\ \A b \in Bodies : b \notin DOMAIN d => m[b] \in {None, meshes[b]}
          /\ \A b \in DOMAIN d :
                /\ b \in Bodies /\ d[b] \in Shapes
                /\ m[b].etag \in Number /\ m[b].shape = d[b]
                /\ \A t \in Shapes : Means(b, m[b].etag, t) => t = d[b]
      BY <3>0, <3>1, RebuiltTyped
    <3>3. meshes' = m
      BY <2>3 DEF d, held
    <3> HIDE DEF m
    <3>4. /\ meshes' \in Caches
          /\ \A b \in Bodies : meshes'[b] # None =>
                \/ meshes'[b] = meshes[b]
                \/ /\ b \in DOMAIN d /\ meshes'[b].etag = m[b].etag
                   /\ meshes'[b].shape = d[b]
          /\ \A b \in DOMAIN d, t \in Shapes : Means(b, m[b].etag, t) => t = d[b]
      BY <3>2, <3>3
    <3> QED
      BY <3>4
  <2> QED
    BY <2>1, <2>2, <2>3 DEF Drop, Held
<1>5. StreamsTyped' /\ StreamsCome
  BY <1>2, NoStreams
<1>6. Typed'
  <2>1. calls' \in [Callers -> CallStates] /\ queue' \in Seq(Requests)
    BY <1>3 DEF CallsAreKept
  <2>2. /\ bodyMesh' \in [Bodies -> Payloads \cup {None}]
        /\ meshes' \in [Bodies -> Payloads \cup {None}]
    BY <1>2, <1>4 DEF IInv, Typed, Caches
  <2>3. streams' \in [DOMAIN streams' -> Assemblies] /\ IsFiniteSet(DOMAIN streams')
        /\ DOMAIN streams' \subseteq Number
    BY <1>5 DEF StreamsTyped, StreamTyped
  <2>4. last' # None => last'.sig \in Manifests /\ last'.result \in Results
                        /\ DOMAIN last'.sig = DOMAIN last'.result
    BY <1>2 DEF IInv, Typed
  <2>5. frames' \in Seq(Frames)
    BY <1>1, EmptySeq
  <2> QED
    BY <1>1, <2>1, <2>2, <2>3, <2>4, <2>5 DEF Typed
<1>7. TypeOK'
  <2>1. \A k \in Callers : Waits(k)' => calls'[k].doc \in Builds
    BY <1>3 DEF NobodyAsks, IInv, TypeOK
  <2>2. \A b \in Bodies : {bodyMesh'[b], meshes'[b]} \subseteq Payloads \cup {None}
    BY <1>6 DEF Typed
  <2>3. DOMAIN streams' = {}
    BY <1>2, NothingTyped
  <2>4. Len(frames') <= Room
    BY <1>1, StreamAssumption, EmptySeq
  <2>5. mishaps' \in 0 .. MaxMishaps
    BY <1>1, MishapTyped
  <2> QED
    BY <1>1, <2>1, <2>2, <2>3, <2>4, <2>5 DEF TypeOK, Waits
<1>8. AnswersAreTheBuild'
  BY <1>3 DEF CallsAreKept, Answered, AnswersAreTheBuild
<1>9. FramesLeft /\ SendingLeft /\ CallsMove
  BY <1>1, <1>3, NoneIsLeft DEF SendingLeft, CallsAreKept
<1>10. InOnePlace' /\ HeadsRule' /\ AllAsAsked' /\ ChunksAreFew'
  BY <1>5, <1>9, ClientPlaces, ClientHeads, ClientAsks, ClientChunks DEF IInv
<1>11. EtagsMean'
  <2>1. \A b \in Bodies, e \in Number, s \in Shapes : Holds(b, e, s)' =>
           \/ Means(b, e, s)
           \/ b \in DOMAIN doc /\ e = built[b].etag /\ s = doc[b]
    <3> SUFFICES ASSUME NEW b \in Bodies, NEW e \in Number, NEW s \in Shapes, Holds(b, e, s)'
                 PROVE  \/ Holds(b, e, s)
                        \/ b \in DOMAIN doc /\ e = built[b].etag /\ s = doc[b]
      BY DEF Means
    <3>1. CASE meshes'[b] # None /\ meshes'[b].etag = e /\ meshes'[b].shape = s
      BY <1>4, <3>1 DEF Holds
    <3> QED
      BY <1>2, <3>1 DEF Holds
  <2>2. \A id, b, e, x : ~Tells(id, b, e, x)'
    <3>1. DOMAIN streams' = {} /\ DOMAIN frames' = {}
      BY <1>1, <1>2, NothingTyped
    <3> QED
      BY <1>1, <3>1 DEF Tells
  <2>3. \A k \in Callers : Waits(k)' => Waits(k) /\ calls'[k] = calls[k]
    BY <1>3 DEF NobodyAsks
  <2>4. \A k \in Callers : Waits(k) => calls[k].id \in Number
    BY CallTyped DEF IInv
  <2>5. \A b \in DOMAIN doc, t \in Shapes : Means(b, built[b].etag, t) => t = doc[b]
    BY <1>4
  <2>6. EtagsMean
    BY DEF IInv
  <2> QED
    BY <2>1, <2>2, <2>3, <2>4, <2>5, <2>6, MeaningsGrow
<1> QED
  BY <1>6, <1>7, <1>8, <1>10, <1>11 DEF IInv
-----------------------------------------------------------------------------
(* The theorems.                                                           *)

LEMMA InitInv == Init => IInv
<1> SUFFICES ASSUME Init PROVE IInv
  OBVIOUS
<1>1. /\ conn = "down" /\ calls = [k \in Callers |-> [stage |-> "idle"]]
      /\ bodyMesh = NoMeshes /\ streams = Nothing /\ last = None /\ queue = <<>>
      /\ sending = None /\ frames = <<>> /\ meshes = NoMeshes /\ mishaps = MaxMishaps
  BY DEF Init
<1>2. /\ DOMAIN streams = {} /\ DOMAIN queue = {} /\ DOMAIN frames = {}
      /\ \A b \in Bodies : bodyMesh[b] = None /\ meshes[b] = None
  BY <1>1, NothingTyped, NoMeshesTyped
<1>3. \A k \in Callers : calls[k].stage = "idle"
  BY <1>1
<1>4. \A k \in Callers : ~Waits(k)
  BY <1>3 DEF Waits
<1>5. Typed
  <2>1. calls \in [Callers -> CallStates]
    BY <1>1 DEF CallStates
  <2>2. bodyMesh \in [Bodies -> Payloads \cup {None}]
        /\ meshes \in [Bodies -> Payloads \cup {None}]
    BY <1>1, NoMeshesTyped DEF Caches
  <2>3. streams \in [DOMAIN streams -> Assemblies]
        /\ IsFiniteSet(DOMAIN streams) /\ DOMAIN streams \subseteq Number
    BY <1>1, <1>2, FS_EmptySet DEF Nothing
  <2>4. queue \in Seq(Requests) /\ frames \in Seq(Frames)
    BY <1>1, EmptySeq
  <2> QED
    BY <1>1, <2>1, <2>2, <2>3, <2>4 DEF Typed
<1>6. TypeOK
  <2>1. Len(frames) <= Room /\ mishaps \in 0 .. MaxMishaps
    BY <1>1, StreamAssumption, EmptySeq
  <2> QED
    BY <1>1, <1>2, <1>4, <2>1 DEF TypeOK
<1>7. InOnePlace /\ HeadsRule /\ AllAsAsked /\ ChunksAreFew
  BY <1>1, <1>2, <1>4 DEF InOnePlace, HeadsRule, Heads, AllAsAsked, ChunksAreFew
<1>8. EtagsMean
  <2>1. \A b \in Bodies : \A e, s : ~Holds(b, e, s)
    BY <1>1, <1>2 DEF Holds
  <2>2. \A id, b, e, x : ~Tells(id, b, e, x)
    BY <1>1, <1>2 DEF Tells
  <2>3. \A b \in Bodies : \A e, s : ~Means(b, e, s)
    BY <2>1, <2>2 DEF Means
  <2> QED
    BY <2>3 DEF EtagsMean
<1>9. AnswersAreTheBuild
  BY <1>3 DEF AnswersAreTheBuild
<1> QED
  BY <1>5, <1>6, <1>7, <1>8, <1>9 DEF IInv

LEMMA NextInv ==
    ASSUME IInv, [Next]_vars
    PROVE  IInv'
<1>1. CASE \E k \in Callers, doc \in Builds : Rebuild(k, doc) \/ ComputeAll(k, doc)
  BY <1>1, CallStep
<1>2. CASE Receive
  BY <1>2, TextStep, WholeStep, HeadStep, ChunkStep DEF Receive
<1>3. CASE Unreadable
  BY <1>3, UnreadableStep
<1>4. CASE \E id \in DOMAIN streams : Stall(id) \/ Slow(id)
  BY <1>4, TimerStep
<1>5. CASE Build
  BY <1>5, BuildStep
<1>6. CASE Refuse
  BY <1>6, RefuseStep
<1>7. CASE SendChunk
  BY <1>7, ChunkSent
<1>8. CASE GiveUp
  BY <1>8, GiveUpStep
<1>9. CASE Restart
  BY <1>9, RestartStep
<1>10. CASE Connect
  BY <1>10, ConnectStep
<1>11. CASE Drop
  BY <1>11, DropStep
<1>12. CASE ConnectFails
  BY <1>12, ConnectFailsStep
<1>13. CASE UNCHANGED vars
  <2>1. UNCHANGED <<client, queue, sending, meshes>> /\ frames' = frames
        /\ conn' = conn /\ mishaps' = mishaps
    BY <1>13 DEF vars, client
  <2>2. FramesTaken
    BY <2>1 DEF FramesTaken
  <2>3. conn' \in {"up", "down"} /\ mishaps' \in 0 .. MaxMishaps
    BY <2>1 DEF IInv, TypeOK
  <2> QED
    BY <2>1, <2>2, <2>3, ClientIdle
<1> QED
  BY <1>1, <1>2, <1>3, <1>4, <1>5, <1>6, <1>7, <1>8, <1>9, <1>10, <1>11, <1>12, <1>13
     DEF Next

(* Whatever replies are cut, requests repeated, caches cleared and workers *)
(* restarted, every request is in one place, a reply's chunks are of its   *)
(* head's manifest, and an etag stands for one shape of its body on both   *)
(* sides of the wire (client.ts, assembly.ts, wire.py, server.py).         *)
THEOREM StreamInvariance == Spec => []IInv
<1>1. Init => IInv
  BY InitInv
<1>2. IInv /\ [Next]_vars => IInv'
  BY NextInv
<1> QED
  BY <1>1, <1>2, PTL DEF Spec

(* The variables keep their types: a stream half-received has the bodies   *)
(* its manifest names and has seen no more chunks than there are bodies    *)
(* (assembly.ts, RebuildAssembly), and a reply being sent has some left.   *)
THEOREM StreamTypeCorrect == Spec => []TypeOK
<1>1. IInv => TypeOK
  BY DEF IInv
<1> QED
  BY <1>1, StreamInvariance, PTL

(* A call that ends well ends with the build it asked for, and a rebuild   *)
(* that had to ask for everything again gets a mesh: rebuild and           *)
(* computeAll of client.ts, with RebuildAssembly of assembly.ts.           *)
THEOREM AnswersAreRight == Spec => []AnswersAreTheBuild
<1>1. IInv => AnswersAreTheBuild
  BY DEF IInv
<1> QED
  BY <1>1, StreamInvariance, PTL
=============================================================================
