------------------------ MODULE RebuildWireInvariant ------------------------
(***************************************************************************)
(* Why the delta protocol is correct when none of the behaviours of Admits *)
(* is admitted: the inductive invariant behind EngineInStep and behind the *)
(* refinement of StatelessEngine, and what WorkerHoldsWhatWasMeant needs   *)
(* besides.  RebuildWireProofs proves them inductive.                      *)
(***************************************************************************)
EXTENDS RebuildWire

(* What the client knows at each await. *)
CallInv ==
    call # Idle =>
        /\ call.want = Wire(call.doc)
        /\ call.phase = "resync" => call.rev = revision + 1
        /\ call.phase \in {"refetch", "all"} => call.rev = revision
        /\ call.phase \in {"resync", "all"} => lastSent = None
        /\ call.phase = "refetch" =>
              lastSent # None /\ call.want = Wire(lastSent)

(* No request still to be run can bring the worker to the client's current *)
(* revision with another document than the one last sent.                  *)
NotStale(m) ==
    lastSent # None =>
        \/ m.rev = revision + 1
        \/ ~m.delta /\ m.rev = revision /\ m.doc = Wire(lastSent)

(* A request somebody waits for is the one of the call in progress, and a  *)
(* delta turns the document last sent into the document asked for.         *)
OfTheCall(m) ==
    /\ call # Idle
    /\ m.id = call.id
    /\ m.doc = call.want
    /\ m.rev = call.rev
    /\ m.delta =>
          /\ call.phase = "first"
          /\ lastSent # None
          /\ m.base = revision
          /\ Patched(Wire(lastSent), m.ops) = m.doc

(* Only the newest request at the engine can be waited for ... *)
QueueInv ==
    \A i \in DOMAIN queue :
        /\ NotStale(queue[i])
        /\ queue[i].alive =>
              conn = "up" /\ i = Len(queue) /\ OfTheCall(queue[i])

(* ... or else the one request in the outbox ... *)
OutboxInv ==
    outbox # <<>> =>
        /\ conn = "down"
        /\ Len(outbox) = 1
        /\ outbox[1].alive
        /\ NotStale(outbox[1])
        /\ OfTheCall(outbox[1])

(* ... or else its reply is here, and the engine has nothing more to do:   *)
(* the worker holds what the reply was built from, unless it was killed.   *)
RepliesInv ==
    replies # <<>> =>
        /\ conn = "up"
        /\ queue = <<>>
        /\ Len(replies) = 1
        /\ call # Idle
        /\ replies[1].id = call.id
        /\ replies[1].kind = "ok" =>
              /\ replies[1].built = call.want
              /\ docState.doc # None =>
                    docState.rev = call.rev /\ docState.doc = call.want

Inv == CallInv /\ QueueInv /\ OutboxInv /\ RepliesInv /\ EngineInStep

IInv == TypeOK /\ Inv

(* A delta, run by a worker in the state s or after the request s, leads   *)
(* to the document it was made for, whoever may be waiting for it.         *)
Means(m, s) ==
    m.delta /\ s.rev = m.base => Patched(s.doc, m.ops) = m.doc

(* So does every request of a line, after whatever the worker holds now    *)
(* and after every request before it.                                      *)
InOrder(line, held) ==
    \A i \in DOMAIN line :
        /\ held.doc # None => Means(line[i], held)
        /\ \A j \in 1 .. i - 1 : Means(line[i], line[j])

(* The requests at the engine, those of clients long gone included, and    *)
(* then the ones waiting for a socket.                                     *)
Line == queue \o outbox
DeltasInv == InOrder(Line, docState)

MeantInv == Inv /\ DeltasInv
=============================================================================
