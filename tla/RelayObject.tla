---------------------------- MODULE RelayObject -----------------------------
(***************************************************************************)
(* The Durable Object of one device's relay: DashboardRelay in              *)
(* relay/src/index.ts.                                                      *)
(*                                                                         *)
(* Publishers (API processes) hold WebSockets to it; the device fetches a   *)
(* resource; the object asks one publisher, and a second one when the first *)
(* does not acknowledge, under one request id.  The object's memory is one  *)
(* in-flight entry per resource; its storage keeps the epoch counter and,   *)
(* per resource, the epochs of publishers that failed.                      *)
(*                                                                         *)
(* One action is what runs between two awaits.  A storage operation yields  *)
(* to other events unless the platform's input gate holds them back; Gated  *)
(* says for which operations the model relies on that.  The publisher's     *)
(* side of a request (acknowledge, then answer once, on the same socket) is *)
(* handleRequest in api/src/relay/relay-client.ts; it may also do nothing   *)
(* at all.                                                                  *)
(***************************************************************************)
EXTENDS Integers, FiniteSets

CONSTANTS
    Resource,     \* 'dashboard' and 'manifest'
    Socket,       \* WebSockets ever accepted
    Fetch,        \* device requests; a request id is the fetch that started it
    Capability,   \* capability sets a publisher announces
    MaxFailover,  \* MAX_FAILOVER: publishers asked per request
    MaxRestarts,  \* bound: how often the object is restarted
    Gated,        \* the operations during whose storage awaits no event is delivered
    None          \* no entry, no request, no timer, no answer

ASSUME FailoverAssumption == MaxFailover \in Nat \ {0} /\ MaxRestarts \in Nat
ASSUME CapabilityAssumption == Capability \subseteq SUBSET Resource /\ {} \notin Capability
ASSUME SocketAssumption == IsFiniteSet(Socket)
ASSUME GateAssumption == Gated \subseteq {"accept", "request"}
ASSUME NameAssumption ==
    /\ None \notin Fetch \cup {"fallback", "lost"}
    /\ Socket \cap {None, "fallback", "lost"} = {}

VARIABLES
    publisherEpoch,  \* storage: the last epoch given out
    deprioritized,   \* storage: per resource, the epochs that failed
    inflight,        \* memory: the request id in flight per resource
    entry,           \* memory: the entry of each request id, or None
    writes,          \* failovers whose storage write is pending
    sock,            \* the publisher sockets
    asked,           \* asked[s][id]: how far publisher s is with request id
    fetch,           \* the device requests
    restarts

vars == <<publisherEpoch, deprioritized, inflight, entry, writes, sock, asked, fetch, restarts>>

Epoch == Nat
Attempt == 1 .. MaxFailover
Generation == Nat

\* selectCandidates' result: at most MaxFailover sockets.
CandList == UNION {[1 .. n -> Socket] : n \in Attempt}

\* done is what deliver was first called with; seen is the deprioritised set
\* its finalisation has read and is about to write back.
Entry == [res : Resource, cands : CandList,
          attempt : Attempt, generation : Generation, acked : BOOLEAN,
          ackTimer : Generation \cup {None}, late : BOOLEAN,
          done : {"no", "null", "error", "payload"}, seen : SUBSET Epoch]

ASSUME EntryNoneAssumption == None \notin Entry

\* A failover that has read the set and is about to write it back.
Write == [id : Fetch, generation : Generation, epoch : Epoch, advance : BOOLEAN,
          seen : SUBSET Epoch]

\* "closing": the socket is no longer OPEN, its close handler has not run.
SockState == {"new", "accepting", "open", "closing", "errored", "closed"}

\* on is the request a fetch waits for, pruned the set it is about to write.
FetchState == [pc : {"new", "select", "wait", "done"}, res : Resource \cup {None},
               cands : {<<>>} \cup CandList, pruned : SUBSET Epoch, on : Fetch \cup {None},
               answer : Socket \cup {"fallback", "lost", None}]

TypeOK ==
    /\ publisherEpoch \in Epoch
    /\ deprioritized \in [Resource -> SUBSET Epoch]
    /\ inflight \in [Resource -> Fetch \cup {None}]
    /\ entry \in [Fetch -> Entry \cup {None}]
    /\ \A id \in Fetch : entry[id] # None => entry[id].attempt \in DOMAIN entry[id].cands
    /\ writes \subseteq Write
    /\ sock \in [Socket -> [state : SockState, epoch : Epoch, caps : SUBSET Resource]]
    /\ asked \in [Socket -> [Fetch -> {"no", "sent", "acked", "answered"}]]
    /\ fetch \in [Fetch -> FetchState]
    /\ restarts \in 0 .. MaxRestarts

\* The input gate lets the next event in.
GateOpen ==
    /\ "accept" \in Gated => \A s \in Socket : sock[s].state # "accepting"
    /\ "request" \in Gated =>
          /\ writes = {}
          /\ \A f \in Fetch : /\ fetch[f].pc # "select"
                              /\ entry[f] # None => entry[f].done = "no"

-----------------------------------------------------------------------------
(* Publisher sockets                                                        *)

NextEpochStuck(previous) == 1 \* mutant
NextEpoch(previous) == previous + 1

\* acceptPublisher reads the epoch ...
Connect(s) ==
    /\ GateOpen
    /\ sock[s].state = "new"
    /\ sock' = [sock EXCEPT ![s].state = "accepting", ![s].epoch = publisherEpoch]
    /\ UNCHANGED <<publisherEpoch, deprioritized, inflight, entry, writes, asked, fetch, restarts>>

\* ... and writes its successor before it accepts the socket.
Accept(s) ==
    /\ sock[s].state = "accepting"
    /\ publisherEpoch' = NextEpoch(sock[s].epoch)
    /\ sock' = [sock EXCEPT ![s].state = "open", ![s].epoch = publisherEpoch']
    /\ UNCHANGED <<deprioritized, inflight, entry, writes, asked, fetch, restarts>>

\* relay-client sends hello once, when its socket opens; a legacy publisher never.
Hello(s) ==
    /\ GateOpen
    /\ sock[s].state = "open"
    /\ sock[s].caps = {}
    /\ \E caps \in Capability : sock' = [sock EXCEPT ![s].caps = caps]
    /\ UNCHANGED <<publisherEpoch, deprioritized, inflight, entry, writes, asked, fetch, restarts>>

\* The connection breaks; readyState changes before a handler is called.
Drop(s) ==
    /\ sock[s].state = "open"
    /\ sock' = [sock EXCEPT ![s].state = "closing"]
    /\ UNCHANGED <<publisherEpoch, deprioritized, inflight, entry, writes, asked, fetch, restarts>>

-----------------------------------------------------------------------------
(* One request: startRequest                                                *)

Cand(e) == e.cands[e.attempt]
CandEpoch(e) == sock[Cand(e)].epoch

\* Failover is claimed in memory before the storage write is awaited.
CanAdvanceBeyondLast(e) == e.attempt <= Cardinality(DOMAIN e.cands) /\ ~e.late \* mutant
CanAdvance(e) == e.attempt < Cardinality(DOMAIN e.cands) /\ ~e.late

FailedOverInPlace(e) == [e EXCEPT !.generation = @ + 1, !.acked = FALSE, !.ackTimer = None] \* mutant
FailedOver(e) ==
    [e EXCEPT !.generation = @ + 1, !.acked = FALSE, !.ackTimer = None,
              !.attempt = IF CanAdvance(e) THEN @ + 1 ELSE @]

FailoverWrite(id, e) ==
    [id |-> id, generation |-> e.generation + 1, epoch |-> CandEpoch(e),
     advance |-> CanAdvance(e), seen |-> deprioritized[e.res]]

\* sendToCandidate: a socket that is not open fails over at once.
Sent(e) == [e EXCEPT !.generation = @ + 1, !.acked = FALSE, !.ackTimer = e.generation + 1]

SendToCandidate(id, e, pending) ==
    IF sock[Cand(e)].state = "open"
    THEN /\ entry' = [entry EXCEPT ![id] = Sent(e)]
         /\ asked' = [asked EXCEPT ![Cand(e)][id] = "sent"]
         /\ writes' = pending
    ELSE LET failing == [e EXCEPT !.generation = @ + 1]
         IN  /\ entry' = [entry EXCEPT ![id] = FailedOver(failing)]
             /\ writes' = pending \cup {FailoverWrite(id, failing)}
             /\ UNCHANGED asked

\* The shared promise settles: the entry is deleted, everyone who waits answered.
SettledInPlace(id) == inflight \* mutant
Settled(id) == [inflight EXCEPT ![entry[id].res] = None]

Finish(id, answer) ==
    /\ entry' = [entry EXCEPT ![id] = None]
    /\ inflight' = Settled(id)
    /\ fetch' = [f \in Fetch |->
                   IF fetch[f].pc = "wait" /\ fetch[f].on = id
                   THEN [fetch[f] EXCEPT !.pc = "done", !.answer = answer]
                   ELSE fetch[f]]

\* deliver, and the finalisation up to its first await: a timeout of a
\* publisher that never acknowledged has nothing to write.
Deliver(id, frame) ==
    LET e == entry[id]
    IN  IF frame = "null" /\ ~e.acked
        THEN Finish(id, "fallback")
        ELSE /\ entry' = [entry EXCEPT ![id].done = frame, ![id].seen = deprioritized[e.res]]
             /\ UNCHANGED <<inflight, fetch>>

Live(id) == entry[id] # None /\ entry[id].done = "no"

-----------------------------------------------------------------------------
(* Device requests: fetch                                                   *)

Usable(r) == {s \in Socket : sock[s].state = "open" /\ r \in sock[s].caps}
Pruned(r) == deprioritized[r] \cap {sock[s].epoch : s \in Usable(r)}

\* Healthy epochs first, then higher epochs.
Preferred(r, s, t) ==
    LET bad(x) == sock[x].epoch \in deprioritized[r]
    IN  \/ ~bad(s) /\ bad(t)
        \/ (bad(s) <=> bad(t)) /\ sock[s].epoch > sock[t].epoch

\* The orders the sort can produce, cut where failover stops.
Candidates(r) ==
    LET open == Usable(r)
        n == IF Cardinality(open) < MaxFailover THEN Cardinality(open) ELSE MaxFailover
    IN  {c \in [1 .. n -> open] :
            \A i \in 1 .. n : /\ \A j \in i + 1 .. n : c[j] # c[i] /\ ~Preferred(r, c[j], c[i])
                             /\ \A s \in open : Preferred(r, s, c[i]) => \E j \in 1 .. i : c[j] = s}

\* A second request joins the one in flight, up to the end of its finalisation.
JoinsNone(r) == FALSE \* mutant
Joins(r) == inflight[r] # None

Arrive(f, r) ==
    /\ GateOpen
    /\ fetch[f].pc = "new"
    /\ IF Joins(r)
       THEN fetch' = [fetch EXCEPT ![f].pc = "wait", ![f].res = r, ![f].on = inflight[r]]
       ELSE \E c \in Candidates(r) :
              fetch' = [fetch EXCEPT ![f].pc = "select", ![f].res = r,
                                     ![f].cands = c, ![f].pruned = Pruned(r)]
    /\ UNCHANGED <<publisherEpoch, deprioritized, inflight, entry, writes, sock, asked, restarts>>

\* selectCandidates has read the set: write the pruned one back, then start.
NewEntry(f) ==
    [res |-> fetch[f].res, cands |-> fetch[f].cands, attempt |-> 1, generation |-> 0,
     acked |-> FALSE, ackTimer |-> None, late |-> FALSE, done |-> "no", seen |-> {}]

Start(f) ==
    LET r == fetch[f].res
    IN  /\ fetch[f].pc = "select"
        /\ deprioritized' = [deprioritized EXCEPT ![r] = fetch[f].pruned]
        /\ IF fetch[f].cands = <<>>
           THEN /\ fetch' = [fetch EXCEPT ![f].pc = "done", ![f].answer = "fallback",
                                          ![f].pruned = {}]
                /\ UNCHANGED <<inflight, entry, writes, asked>>
           ELSE /\ fetch' = [fetch EXCEPT ![f].pc = "wait", ![f].on = f,
                                          ![f].cands = <<>>, ![f].pruned = {}]
                /\ inflight' = [inflight EXCEPT ![r] = f]
                /\ SendToCandidate(f, NewEntry(f), writes)
        /\ UNCHANGED <<publisherEpoch, sock, restarts>>

-----------------------------------------------------------------------------
(* What happens to a request                                                *)

\* A frame from publisher s about request id reaches the entry of its resource
\* only if that entry is this request's and s its current candidate.
ReachesByResource(s, id) == \* mutant
    LET current == inflight[fetch[id].res]
    IN  current # None /\ Live(current) /\ Cand(entry[current]) = s
Reaches(s, id) ==
    LET current == inflight[fetch[id].res]
    IN  current # None /\ Live(current) /\ current = id /\ Cand(entry[current]) = s

AcknowledgedUntimed(e) == [e EXCEPT !.acked = TRUE] \* mutant
Acknowledged(e) == [e EXCEPT !.acked = TRUE, !.ackTimer = None]

Ack(s, id) ==
    /\ GateOpen
    /\ sock[s].state = "open"
    /\ asked[s][id] = "sent"
    /\ asked' = [asked EXCEPT ![s][id] = "acked"]
    /\ entry' = IF Reaches(s, id)
                THEN [entry EXCEPT ![inflight[fetch[id].res]] = Acknowledged(@)]
                ELSE entry
    /\ UNCHANGED <<publisherEpoch, deprioritized, inflight, writes, sock, fetch, restarts>>

\* Its answer: a payload, or an error (a malformed payload is treated alike).
Respond(s, id, frame) ==
    /\ GateOpen
    /\ sock[s].state = "open"
    /\ asked[s][id] = "acked"
    /\ asked' = [asked EXCEPT ![s][id] = "answered"]
    /\ IF Reaches(s, id)
       THEN Deliver(inflight[fetch[id].res], frame)
       ELSE UNCHANGED <<inflight, entry, fetch>>
    /\ UNCHANGED <<publisherEpoch, deprioritized, writes, sock, restarts>>

\* The acknowledgement timer: its callback carries the generation it was set for.
AckTimeout(id) ==
    /\ GateOpen
    /\ Live(id)
    /\ entry[id].ackTimer # None
    /\ IF entry[id].ackTimer = entry[id].generation
       THEN /\ entry' = [entry EXCEPT ![id] = FailedOver(@)]
            /\ writes' = writes \cup {FailoverWrite(id, entry[id])}
       ELSE entry' = [entry EXCEPT ![id].ackTimer = None] /\ UNCHANGED writes
    /\ UNCHANGED <<publisherEpoch, deprioritized, inflight, sock, asked, fetch, restarts>>

\* failInflightForSocket, from webSocketClose or webSocketError.
Hit(s) == {id \in Fetch : \E r \in Resource : inflight[r] = id /\ Live(id) /\ Cand(entry[id]) = s}

SocketHandler(s, state) ==
    /\ sock' = [sock EXCEPT ![s].state = state]
    /\ entry' = [id \in Fetch |-> IF id \in Hit(s) THEN FailedOver(entry[id]) ELSE entry[id]]
    /\ writes' = writes \cup {FailoverWrite(id, entry[id]) : id \in Hit(s)}
    /\ UNCHANGED <<publisherEpoch, deprioritized, inflight, asked, fetch, restarts>>

Error(s) ==
    /\ GateOpen
    /\ sock[s].state = "closing"
    /\ SocketHandler(s, "errored")

Close(s) ==
    /\ GateOpen
    /\ sock[s].state \in {"closing", "errored"}
    /\ SocketHandler(s, "closed")

\* The failover's write is done, or failed: send to the candidate chosen when
\* it was claimed, or give up.  The entry may have been settled meanwhile.
WriteDone(w) ==
    /\ w \in writes
    /\ \/ /\ deprioritized' = [deprioritized EXCEPT ![fetch[w.id].res] = w.seen \cup {w.epoch}]
          /\ IF ~Live(w.id)
             THEN /\ writes' = writes \ {w}
                  /\ UNCHANGED <<inflight, entry, asked, fetch>>
             ELSE IF w.advance
             THEN /\ SendToCandidate(w.id, entry[w.id], writes \ {w})
                  /\ UNCHANGED <<inflight, fetch>>
             ELSE /\ writes' = writes \ {w}
                  /\ Deliver(w.id, "null")
                  /\ UNCHANGED asked
       \/ /\ writes' = writes \ {w}
          /\ IF Live(w.id) THEN Deliver(w.id, "null") ELSE UNCHANGED <<inflight, entry, fetch>>
          /\ UNCHANGED <<deprioritized, asked>>
    /\ UNCHANGED <<publisherEpoch, sock, restarts>>

\* The clock passes deadlineAt ...
TimeUp(id) ==
    /\ Live(id)
    /\ ~entry[id].late
    /\ entry' = [entry EXCEPT ![id].late = TRUE]
    /\ UNCHANGED <<publisherEpoch, deprioritized, inflight, writes, sock, asked, fetch, restarts>>

\* ... and the deadline timer fires.
Deadline(id) ==
    /\ GateOpen
    /\ Live(id)
    /\ entry[id].late
    /\ Deliver(id, "null")
    /\ UNCHANGED <<publisherEpoch, deprioritized, writes, sock, asked, restarts>>

\* The finalisation: blame the publisher that failed, clear the one that
\* answered; a storage failure turns either into a fallback.
JudgedNever(e) == IF e.done = "payload" THEN deprioritized[e.res] ELSE e.seen \cup {CandEpoch(e)} \* mutant
Judged(e) ==
    IF e.done # "payload" THEN e.seen \cup {CandEpoch(e)}
    ELSE IF CandEpoch(e) \in e.seen THEN e.seen \ {CandEpoch(e)} ELSE deprioritized[e.res]

Finalise(id) ==
    LET e == entry[id]
    IN  /\ e # None
        /\ e.done # "no"
        /\ \/ /\ deprioritized' = [deprioritized EXCEPT ![e.res] = Judged(e)]
              /\ Finish(id, "fallback") \/ (e.done = "payload" /\ Finish(id, Cand(e)))
           \/ UNCHANGED deprioritized /\ Finish(id, "fallback")
        /\ UNCHANGED <<publisherEpoch, writes, sock, asked, restarts>>

\* The object is evicted with its memory and its sockets; storage stays.
Restart ==
    /\ restarts < MaxRestarts
    /\ restarts' = restarts + 1
    /\ inflight' = [r \in Resource |-> None]
    /\ entry' = [id \in Fetch |-> None]
    /\ writes' = {}
    /\ sock' = [s \in Socket |-> IF sock[s].state = "new" THEN sock[s]
                                  ELSE [sock[s] EXCEPT !.state = "closed"]]
    /\ fetch' = [f \in Fetch |->
                   IF fetch[f].pc \in {"select", "wait"}
                   THEN [fetch[f] EXCEPT !.pc = "done", !.cands = <<>>,
                                         !.pruned = {}, !.answer = "lost"]
                   ELSE fetch[f]]
    /\ UNCHANGED <<publisherEpoch, deprioritized, asked>>

Init ==
    /\ publisherEpoch = 0
    /\ deprioritized = [r \in Resource |-> {}]
    /\ inflight = [r \in Resource |-> None]
    /\ entry = [id \in Fetch |-> None]
    /\ writes = {}
    /\ sock = [s \in Socket |-> [state |-> "new", epoch |-> 0, caps |-> {}]]
    /\ asked = [s \in Socket |-> [id \in Fetch |-> "no"]]
    /\ fetch = [f \in Fetch |-> [pc |-> "new", res |-> None, cands |-> <<>>, pruned |-> {},
                                 on |-> None, answer |-> None]]
    /\ restarts = 0

Request(id) ==
    \/ \E r \in Resource : Arrive(id, r)
    \/ Start(id)
    \/ AckTimeout(id)
    \/ TimeUp(id)
    \/ Deadline(id)
    \/ Finalise(id)

Publisher(s) ==
    \/ Connect(s)
    \/ Accept(s)
    \/ Hello(s)
    \/ Drop(s)
    \/ Error(s)
    \/ Close(s)
    \/ \E id \in Fetch : Ack(s, id)
    \/ \E id \in Fetch, frame \in {"payload", "error"} : Respond(s, id, frame)

Next ==
    \/ \E f \in Fetch : Request(f)
    \/ \E s \in Socket : Publisher(s)
    \/ \E w \in writes : WriteDone(w)
    \/ Restart

Spec == Init /\ [][Next]_vars

\* Storage operations complete, time passes and a due timer's callback runs.
Fairness ==
    /\ WF_vars(\E w \in writes : WriteDone(w))
    /\ \A s \in Socket : WF_vars(Accept(s))
    /\ \A f \in Fetch : /\ WF_vars(Start(f)) /\ WF_vars(Finalise(f))
                        /\ WF_vars(TimeUp(f)) /\ SF_vars(Deadline(f))

FairSpec == Spec /\ Fairness
-----------------------------------------------------------------------------
(* Properties                                                               *)

Waits == [f \in Fetch |-> IF fetch[f].pc = "wait" THEN fetch[f].on ELSE None]

Coalescer == INSTANCE SingleFlight
    WITH Key <- Resource, Caller <- Fetch, Answer <- Socket \cup {"fallback", "lost"},
         flight <- inflight, waits <- Waits, answer <- [f \in Fetch |-> fetch[f].answer]

\* Concurrent fetches of one resource share one request and one answer,
\* whichever of its awaits, failovers and timeouts a fetch arrives in.
ImplementsSingleFlight == Coalescer!Spec

\* A request is sent to no publisher twice: a close, an acknowledgement timeout
\* and a failed send that coincide advance to the next candidate once.
AskedOnce ==
    [][\A id \in Fetch :
          /\ entry'[id] # None /\ entry'[id].ackTimer # None
          /\ entry[id] = None \/ entry'[id].ackTimer # entry[id].ackTimer
          => asked[Cand(entry'[id])][id] = "no"]_vars

\* Publisher s answers request id in this step.
Responds(s, id) == asked[s][id] # "answered" /\ asked'[s][id] = "answered"

\* A publisher that acknowledged in time and stays connected keeps the request
\* until it answers or the deadline passes, however slow it is: no timer, no
\* failover claimed before its acknowledgement and no other publisher's frame
\* takes the request away or ends it.
AckedIsKept ==
    [][\A id \in Fetch :
          /\ Live(id) /\ entry[id].acked /\ ~entry[id].late
          /\ sock[Cand(entry[id])].state = "open" /\ restarts' = restarts
          => \/ Live(id)' /\ entry'[id].attempt = entry[id].attempt /\ entry'[id].acked
             \/ Responds(Cand(entry[id]), id)]_vars

\* Only a publisher that was asked for a resource loses its rank for it: not
\* the next candidate of a failover under way, and not a publisher that
\* connects later, although the deprioritised epochs outlive restarts.
BlameDeserved ==
    \A r \in Resource, s \in Socket :
        sock[s].state = "open" /\ sock[s].epoch \in deprioritized[r] =>
            \E id \in Fetch : fetch[id].res = r /\ asked[s][id] # "no"

\* What a device gets was built for the request it waited on, never a late
\* answer to an earlier one.
AnswersOwnRequest ==
    \A f \in Fetch :
        fetch[f].answer \in Socket => asked[fetch[f].answer][fetch[f].on] = "answered"

\* The publisher that answered a fetch is in good standing when the answer goes
\* out, whatever earlier failure of it is still being recorded.
SuccessRehabilitates ==
    [][\A f \in Fetch :
          fetch[f].pc = "wait" /\ fetch'[f].answer \in Socket =>
             sock[fetch'[f].answer].epoch \notin deprioritized'[fetch[f].res]]_vars

\* Every fetch is answered, although publishers may never acknowledge, never
\* answer, or close at any time: no request can block its resource for ever.
EveryFetchAnswered ==
    \A f \in Fetch : fetch[f].pc \in {"select", "wait"} ~> fetch[f].pc = "done"
=============================================================================
