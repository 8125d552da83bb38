------------------------- MODULE RelayObjectProofs --------------------------
(***************************************************************************)
(* Type correctness of RelayObject, that answers belong to their requests,  *)
(* that under the input gate it implements SingleFlight, that nobody is     *)
(* asked twice or loses a request it acknowledged, that blame is deserved   *)
(* and success clears it; for every set of resources, sockets and fetches   *)
(* and every failover bound.                                                *)
(***************************************************************************)
EXTENDS RelayObject, FiniteSetTheorems, TLAPS

\* A candidate list and the position in it.
Positioned(e) == e \in Entry /\ e.attempt \in DOMAIN e.cands

LEMMA Lists == ASSUME NEW c \in CandList
               PROVE  \E n \in Attempt : c \in [1 .. n -> Socket] /\ Cardinality(DOMAIN c) = n
<1>1. PICK n \in Attempt : c \in [1 .. n -> Socket]
    BY DEF CandList
<1>2. n \in Nat /\ 1 <= n
    BY FailoverAssumption DEF Attempt
<1>3. Cardinality(1 .. n) = n
    BY <1>2, FS_Interval
<1> QED
    BY <1>1, <1>3

LEMMA CandIsSocket == ASSUME NEW e, Positioned(e) PROVE Cand(e) \in Socket
<1>1. e.cands \in CandList
    BY DEF Positioned, Entry
<1> QED
    BY <1>1, Lists DEF Positioned, Cand

\* The updates the handlers make to an entry, one field at a time.
LEMMA FieldType ==
    ASSUME NEW e \in Entry
    PROVE  /\ \A n \in Generation : [e EXCEPT !.generation = n] \in Entry
           /\ \A b \in BOOLEAN : [e EXCEPT !.acked = b] \in Entry
           /\ \A t \in Generation \cup {None} : [e EXCEPT !.ackTimer = t] \in Entry
           /\ \A n \in Attempt : [e EXCEPT !.attempt = n] \in Entry
           /\ \A b \in BOOLEAN : [e EXCEPT !.late = b] \in Entry
           /\ \A d \in {"no", "null", "error", "payload"} : [e EXCEPT !.done = d] \in Entry
           /\ \A x \in SUBSET Epoch : [e EXCEPT !.seen = x] \in Entry
    BY DEF Entry

LEMMA BumpedType ==
    ASSUME NEW e, Positioned(e)
    PROVE  /\ Positioned([e EXCEPT !.generation = @ + 1])
           /\ [e EXCEPT !.generation = @ + 1].res = e.res
           /\ [e EXCEPT !.generation = @ + 1].done = e.done
    BY DEF Positioned, Entry, Generation

\* Failing over stays inside the list.
LEMMA FailedOverType ==
    ASSUME NEW e, Positioned(e)
    PROVE  Positioned(FailedOver(e)) /\ FailedOver(e).res = e.res /\ FailedOver(e).done = e.done
<1> DEFINE next == IF CanAdvance(e) THEN e.attempt + 1 ELSE e.attempt
           e1 == [e EXCEPT !.generation = e.generation + 1]
           e2 == [e1 EXCEPT !.acked = FALSE]
           e3 == [e2 EXCEPT !.ackTimer = None]
           e4 == [e3 EXCEPT !.attempt = next]
<1>1. /\ e \in Entry /\ e.generation + 1 \in Generation
      /\ e.cands \in CandList /\ e.attempt \in Attempt
    BY DEF Positioned, Entry, Generation
<1>2. PICK n \in Attempt : e.cands \in [1 .. n -> Socket] /\ Cardinality(DOMAIN e.cands) = n
    BY <1>1, Lists
<1>3. next \in 1 .. n /\ next \in Attempt
    BY <1>1, <1>2, FailoverAssumption DEF Positioned, Attempt, CanAdvance
<1>4. e1 \in Entry
    BY <1>1, FieldType
<1>5. e2 \in Entry
    BY <1>4, FieldType
<1>6. e3 \in Entry
    BY <1>5, FieldType
<1>7. e4 \in Entry
    BY <1>3, <1>6, FieldType
<1>8. FailedOver(e) = e4
    BY <1>1 DEF FailedOver, Entry
<1>9. e4.attempt = next /\ e4.cands = e.cands /\ e4.res = e.res /\ e4.done = e.done
    BY <1>1 DEF Entry
<1> QED
    BY <1>2, <1>3, <1>7, <1>8, <1>9 DEF Positioned

LEMMA SentType ==
    ASSUME NEW e, Positioned(e)
    PROVE  Positioned(Sent(e)) /\ Sent(e).res = e.res /\ Sent(e).done = e.done
<1> DEFINE e1 == [e EXCEPT !.generation = e.generation + 1]
           e2 == [e1 EXCEPT !.acked = FALSE]
           e3 == [e2 EXCEPT !.ackTimer = e.generation + 1]
<1>1. e \in Entry /\ e.generation + 1 \in Generation /\ e.attempt \in DOMAIN e.cands
    BY DEF Positioned, Entry, Generation
<1>2. e1 \in Entry
    BY <1>1, FieldType
<1>3. e2 \in Entry
    BY <1>2, FieldType
<1>4. e3 \in Entry
    BY <1>1, <1>3, FieldType
<1>5. Sent(e) = e3
    BY <1>1 DEF Sent, Entry
<1>6. e3.attempt = e.attempt /\ e3.cands = e.cands /\ e3.res = e.res /\ e3.done = e.done
    BY <1>1 DEF Entry
<1> QED
    BY <1>1, <1>4, <1>5, <1>6 DEF Positioned

\* The part of TypeOK about the entries, for the current and the next state.
EntriesOK(en) == en \in [Fetch -> Entry \cup {None}] /\ \A id \in Fetch : en[id] # None => Positioned(en[id])

LEMMA EntriesTyped == TypeOK => EntriesOK(entry)
    BY DEF TypeOK, EntriesOK, Positioned

LEMMA EntriesUpdated ==
    ASSUME EntriesOK(entry), NEW id \in Fetch, NEW e, Positioned(e) \/ e = None
    PROVE  EntriesOK([entry EXCEPT ![id] = e])
    BY DEF EntriesOK, Positioned

LEMMA PositionedIsEntry == ASSUME NEW e, Positioned(e) PROVE e \in Entry /\ e # None /\ e.res \in Resource
    BY EntryNoneAssumption DEF Positioned, Entry

LEMMA WriteType ==
    ASSUME TypeOK, NEW id \in Fetch, NEW e, Positioned(e)
    PROVE  FailoverWrite(id, e) \in Write
<1>1. CandEpoch(e) \in Epoch
    BY CandIsSocket DEF TypeOK, CandEpoch
<1>2. e.generation + 1 \in Generation /\ e.res \in Resource
    BY DEF Positioned, Entry, Generation
<1>3. CanAdvance(e) \in BOOLEAN
    BY DEF CanAdvance
<1> QED
    BY <1>1, <1>2, <1>3 DEF TypeOK, FailoverWrite, Write

LEMMA SendType ==
    ASSUME TypeOK, NEW id \in Fetch, NEW e, Positioned(e), NEW pending \in SUBSET Write,
           SendToCandidate(id, e, pending)
    PROVE  /\ EntriesOK(entry') /\ entry'[id] # None
           /\ \A i \in Fetch \ {id} : entry'[i] = entry[i]
           /\ entry'[id].res = e.res /\ entry'[id].done = e.done
           /\ writes' \subseteq Write
           /\ asked' \in [Socket -> [Fetch -> {"no", "sent", "acked", "answered"}]]
           /\ \A s \in Socket, i \in Fetch \ {id} : asked'[s][i] = asked[s][i]
<1>0. EntriesOK(entry) /\ entry \in [Fetch -> Entry \cup {None}]
    BY EntriesTyped DEF EntriesOK
<1>1. CASE sock[Cand(e)].state = "open"
    <2>1. /\ entry' = [entry EXCEPT ![id] = Sent(e)]
          /\ asked' = [asked EXCEPT ![Cand(e)][id] = "sent"]
          /\ writes' = pending
        BY <1>1 DEF SendToCandidate
    <2>2. Positioned(Sent(e)) /\ Sent(e).res = e.res /\ Sent(e).done = e.done
        BY SentType
    <2>3. EntriesOK(entry') /\ entry'[id] = Sent(e) /\ \A i \in Fetch \ {id} : entry'[i] = entry[i]
        BY <1>0, <2>1, <2>2, EntriesUpdated
    <2>4. /\ asked' \in [Socket -> [Fetch -> {"no", "sent", "acked", "answered"}]]
          /\ \A s \in Socket, i \in Fetch \ {id} : asked'[s][i] = asked[s][i]
        BY <2>1, CandIsSocket DEF TypeOK
    <2> QED
        BY <2>1, <2>2, <2>3, <2>4, PositionedIsEntry
<1>2. CASE sock[Cand(e)].state # "open"
    <2> DEFINE failing == [e EXCEPT !.generation = @ + 1]
    <2>1. /\ entry' = [entry EXCEPT ![id] = FailedOver(failing)]
          /\ writes' = pending \cup {FailoverWrite(id, failing)}
          /\ asked' = asked
        BY <1>2 DEF SendToCandidate
    <2>2. Positioned(failing) /\ failing.res = e.res /\ failing.done = e.done
        BY BumpedType
    <2> HIDE DEF failing
    <2>3. /\ Positioned(FailedOver(failing))
          /\ FailedOver(failing).res = e.res /\ FailedOver(failing).done = e.done
        BY <2>2, FailedOverType
    <2>4. FailoverWrite(id, failing) \in Write
        BY <2>2, WriteType
    <2>5. /\ EntriesOK(entry') /\ entry'[id] = FailedOver(failing)
          /\ \A i \in Fetch \ {id} : entry'[i] = entry[i]
        BY <1>0, <2>1, <2>3, EntriesUpdated
    <2> QED
        BY <2>1, <2>3, <2>4, <2>5, PositionedIsEntry DEF TypeOK
<1> QED
    BY <1>1, <1>2

-----------------------------------------------------------------------------
(* Device requests                                                          *)

LEMMA FetchFieldType ==
    ASSUME NEW x \in FetchState
    PROVE  /\ \A p \in {"new", "select", "wait", "done"} : [x EXCEPT !.pc = p] \in FetchState
           /\ \A r \in Resource \cup {None} : [x EXCEPT !.res = r] \in FetchState
           /\ \A c \in {<<>>} \cup CandList : [x EXCEPT !.cands = c] \in FetchState
           /\ \A p \in SUBSET Epoch : [x EXCEPT !.pruned = p] \in FetchState
           /\ \A i \in Fetch \cup {None} : [x EXCEPT !.on = i] \in FetchState
           /\ \A a \in Socket \cup {"fallback", "lost", None} : [x EXCEPT !.answer = a] \in FetchState
    BY DEF FetchState

\* What a fetch becomes when its request settles.
LEMMA AnsweredType ==
    ASSUME NEW x \in FetchState, NEW a \in Socket \cup {"fallback", "lost", None}
    PROVE  LET y == [x EXCEPT !.pc = "done", !.answer = a]
           IN  y \in FetchState /\ y.pc = "done" /\ y.answer = a /\ y.on = x.on
<1> DEFINE x1 == [x EXCEPT !.pc = "done"]
           x2 == [x1 EXCEPT !.answer = a]
<1>1. x1 \in FetchState
    BY FetchFieldType
<1>2. x2 \in FetchState
    BY <1>1, FetchFieldType
<1>3. [x EXCEPT !.pc = "done", !.answer = a] = x2
    BY DEF FetchState
<1>4. x2.pc = "done" /\ x2.answer = a /\ x2.on = x.on
    BY DEF FetchState
<1> QED
    BY <1>2, <1>3, <1>4

\* The candidates of a resource are a list a request can be started with.
LEMMA CandidatesType ==
    ASSUME NEW r \in Resource, NEW c \in Candidates(r)
    PROVE  c \in {<<>>} \cup CandList
<1> DEFINE open == Usable(r)
           n == IF Cardinality(open) < MaxFailover THEN Cardinality(open) ELSE MaxFailover
<1>1. open \subseteq Socket
    BY DEF Usable
<1>2. Cardinality(open) \in Nat
    BY <1>1, SocketAssumption, FS_Subset, FS_CardinalityType
<1>3. n \in 0 .. MaxFailover
    BY <1>2, FailoverAssumption
<1>4. c \in [1 .. n -> open]
    BY DEF Candidates
<1> HIDE DEF n, open
<1>5. CASE n = 0
    <2>1. c \in [{} -> open]
        BY <1>4, <1>5
    <2>2. c = [i \in {} |-> c[i]]
        BY <2>1
    <2>3. <<>> = [i \in {} |-> c[i]]
        OBVIOUS
    <2> QED
        BY <2>2, <2>3
<1>6. CASE n # 0
    <2>1. n \in Attempt
        BY <1>3, <1>6, FailoverAssumption DEF Attempt
    <2>2. c \in [1 .. n -> Socket]
        BY <1>1, <1>4
    <2> QED
        BY <2>1, <2>2 DEF CandList
<1> QED
    BY <1>5, <1>6

LEMMA FinishType ==
    ASSUME TypeOK, NEW id \in Fetch, entry[id] # None,
           NEW a \in Socket \cup {"fallback"}, Finish(id, a)
    PROVE  /\ EntriesOK(entry')
           /\ inflight' \in [Resource -> Fetch \cup {None}]
           /\ fetch' \in [Fetch -> FetchState]
<1>1. EntriesOK(entry')
    BY EntriesTyped, EntriesUpdated DEF Finish
<1>2. inflight' \in [Resource -> Fetch \cup {None}]
    BY DEF TypeOK, Finish, Settled
<1>3. \A f \in Fetch : [fetch[f] EXCEPT !.pc = "done", !.answer = a] \in FetchState
    BY AnsweredType DEF TypeOK
<1>4. fetch' \in [Fetch -> FetchState]
    BY <1>3 DEF TypeOK, Finish
<1> QED
    BY <1>1, <1>2, <1>4

-----------------------------------------------------------------------------
(* The invariant behind AnswersOwnRequest                                   *)

\* Whoever started a request waits for it.
OwnEntry ==
    \A id \in Fetch : entry[id] # None => fetch[id].pc = "wait" /\ fetch[id].on = id

\* A payload about to be delivered came from the current candidate.
PayloadAnswered ==
    \A id \in Fetch :
        entry[id] # None /\ entry[id].done = "payload" => asked[Cand(entry[id])][id] = "answered"

\* A fetch that got a payload waited on a request that is over.
AnswerFinal ==
    \A f \in Fetch : fetch[f].answer \in Socket =>
        /\ fetch[f].pc = "done"
        /\ fetch[f].on \in Fetch
        /\ fetch[fetch[f].on].pc = "done"
        /\ asked[fetch[f].answer][fetch[f].on] = "answered"

SelectHasResource == \A f \in Fetch : fetch[f].pc = "select" => fetch[f].res \in Resource

RequestInv == TypeOK /\ OwnEntry /\ PayloadAnswered /\ AnswerFinal /\ SelectHasResource

\* A step that changes entries but neither starts nor settles a request.
EntryStep ==
    /\ UNCHANGED <<inflight, fetch>>
    /\ \A id \in Fetch :
          /\ entry'[id] # None <=> entry[id] # None
          /\ entry[id] # None => entry'[id].res = entry[id].res
          /\ entry'[id] # None /\ entry'[id].done = "payload" =>
                asked'[Cand(entry'[id])][id] = "answered"
    /\ \A s \in Socket, id \in Fetch :
          asked[s][id] = "answered" /\ entry[id] = None => asked'[s][id] = "answered"

\* A step that settles one.
FinishStep(id, a) ==
    /\ entry[id] # None
    /\ Finish(id, a)
    /\ a = "fallback" \/ (a \in Socket /\ asked[a][id] = "answered")
    /\ UNCHANGED asked

LEMMA EntryStepKeeps == ASSUME RequestInv, EntryStep, TypeOK' PROVE RequestInv'
<1>1. OwnEntry' /\ SelectHasResource'
    BY DEF RequestInv, OwnEntry, SelectHasResource, EntryStep
<1>2. PayloadAnswered'
    BY DEF EntryStep, PayloadAnswered, Cand
<1>3. AnswerFinal'
    BY DEF RequestInv, OwnEntry, AnswerFinal, EntryStep
<1> QED
    BY <1>1, <1>2, <1>3 DEF RequestInv

\* What settling does: those who wait for the request are done, nobody else moves.
LEMMA FinishEffect ==
    ASSUME RequestInv, NEW id \in Fetch, NEW a, FinishStep(id, a)
    PROVE  /\ \A f \in Fetch : fetch[f].pc = "wait" /\ fetch[f].on = id =>
                  fetch'[f].pc = "done" /\ fetch'[f].answer = a /\ fetch'[f].on = id
           /\ \A f \in Fetch : ~(fetch[f].pc = "wait" /\ fetch[f].on = id) => fetch'[f] = fetch[f]
           /\ entry'[id] = None /\ \A i \in Fetch \ {id} : entry'[i] = entry[i]
           /\ inflight' = [inflight EXCEPT ![entry[id].res] = None]
           /\ asked' = asked
<1>1. /\ entry' = [entry EXCEPT ![id] = None]
      /\ fetch' = [f \in Fetch |->
                     IF fetch[f].pc = "wait" /\ fetch[f].on = id
                     THEN [fetch[f] EXCEPT !.pc = "done", !.answer = a]
                     ELSE fetch[f]]
      /\ asked' = asked
    BY DEF FinishStep, Finish
<1>2. \A f \in Fetch : fetch[f].pc = "wait" /\ fetch[f].on = id =>
          fetch'[f].pc = "done" /\ fetch'[f].answer = a /\ fetch'[f].on = id
    <2> SUFFICES ASSUME NEW f \in Fetch, fetch[f].pc = "wait", fetch[f].on = id
                 PROVE  fetch'[f].pc = "done" /\ fetch'[f].answer = a /\ fetch'[f].on = id
        OBVIOUS
    <2>1. fetch[f] \in FetchState /\ a \in Socket \cup {"fallback", "lost", None}
        BY DEF RequestInv, TypeOK, FinishStep
    <2>2. fetch'[f] = [fetch[f] EXCEPT !.pc = "done", !.answer = a]
        BY <1>1
    <2> DEFINE x == fetch[f]
               y == [x EXCEPT !.pc = "done", !.answer = a]
    <2>3. x \in FetchState /\ fetch'[f] = y /\ x.on = id
        BY <2>1, <2>2
    <2> HIDE DEF x
    <2>4. y.pc = "done" /\ y.answer = a /\ y.on = x.on
        BY <2>1, <2>3, AnsweredType
    <2> QED
        BY <2>3, <2>4
<1>3. \A f \in Fetch : ~(fetch[f].pc = "wait" /\ fetch[f].on = id) => fetch'[f] = fetch[f]
    BY <1>1
<1>4. entry'[id] = None /\ \A i \in Fetch \ {id} : entry'[i] = entry[i]
    BY <1>1 DEF RequestInv, TypeOK
<1> QED
    BY <1>1, <1>2, <1>3, <1>4 DEF FinishStep, Finish, Settled

LEMMA FinishStepKeeps ==
    ASSUME RequestInv, NEW id \in Fetch, NEW a, FinishStep(id, a), TypeOK'
    PROVE  RequestInv'
<1>1. asked' = asked
    BY FinishEffect
<1>2. \A f \in Fetch : fetch[f].pc = "wait" /\ fetch[f].on = id =>
          fetch'[f].pc = "done" /\ fetch'[f].answer = a /\ fetch'[f].on = id
    BY FinishEffect
<1>3. \A f \in Fetch : ~(fetch[f].pc = "wait" /\ fetch[f].on = id) => fetch'[f] = fetch[f]
    BY FinishEffect
<1>4. entry'[id] = None /\ \A i \in Fetch \ {id} : entry'[i] = entry[i]
    BY FinishEffect
<1>5. fetch'[id].pc = "done"
    BY <1>2 DEF RequestInv, OwnEntry, FinishStep
<1>6. OwnEntry'
    BY <1>3, <1>4 DEF RequestInv, OwnEntry
<1>7. PayloadAnswered'
    BY <1>1, <1>4 DEF RequestInv, PayloadAnswered, Cand
<1>8. SelectHasResource'
    BY <1>2, <1>3 DEF RequestInv, SelectHasResource
<1>9. AnswerFinal'
    <2> SUFFICES ASSUME NEW f \in Fetch, fetch'[f].answer \in Socket
                 PROVE  /\ fetch'[f].pc = "done"
                        /\ fetch'[f].on \in Fetch
                        /\ fetch'[fetch'[f].on].pc = "done"
                        /\ asked'[fetch'[f].answer][fetch'[f].on] = "answered"
        BY DEF AnswerFinal
    <2>1. CASE fetch[f].pc = "wait" /\ fetch[f].on = id
        BY <1>1, <1>2, <1>5, <2>1, NameAssumption DEF FinishStep
    <2>2. CASE ~(fetch[f].pc = "wait" /\ fetch[f].on = id)
        <3>1. fetch'[f] = fetch[f]
            BY <1>3, <2>2
        <3>2. fetch'[fetch[f].on] = fetch[fetch[f].on]
            BY <1>3, <3>1 DEF RequestInv, AnswerFinal
        <3> QED
            BY <1>1, <3>1, <3>2 DEF RequestInv, AnswerFinal
    <2> QED
        BY <2>1, <2>2
<1> QED
    BY <1>6, <1>7, <1>8, <1>9 DEF RequestInv

-----------------------------------------------------------------------------
(* What each action does to the requests                                    *)

\* The step keeps the types and changes only entries, or settles a request.
Harmless == TypeOK' /\ (EntryStep \/ \E id \in Fetch, a \in Socket \cup {"fallback"} : FinishStep(id, a))

LEMMA DeliverHarmless ==
    ASSUME RequestInv, NEW id \in Fetch, NEW frame \in {"null", "error", "payload"},
           Live(id), Deliver(id, frame),
           frame = "payload" => asked'[Cand(entry[id])][id] = "answered",
           asked' \in [Socket -> [Fetch -> {"no", "sent", "acked", "answered"}]],
           \A s \in Socket, i \in Fetch : asked[s][i] = "answered" => asked'[s][i] = "answered",
           frame = "null" => asked' = asked,
           deprioritized' \in [Resource -> SUBSET Epoch],
           writes' \subseteq Write,
           UNCHANGED <<publisherEpoch, sock, restarts>>
    PROVE  Harmless
<1>0. EntriesOK(entry) /\ entry[id] # None /\ Positioned(entry[id])
    BY EntriesTyped DEF RequestInv, Live, EntriesOK
<1>1. CASE frame = "null" /\ ~entry[id].acked
    <2>1. Finish(id, "fallback") /\ asked' = asked
        BY <1>1 DEF Deliver
    <2>2. FinishStep(id, "fallback")
        BY <1>0, <2>1 DEF FinishStep
    <2>3. TypeOK'
        BY <1>0, <2>1, FinishType DEF RequestInv, TypeOK, EntriesOK, Positioned
    <2> QED
        BY <2>2, <2>3 DEF Harmless
<1>2. CASE ~(frame = "null" /\ ~entry[id].acked)
    <2> DEFINE e == entry[id]
               e1 == [e EXCEPT !.done = frame]
               e2 == [e1 EXCEPT !.seen = deprioritized[e.res]]
    <2>1. entry' = [entry EXCEPT ![id].done = frame, ![id].seen = deprioritized[e.res]]
          /\ UNCHANGED <<inflight, fetch>>
        BY <1>2 DEF Deliver
    <2>2. e \in Entry /\ e.attempt \in DOMAIN e.cands /\ e.res \in Resource
        BY <1>0, PositionedIsEntry DEF Positioned
    <2>3. e1 \in Entry
        BY <2>2, FieldType
    <2>4. deprioritized[e.res] \in SUBSET Epoch
        BY <2>2 DEF RequestInv, TypeOK
    <2>5. e2 \in Entry
        BY <2>3, <2>4, FieldType
    <2>6. e2.attempt = e.attempt /\ e2.cands = e.cands /\ e2.res = e.res /\ e2.done = frame
        BY <2>2 DEF Entry
    <2>7. entry' = [entry EXCEPT ![id] = e2]
        BY <2>1, <1>0 DEF EntriesOK
    <2> HIDE DEF e2
    <2>8. Positioned(e2) /\ Cand(e2) = Cand(e)
        BY <2>2, <2>5, <2>6 DEF Positioned, Cand
    <2>9. EntriesOK(entry') /\ entry'[id] = e2 /\ \A i \in Fetch \ {id} : entry'[i] = entry[i]
        BY <1>0, <2>7, <2>8, EntriesUpdated DEF EntriesOK
    <2>10. TypeOK'
        BY <2>1, <2>9 DEF RequestInv, TypeOK, EntriesOK, Positioned
    <2>11. entry'[id] # None
        BY <2>8, <2>9, PositionedIsEntry
    <2>12. \A i \in Fetch : i # id /\ entry[i] # None => Cand(entry[i]) \in Socket
        BY <1>0, CandIsSocket DEF EntriesOK
    <2>13. EntryStep
        <3>1. \A i \in Fetch \ {id} : entry'[i] # None /\ entry'[i].done = "payload" =>
                  asked'[Cand(entry'[i])][i] = "answered"
            BY <2>9, <2>12 DEF RequestInv, PayloadAnswered
        <3>2. entry'[id].done = "payload" => asked'[Cand(entry'[id])][id] = "answered"
            BY <2>6, <2>8, <2>9
        <3> QED
            BY <1>0, <2>1, <2>6, <2>9, <2>11, <3>1, <3>2 DEF EntryStep
    <2> QED
        BY <2>10, <2>13 DEF Harmless
<1> QED
    BY <1>1, <1>2

\* A live request's entry is replaced by one that is still live, and asked only
\* moves on requests that are in flight.
LEMMA UpdateHarmless ==
    ASSUME RequestInv, NEW id \in Fetch, Live(id), EntriesOK(entry'),
           entry'[id] # None, entry'[id].res = entry[id].res, entry'[id].done = "no",
           \A i \in Fetch \ {id} : entry'[i] = entry[i],
           asked' \in [Socket -> [Fetch -> {"no", "sent", "acked", "answered"}]],
           \A s \in Socket, i \in Fetch \ {id} : asked'[s][i] = asked[s][i],
           deprioritized' \in [Resource -> SUBSET Epoch],
           writes' \subseteq Write,
           UNCHANGED <<publisherEpoch, inflight, sock, fetch, restarts>>
    PROVE  Harmless
<1>1. TypeOK'
    BY DEF RequestInv, TypeOK, EntriesOK, Positioned
<1>2. \A i \in Fetch : entry[i] # None => Cand(entry[i]) \in Socket
    BY EntriesTyped, CandIsSocket DEF RequestInv, EntriesOK
<1>3. EntryStep
    BY <1>2 DEF RequestInv, PayloadAnswered, EntryStep, Live
<1> QED
    BY <1>1, <1>3 DEF Harmless

LEMMA AckHarmless ==
    ASSUME RequestInv, NEW s \in Socket, NEW id \in Fetch, Ack(s, id)
    PROVE  Harmless
<1>0. EntriesOK(entry) /\ TypeOK
    BY EntriesTyped DEF RequestInv
<1>1. /\ asked' \in [Socket -> [Fetch -> {"no", "sent", "acked", "answered"}]]
      /\ \A t \in Socket, i \in Fetch : asked[t][i] = "answered" => asked'[t][i] = "answered"
    BY <1>0 DEF Ack, TypeOK
<1>2. CASE ~Reaches(s, id)
    <2>1. UNCHANGED <<entry, inflight, fetch, publisherEpoch, deprioritized, writes, sock, restarts>>
        BY <1>2 DEF Ack
    <2>2. TypeOK'
        BY <1>0, <1>1, <2>1 DEF TypeOK
    <2>3. \A i \in Fetch : entry[i] # None => Cand(entry[i]) \in Socket
        BY <1>0, CandIsSocket DEF EntriesOK
    <2>4. EntryStep
        BY <1>1, <2>1, <2>3 DEF EntryStep, RequestInv, PayloadAnswered
    <2> QED
        BY <2>2, <2>4 DEF Harmless
<1>3. CASE Reaches(s, id)
    <2>1. Live(id) /\ inflight[fetch[id].res] = id
        BY <1>3 DEF Reaches
    <2> DEFINE e == entry[id]
               e1 == [e EXCEPT !.acked = TRUE]
               e2 == [e1 EXCEPT !.ackTimer = None]
    <2>2. entry' = [entry EXCEPT ![id] = Acknowledged(e)]
        BY <1>0, <1>3, <2>1 DEF Ack, EntriesOK
    <2>3. e \in Entry /\ e.attempt \in DOMAIN e.cands /\ e.done = "no"
        BY <1>0, <2>1 DEF Live, EntriesOK, Positioned
    <2>4. e1 \in Entry
        BY <2>3, FieldType
    <2>5. e2 \in Entry
        BY <2>4, FieldType
    <2>6. Acknowledged(e) = e2
        BY <2>3 DEF Acknowledged, Entry
    <2>7. e2.attempt = e.attempt /\ e2.cands = e.cands /\ e2.res = e.res /\ e2.done = "no"
        BY <2>3 DEF Entry
    <2> HIDE DEF e2
    <2>8. Positioned(e2)
        BY <2>3, <2>5, <2>7 DEF Positioned
    <2>9. EntriesOK(entry') /\ entry'[id] = e2 /\ \A i \in Fetch \ {id} : entry'[i] = entry[i]
        BY <1>0, <2>2, <2>6, <2>8, EntriesUpdated DEF EntriesOK
    <2>10. \A t \in Socket, i \in Fetch \ {id} : asked'[t][i] = asked[t][i]
        BY <1>0 DEF Ack, TypeOK
    <2>11. entry'[id] # None /\ entry'[id].res = entry[id].res /\ entry'[id].done = "no"
        BY <2>7, <2>8, <2>9, PositionedIsEntry
    <2>12. UNCHANGED <<publisherEpoch, deprioritized, inflight, writes, sock, fetch, restarts>>
        BY DEF Ack
    <2> QED
        BY <1>0, <1>1, <2>1, <2>9, <2>10, <2>11, <2>12, UpdateHarmless DEF TypeOK
<1> QED
    BY <1>2, <1>3

LEMMA RespondHarmless ==
    ASSUME RequestInv, NEW s \in Socket, NEW id \in Fetch, NEW frame \in {"payload", "error"},
           Respond(s, id, frame)
    PROVE  Harmless
<1>0. EntriesOK(entry) /\ TypeOK
    BY EntriesTyped DEF RequestInv
<1>1. /\ asked' \in [Socket -> [Fetch -> {"no", "sent", "acked", "answered"}]]
      /\ \A t \in Socket, i \in Fetch : asked[t][i] = "answered" => asked'[t][i] = "answered"
      /\ asked'[s][id] = "answered"
    BY <1>0 DEF Respond, TypeOK
<1>2. UNCHANGED <<publisherEpoch, deprioritized, writes, sock, restarts>>
    BY DEF Respond
<1>3. CASE ~Reaches(s, id)
    <2>1. UNCHANGED <<entry, inflight, fetch>>
        BY <1>3 DEF Respond
    <2>2. TypeOK'
        BY <1>0, <1>1, <1>2, <2>1 DEF TypeOK
    <2>3. \A i \in Fetch : entry[i] # None => Cand(entry[i]) \in Socket
        BY <1>0, CandIsSocket DEF EntriesOK
    <2>4. EntryStep
        BY <1>1, <2>1, <2>3 DEF EntryStep, RequestInv, PayloadAnswered
    <2> QED
        BY <2>2, <2>4 DEF Harmless
<1>4. CASE Reaches(s, id)
    <2>1. Live(id) /\ Cand(entry[id]) = s /\ Deliver(id, frame)
        BY <1>4 DEF Reaches, Respond
    <2> QED
        BY <1>0, <1>1, <1>2, <2>1, DeliverHarmless DEF TypeOK
<1> QED
    BY <1>3, <1>4

\* A step that touches no entry, fetch, frame or flight.
LEMMA QuietHarmless ==
    ASSUME RequestInv, UNCHANGED <<entry, inflight, fetch, asked>>, TypeOK'
    PROVE  Harmless
<1>1. \A i \in Fetch : entry[i] # None => Cand(entry[i]) \in Socket
    BY EntriesTyped, CandIsSocket DEF RequestInv, EntriesOK
<1>2. EntryStep
    BY <1>1 DEF EntryStep, RequestInv, PayloadAnswered
<1> QED
    BY <1>2 DEF Harmless

SockType == [state : SockState, epoch : Epoch, caps : SUBSET Resource]

LEMMA SockUpdated ==
    ASSUME sock \in [Socket -> SockType], NEW s \in Socket, NEW st \in SockState, NEW ep \in Epoch
    PROVE  [sock EXCEPT ![s].state = st, ![s].epoch = ep] \in [Socket -> SockType]
<1> DEFINE x1 == [sock[s] EXCEPT !.state = st]
           x2 == [x1 EXCEPT !.epoch = ep]
<1>1. x1 \in SockType
    BY DEF SockType
<1>2. x2 \in SockType
    BY <1>1 DEF SockType
<1>3. [sock EXCEPT ![s].state = st, ![s].epoch = ep] = [sock EXCEPT ![s] = x2]
    BY DEF SockType
<1> QED
    BY <1>2, <1>3

LEMMA SocketHarmless ==
    ASSUME RequestInv, NEW s \in Socket, Connect(s) \/ Accept(s) \/ Hello(s) \/ Drop(s)
    PROVE  Harmless
<1>1. UNCHANGED <<entry, inflight, fetch, asked, deprioritized, writes, restarts>>
    BY DEF Connect, Accept, Hello, Drop
<1>2. sock' \in [Socket -> SockType] /\ publisherEpoch' \in Epoch
    <2>0. TypeOK /\ sock \in [Socket -> SockType] /\ sock[s] \in SockType
        BY DEF RequestInv, TypeOK, SockType
    <2>1. CASE Connect(s)
        BY <2>0, <2>1, SockUpdated DEF Connect, TypeOK, SockState
    <2>2. CASE Accept(s)
        <3>1. publisherEpoch' \in Epoch
            BY <2>0, <2>2 DEF Accept, TypeOK, SockType, NextEpoch, Epoch
        <3> QED
            BY <2>0, <2>2, <3>1, SockUpdated DEF Accept, SockState
    <2>3. CASE Hello(s)
        <3>1. PICK caps \in Capability : sock' = [sock EXCEPT ![s].caps = caps]
            BY <2>3 DEF Hello
        <3>2. caps \in SUBSET Resource
            BY CapabilityAssumption
        <3>3. [sock[s] EXCEPT !.caps = caps] \in SockType
            BY <2>0, <3>2 DEF SockType
        <3> QED
            BY <2>0, <2>3, <3>1, <3>3 DEF Hello, TypeOK
    <2>4. CASE Drop(s)
        <3>1. [sock[s] EXCEPT !.state = "closing"] \in SockType
            BY <2>0 DEF SockType, SockState
        <3> QED
            BY <2>0, <2>4, <3>1 DEF Drop, TypeOK
    <2> QED
        BY <2>1, <2>2, <2>3, <2>4
<1>3. TypeOK'
    BY <1>1, <1>2 DEF RequestInv, TypeOK, SockType
<1> QED
    BY <1>1, <1>3, QuietHarmless

LEMMA AckTimeoutHarmless ==
    ASSUME RequestInv, NEW id \in Fetch, AckTimeout(id)
    PROVE  Harmless
<1> DEFINE e == entry[id]
<1>0. /\ EntriesOK(entry) /\ TypeOK /\ Live(id) /\ Positioned(e) /\ e.done = "no"
      /\ UNCHANGED <<publisherEpoch, deprioritized, inflight, sock, asked, fetch, restarts>>
    BY EntriesTyped DEF RequestInv, AckTimeout, Live, EntriesOK
<1>1. CASE e.ackTimer = e.generation
    <2>1. entry' = [entry EXCEPT ![id] = FailedOver(e)] /\ writes' = writes \cup {FailoverWrite(id, e)}
        BY <1>0, <1>1 DEF AckTimeout, EntriesOK
    <2>2. Positioned(FailedOver(e)) /\ FailedOver(e).res = e.res /\ FailedOver(e).done = "no"
        BY <1>0, FailedOverType
    <2>3. writes' \subseteq Write
        BY <1>0, <2>1, WriteType DEF TypeOK
    <2>4. /\ EntriesOK(entry') /\ entry'[id] = FailedOver(e)
          /\ \A i \in Fetch \ {id} : entry'[i] = entry[i]
        BY <1>0, <2>1, <2>2, EntriesUpdated DEF EntriesOK
    <2>5. entry'[id] # None
        BY <2>2, <2>4, PositionedIsEntry
    <2> QED
        BY <1>0, <2>2, <2>3, <2>4, <2>5, UpdateHarmless DEF TypeOK
<1>2. CASE e.ackTimer # e.generation
    <2> DEFINE e1 == [e EXCEPT !.ackTimer = None]
    <2>1. entry' = [entry EXCEPT ![id] = e1] /\ writes' = writes
        BY <1>0, <1>2 DEF AckTimeout, EntriesOK
    <2>a. e \in Entry /\ e.attempt \in DOMAIN e.cands
        BY <1>0 DEF Positioned
    <2>b. e1 \in Entry
        BY <2>a, FieldType
    <2>2. e1.res = e.res /\ e1.done = "no" /\ e1.attempt = e.attempt /\ e1.cands = e.cands
        BY <1>0, <2>a DEF Entry
    <2>3. Positioned(e1)
        BY <2>a, <2>b, <2>2 DEF Positioned
    <2> HIDE DEF e1
    <2>4. /\ EntriesOK(entry') /\ entry'[id] = e1
          /\ \A i \in Fetch \ {id} : entry'[i] = entry[i]
        BY <1>0, <2>1, <2>3, EntriesUpdated DEF EntriesOK
    <2>5. entry'[id] # None
        BY <2>3, <2>4, PositionedIsEntry
    <2> QED
        BY <1>0, <2>1, <2>2, <2>4, <2>5, UpdateHarmless DEF TypeOK
<1> QED
    BY <1>1, <1>2

LEMMA TimeUpHarmless ==
    ASSUME RequestInv, NEW id \in Fetch, TimeUp(id)
    PROVE  Harmless
<1> DEFINE e == entry[id]
           e1 == [e EXCEPT !.late = TRUE]
<1>0. /\ EntriesOK(entry) /\ TypeOK /\ Live(id) /\ Positioned(e) /\ e.done = "no"
      /\ UNCHANGED <<publisherEpoch, deprioritized, inflight, writes, sock, asked, fetch, restarts>>
    BY EntriesTyped DEF RequestInv, TimeUp, Live, EntriesOK
<1>1. entry' = [entry EXCEPT ![id] = e1]
    BY <1>0 DEF TimeUp, EntriesOK
<1>a. e \in Entry /\ e.attempt \in DOMAIN e.cands
    BY <1>0 DEF Positioned
<1>b. e1 \in Entry
    BY <1>a, FieldType
<1>2. e1.res = e.res /\ e1.done = "no" /\ e1.attempt = e.attempt /\ e1.cands = e.cands
    BY <1>0, <1>a DEF Entry
<1>3. Positioned(e1)
    BY <1>a, <1>b, <1>2 DEF Positioned
<1> HIDE DEF e1
<1>4. EntriesOK(entry') /\ entry'[id] = e1 /\ \A i \in Fetch \ {id} : entry'[i] = entry[i]
    BY <1>0, <1>1, <1>3, EntriesUpdated DEF EntriesOK
<1>5. entry'[id] # None
    BY <1>3, <1>4, PositionedIsEntry
<1> QED
    BY <1>0, <1>2, <1>4, <1>5, UpdateHarmless DEF TypeOK

LEMMA DeadlineHarmless ==
    ASSUME RequestInv, NEW id \in Fetch, Deadline(id)
    PROVE  Harmless
    BY DeliverHarmless DEF Deadline, RequestInv, TypeOK

LEMMA HandlerHarmless ==
    ASSUME RequestInv, NEW s \in Socket, NEW state \in SockState, SocketHandler(s, state)
    PROVE  Harmless
<1>0. /\ EntriesOK(entry) /\ TypeOK
      /\ UNCHANGED <<publisherEpoch, deprioritized, inflight, asked, fetch, restarts>>
    BY EntriesTyped DEF RequestInv, SocketHandler
<1>1. entry' = [id \in Fetch |-> IF id \in Hit(s) THEN FailedOver(entry[id]) ELSE entry[id]]
      /\ writes' = writes \cup {FailoverWrite(id, entry[id]) : id \in Hit(s)}
    BY DEF SocketHandler
<1>2. \A id \in Hit(s) : id \in Fetch /\ entry[id] # None /\ Positioned(entry[id]) /\ entry[id].done = "no"
    BY <1>0 DEF Hit, Live, EntriesOK
<1>3. \A id \in Hit(s) : /\ Positioned(FailedOver(entry[id]))
                        /\ FailedOver(entry[id]).res = entry[id].res
                        /\ FailedOver(entry[id]).done = "no"
    BY <1>2, FailedOverType
<1>4. \A id \in Hit(s) : FailedOver(entry[id]) \in Entry /\ FailedOver(entry[id]) # None
    BY <1>3, PositionedIsEntry
<1>5. EntriesOK(entry')
    BY <1>0, <1>1, <1>3, <1>4 DEF EntriesOK
<1>6. \A id \in Hit(s) : FailoverWrite(id, entry[id]) \in Write
    BY <1>0, <1>2, WriteType
<1>7. sock' \in [Socket -> [state : SockState, epoch : Epoch, caps : SUBSET Resource]]
    BY <1>0 DEF SocketHandler, TypeOK
<1>8. TypeOK'
    BY <1>0, <1>1, <1>5, <1>6, <1>7 DEF TypeOK, EntriesOK, Positioned
<1>9. \A i \in Fetch : entry[i] # None => Cand(entry[i]) \in Socket
    BY <1>0, CandIsSocket DEF EntriesOK
<1>10. EntryStep
    BY <1>0, <1>1, <1>2, <1>3, <1>4, <1>9 DEF EntryStep, RequestInv, PayloadAnswered
<1> QED
    BY <1>8, <1>10 DEF Harmless

LEMMA WriteDoneHarmless ==
    ASSUME RequestInv, NEW w \in writes, WriteDone(w)
    PROVE  Harmless
<1>0. /\ EntriesOK(entry) /\ TypeOK /\ w.id \in Fetch /\ w.seen \cup {w.epoch} \in SUBSET Epoch
      /\ writes \ {w} \in SUBSET Write
    BY EntriesTyped DEF RequestInv, TypeOK, Write
<1>1. UNCHANGED <<publisherEpoch, sock, restarts>>
    BY DEF WriteDone
<1>2. deprioritized' \in [Resource -> SUBSET Epoch]
    BY <1>0 DEF WriteDone, TypeOK
<1>3. CASE UNCHANGED <<inflight, entry, asked, fetch>> /\ writes' = writes \ {w}
    BY <1>0, <1>1, <1>2, <1>3, QuietHarmless DEF TypeOK
<1>4. CASE Live(w.id) /\ Deliver(w.id, "null") /\ writes' = writes \ {w} /\ asked' = asked
    BY <1>0, <1>1, <1>2, <1>4, DeliverHarmless DEF TypeOK
<1>5. CASE /\ Live(w.id) /\ SendToCandidate(w.id, entry[w.id], writes \ {w})
           /\ UNCHANGED <<inflight, fetch>>
    <2>1. Positioned(entry[w.id]) /\ entry[w.id].done = "no"
        BY <1>0, <1>5 DEF Live, EntriesOK
    <2>2. /\ EntriesOK(entry') /\ entry'[w.id] # None
          /\ \A i \in Fetch \ {w.id} : entry'[i] = entry[i]
          /\ entry'[w.id].res = entry[w.id].res /\ entry'[w.id].done = "no"
          /\ writes' \subseteq Write
          /\ asked' \in [Socket -> [Fetch -> {"no", "sent", "acked", "answered"}]]
          /\ \A s \in Socket, i \in Fetch \ {w.id} : asked'[s][i] = asked[s][i]
        BY <1>0, <1>5, <2>1, SendType
    <2> QED
        BY <1>0, <1>1, <1>2, <1>5, <2>2, UpdateHarmless
<1> QED
    BY <1>3, <1>4, <1>5 DEF WriteDone

LEMMA FinaliseHarmless ==
    ASSUME RequestInv, NEW id \in Fetch, Finalise(id)
    PROVE  Harmless
<1> DEFINE e == entry[id]
<1>0. /\ EntriesOK(entry) /\ TypeOK /\ entry[id] # None /\ Positioned(e)
      /\ UNCHANGED <<publisherEpoch, writes, sock, asked, restarts>>
    BY EntriesTyped DEF RequestInv, Finalise, EntriesOK
<1>1. Judged(e) \in SUBSET Epoch
    <2>1. CandEpoch(e) \in Epoch
        BY <1>0, CandIsSocket DEF TypeOK, CandEpoch
    <2>2. e.seen \in SUBSET Epoch /\ e.res \in Resource
        BY <1>0 DEF Positioned, Entry
    <2> QED
        BY <1>0, <2>1, <2>2 DEF Judged, TypeOK
<1>2. deprioritized' \in [Resource -> SUBSET Epoch]
    BY <1>0, <1>1 DEF Finalise, TypeOK
<1>3. PICK a \in Socket \cup {"fallback"} :
         Finish(id, a) /\ (a = "fallback" \/ (a \in Socket /\ asked[a][id] = "answered"))
    <2>1. CASE Finish(id, "fallback")
        BY <2>1
    <2>2. CASE e.done = "payload" /\ Finish(id, Cand(e))
        BY <1>0, <2>2, CandIsSocket DEF RequestInv, PayloadAnswered
    <2> QED
        BY <2>1, <2>2 DEF Finalise
<1>4. TypeOK'
    BY <1>0, <1>2, <1>3, FinishType DEF TypeOK, EntriesOK, Positioned
<1>5. FinishStep(id, a)
    BY <1>0, <1>3 DEF FinishStep
<1> QED
    BY <1>4, <1>5 DEF Harmless

\* How a fetch moves on: it joins a request, selects candidates, starts its
\* request, finds no publisher, or is lost in a restart.
Joined(x, r, id) == [x EXCEPT !.pc = "wait", !.res = r, !.on = id]
Selecting(x, r, c, p) == [x EXCEPT !.pc = "select", !.res = r, !.cands = c, !.pruned = p]
Started(x, id) == [x EXCEPT !.pc = "wait", !.on = id, !.cands = <<>>, !.pruned = {}]
Declined(x) == [x EXCEPT !.pc = "done", !.answer = "fallback", !.pruned = {}]
Lost(x) == [x EXCEPT !.pc = "done", !.cands = <<>>, !.pruned = {}, !.answer = "lost"]

LEMMA JoinedType ==
    ASSUME NEW x \in FetchState, NEW r \in Resource, NEW id \in Fetch
    PROVE  /\ Joined(x, r, id) \in FetchState
           /\ Joined(x, r, id).pc = "wait" /\ Joined(x, r, id).on = id /\ Joined(x, r, id).answer = x.answer
<1> DEFINE x1 == [x EXCEPT !.pc = "wait"]
           x2 == [x1 EXCEPT !.res = r]
           x3 == [x2 EXCEPT !.on = id]
<1>1. x1 \in FetchState
    BY FetchFieldType
<1>2. x2 \in FetchState
    BY <1>1, FetchFieldType
<1>3. x3 \in FetchState
    BY <1>2, FetchFieldType
<1>4. Joined(x, r, id) = x3
    BY DEF Joined, FetchState
<1>5. x3.pc = "wait" /\ x3.on = id /\ x3.answer = x.answer
    BY DEF FetchState
<1> QED
    BY <1>3, <1>4, <1>5

LEMMA SelectingType ==
    ASSUME NEW x \in FetchState, NEW r \in Resource,
           NEW c \in {<<>>} \cup CandList, NEW p \in SUBSET Epoch
    PROVE  /\ Selecting(x, r, c, p) \in FetchState
           /\ Selecting(x, r, c, p).pc = "select" /\ Selecting(x, r, c, p).res = r /\ Selecting(x, r, c, p).answer = x.answer
<1> DEFINE x1 == [x EXCEPT !.pc = "select"]
           x2 == [x1 EXCEPT !.res = r]
           x3 == [x2 EXCEPT !.cands = c]
           x4 == [x3 EXCEPT !.pruned = p]
<1>1. x1 \in FetchState
    BY FetchFieldType
<1>2. x2 \in FetchState
    BY <1>1, FetchFieldType
<1>3. x3 \in FetchState
    BY <1>2, FetchFieldType
<1>4. x4 \in FetchState
    BY <1>3, FetchFieldType
<1>5. Selecting(x, r, c, p) = x4
    BY DEF Selecting, FetchState
<1>6. x4.pc = "select" /\ x4.res = r /\ x4.answer = x.answer
    BY DEF FetchState
<1> QED
    BY <1>4, <1>5, <1>6

LEMMA StartedType ==
    ASSUME NEW x \in FetchState, NEW id \in Fetch
    PROVE  /\ Started(x, id) \in FetchState
           /\ Started(x, id).pc = "wait" /\ Started(x, id).on = id /\ Started(x, id).answer = x.answer
<1> DEFINE x1 == [x EXCEPT !.pc = "wait"]
           x2 == [x1 EXCEPT !.on = id]
           x3 == [x2 EXCEPT !.cands = <<>>]
           x4 == [x3 EXCEPT !.pruned = {}]
<1>1. x1 \in FetchState
    BY FetchFieldType
<1>2. x2 \in FetchState
    BY <1>1, FetchFieldType
<1>3. x3 \in FetchState
    BY <1>2, FetchFieldType
<1>4. x4 \in FetchState
    BY <1>3, FetchFieldType
<1>5. Started(x, id) = x4
    BY DEF Started, FetchState
<1>6. x4.pc = "wait" /\ x4.on = id /\ x4.answer = x.answer
    BY DEF FetchState
<1> QED
    BY <1>4, <1>5, <1>6

LEMMA DeclinedType ==
    ASSUME NEW x \in FetchState
    PROVE  /\ Declined(x) \in FetchState
           /\ Declined(x).pc = "done" /\ Declined(x).answer = "fallback"
<1> DEFINE x1 == [x EXCEPT !.pc = "done"]
           x2 == [x1 EXCEPT !.answer = "fallback"]
           x3 == [x2 EXCEPT !.pruned = {}]
<1>1. x1 \in FetchState
    BY FetchFieldType
<1>2. x2 \in FetchState
    BY <1>1, FetchFieldType
<1>3. x3 \in FetchState
    BY <1>2, FetchFieldType
<1>4. Declined(x) = x3
    BY DEF Declined, FetchState
<1>5. x3.pc = "done" /\ x3.answer = "fallback"
    BY DEF FetchState
<1> QED
    BY <1>3, <1>4, <1>5

LEMMA LostType ==
    ASSUME NEW x \in FetchState
    PROVE  /\ Lost(x) \in FetchState
           /\ Lost(x).pc = "done" /\ Lost(x).answer = "lost"
<1> DEFINE x1 == [x EXCEPT !.pc = "done"]
           x2 == [x1 EXCEPT !.cands = <<>>]
           x3 == [x2 EXCEPT !.pruned = {}]
           x4 == [x3 EXCEPT !.answer = "lost"]
<1>1. x1 \in FetchState
    BY FetchFieldType
<1>2. x2 \in FetchState
    BY <1>1, FetchFieldType
<1>3. x3 \in FetchState
    BY <1>2, FetchFieldType
<1>4. x4 \in FetchState
    BY <1>3, FetchFieldType
<1>5. Lost(x) = x4
    BY DEF Lost, FetchState
<1>6. x4.pc = "done" /\ x4.answer = "lost"
    BY DEF FetchState
<1> QED
    BY <1>4, <1>5, <1>6

\* One fetch that does not wait yet moves on, and may start its request.
Moves(f, x) ==
    /\ fetch[f].pc \in {"new", "select"}
    /\ fetch' = [fetch EXCEPT ![f] = x]
    /\ x.answer \notin Socket
    /\ \A s \in Socket, i \in Fetch \ {f} : asked'[s][i] = asked[s][i]
    /\ \A i \in Fetch \ {f} : entry'[i] = entry[i]
    /\ entry'[f] = None \/ (x.pc = "wait" /\ x.on = f /\ entry'[f].done = "no")
    /\ x.pc = "select" => x.res \in Resource

LEMMA FetchMoved ==
    ASSUME RequestInv, TypeOK', NEW f \in Fetch, NEW x \in FetchState, Moves(f, x)
    PROVE  RequestInv'
<1>0. /\ fetch[f].pc \in {"new", "select"}
      /\ fetch' = [fetch EXCEPT ![f] = x]
      /\ x.answer \notin Socket
      /\ \A s \in Socket, i \in Fetch \ {f} : asked'[s][i] = asked[s][i]
      /\ \A i \in Fetch \ {f} : entry'[i] = entry[i]
      /\ entry'[f] = None \/ (x.pc = "wait" /\ x.on = f /\ entry'[f].done = "no")
      /\ x.pc = "select" => x.res \in Resource
    BY DEF Moves
<1>1. fetch'[f] = x /\ \A i \in Fetch \ {f} : fetch'[i] = fetch[i]
    BY <1>0 DEF RequestInv, TypeOK
<1>2. OwnEntry' /\ SelectHasResource'
    BY <1>0, <1>1 DEF RequestInv, OwnEntry, SelectHasResource
<1>3. PayloadAnswered'
    <2>1. \A i \in Fetch : entry[i] # None => Cand(entry[i]) \in Socket
        BY EntriesTyped, CandIsSocket DEF RequestInv, EntriesOK
    <2>2. \A i \in Fetch \ {f} : Cand(entry'[i]) = Cand(entry[i])
        BY <1>0 DEF Cand
    <2>3. ASSUME NEW i \in Fetch, entry'[i] # None, entry'[i].done = "payload"
          PROVE  asked'[Cand(entry'[i])][i] = "answered"
        <3>1. CASE i = f BY <1>0, <1>1, <2>3, <3>1
        <3>2. CASE i # f BY <1>0, <2>1, <2>2, <2>3, <3>2 DEF RequestInv, PayloadAnswered
        <3> QED BY <3>1, <3>2
    <2> QED
        BY <2>3 DEF PayloadAnswered, Cand
<1>4. AnswerFinal'
    <2>1. ASSUME NEW g \in Fetch, fetch'[g].answer \in Socket
          PROVE  /\ fetch'[g] = fetch[g] /\ fetch'[fetch[g].on] = fetch[fetch[g].on]
                 /\ asked'[fetch[g].answer][fetch[g].on] = asked[fetch[g].answer][fetch[g].on]
        <3>1. g # f /\ fetch'[g] = fetch[g]
            BY <1>0, <1>1, <2>1
        <3>2. fetch[g].on \in Fetch /\ fetch[g].on # f
            BY <1>0, <2>1, <3>1 DEF RequestInv, AnswerFinal
        <3> QED
            BY <1>0, <1>1, <2>1, <3>1, <3>2
    <2> QED
        BY <2>1 DEF RequestInv, AnswerFinal
<1> QED
    BY <1>2, <1>3, <1>4 DEF RequestInv

LEMMA ArriveKeeps ==
    ASSUME RequestInv, NEW f \in Fetch, NEW r \in Resource, Arrive(f, r)
    PROVE  RequestInv'
<1>0. /\ TypeOK /\ fetch[f] \in FetchState /\ fetch[f].pc = "new" /\ fetch[f].answer \notin Socket
      /\ UNCHANGED <<publisherEpoch, deprioritized, inflight, entry, writes, sock, asked, restarts>>
    BY DEF RequestInv, TypeOK, Arrive, AnswerFinal
<1>1. entry[f] = None
    BY <1>0 DEF RequestInv, OwnEntry
<1>2. ASSUME NEW y \in FetchState, fetch' = [fetch EXCEPT ![f] = y], y.answer = fetch[f].answer,
             y.pc = "wait" \/ (y.pc = "select" /\ y.res = r)
      PROVE  RequestInv'
    <2>1. TypeOK'
        BY <1>0, <1>2 DEF TypeOK
    <2>2. Moves(f, y)
        BY <1>0, <1>1, <1>2 DEF Moves
    <2> QED
        BY <2>1, <2>2, FetchMoved
<1>3. CASE Joins(r)
    <2>1. inflight[r] \in Fetch
        BY <1>0, <1>3 DEF TypeOK, Joins
    <2>2. fetch' = [fetch EXCEPT ![f] = Joined(fetch[f], r, inflight[r])]
        BY <1>0, <1>3 DEF Arrive, TypeOK, Joined
    <2> QED
        BY <1>0, <1>2, <2>1, <2>2, JoinedType
<1>4. CASE ~Joins(r)
    <2>1. PICK c \in Candidates(r) :
              fetch' = [fetch EXCEPT ![f].pc = "select", ![f].res = r,
                                     ![f].cands = c, ![f].pruned = Pruned(r)]
        BY <1>4 DEF Arrive
    <2>2. fetch' = [fetch EXCEPT ![f] = Selecting(fetch[f], r, c, Pruned(r))]
        BY <1>0, <2>1 DEF TypeOK, Selecting
    <2>3. c \in {<<>>} \cup CandList /\ Pruned(r) \in SUBSET Epoch
        BY <1>0, CandidatesType DEF TypeOK, Pruned
    <2> DEFINE x == fetch[f]
               p == Pruned(r)
               y == Selecting(x, r, c, p)
    <2>a. x \in FetchState /\ p \in SUBSET Epoch /\ c \in {<<>>} \cup CandList
        BY <1>0, <2>3
    <2>b. ASSUME x \in FetchState, p \in SUBSET Epoch, c \in {<<>>} \cup CandList
          PROVE  y \in FetchState /\ y.pc = "select" /\ y.res = r /\ y.answer = x.answer
        <3> HIDE DEF x, p
        <3> QED BY <2>b, SelectingType
    <2>4. y \in FetchState /\ y.pc = "select" /\ y.res = r /\ y.answer = fetch[f].answer
        BY <2>a, <2>b
    <2>5. fetch' = [fetch EXCEPT ![f] = y]
        BY <2>2
    <2> HIDE DEF y
    <2> QED
        BY <1>2, <2>4, <2>5
<1> QED
    BY <1>3, <1>4

\* The entry a request starts with.
LEMMA NewEntryType ==
    ASSUME NEW f \in Fetch, fetch[f] \in FetchState, fetch[f].res \in Resource,
           fetch[f].cands # <<>>
    PROVE  Positioned(NewEntry(f)) /\ NewEntry(f).done = "no"
<1>1. fetch[f].cands \in CandList
    BY DEF FetchState
<1>2. 1 \in DOMAIN fetch[f].cands
    BY <1>1, Lists, FailoverAssumption DEF Attempt
<1>3. 1 \in Attempt /\ 0 \in Generation
    BY FailoverAssumption DEF Attempt, Generation
<1>4. NewEntry(f) \in Entry
    BY <1>1, <1>3 DEF NewEntry, Entry
<1> QED
    BY <1>2, <1>4 DEF Positioned, NewEntry

LEMMA StartKeeps ==
    ASSUME RequestInv, NEW f \in Fetch, Start(f)
    PROVE  RequestInv'
<1> DEFINE r == fetch[f].res
<1>0. /\ TypeOK /\ fetch[f] \in FetchState /\ fetch[f].pc = "select" /\ fetch[f].answer \notin Socket
      /\ r \in Resource /\ UNCHANGED <<publisherEpoch, sock, restarts>>
    BY DEF RequestInv, TypeOK, Start, AnswerFinal, SelectHasResource
<1>1. entry[f] = None
    BY <1>0 DEF RequestInv, OwnEntry
<1>2. deprioritized' \in [Resource -> SUBSET Epoch]
    <2>1. fetch[f].pruned \in SUBSET Epoch
        BY <1>0 DEF FetchState
    <2> QED
        BY <1>0, <2>1 DEF Start, TypeOK
<1>3. CASE fetch[f].cands = <<>>
    <2> DEFINE y == Declined(fetch[f])
    <2>1. fetch' = [fetch EXCEPT ![f] = y] /\ UNCHANGED <<inflight, entry, writes, asked>>
        BY <1>0, <1>3 DEF Start, TypeOK, Declined
    <2>2. y \in FetchState /\ y.pc = "done" /\ y.answer = "fallback"
        BY <1>0, DeclinedType
    <2> HIDE DEF y
    <2>3. TypeOK'
        BY <1>0, <1>2, <2>1, <2>2 DEF TypeOK
    <2>4. y.answer \notin Socket
        BY <2>2, NameAssumption
    <2>5. Moves(f, y)
        BY <1>0, <1>1, <2>1, <2>2, <2>4 DEF Moves
    <2> QED
        BY <2>2, <2>3, <2>5, FetchMoved
<1>4. CASE fetch[f].cands # <<>>
    <2> DEFINE y == Started(fetch[f], f)
    <2>1. /\ fetch' = [fetch EXCEPT ![f] = y]
          /\ inflight' = [inflight EXCEPT ![r] = f]
          /\ SendToCandidate(f, NewEntry(f), writes)
        BY <1>0, <1>4 DEF Start, TypeOK, Started
    <2>2. y \in FetchState /\ y.pc = "wait" /\ y.on = f /\ y.answer = fetch[f].answer
        BY <1>0, StartedType
    <2> HIDE DEF y
    <2>3. Positioned(NewEntry(f)) /\ NewEntry(f).done = "no"
        BY <1>0, <1>4, NewEntryType
    <2>4. writes \in SUBSET Write
        BY <1>0 DEF TypeOK
    <2>5. /\ EntriesOK(entry') /\ entry'[f] # None
          /\ \A i \in Fetch \ {f} : entry'[i] = entry[i]
          /\ entry'[f].done = "no"
          /\ writes' \subseteq Write
          /\ asked' \in [Socket -> [Fetch -> {"no", "sent", "acked", "answered"}]]
          /\ \A s \in Socket, i \in Fetch \ {f} : asked'[s][i] = asked[s][i]
        BY <1>0, <2>1, <2>3, <2>4, SendType
    <2>6. TypeOK'
        BY <1>0, <1>2, <2>1, <2>2, <2>5 DEF TypeOK, EntriesOK, Positioned
    <2>7. Moves(f, y)
        BY <1>0, <2>1, <2>2, <2>5 DEF Moves
    <2> QED
        BY <2>2, <2>6, <2>7, FetchMoved
<1> QED
    BY <1>3, <1>4

LEMMA RestartKeeps == ASSUME RequestInv, Restart PROVE RequestInv'
<1>1. /\ TypeOK /\ UNCHANGED <<publisherEpoch, deprioritized, asked>>
      /\ inflight' = [r \in Resource |-> None] /\ writes' = {} /\ restarts < MaxRestarts
      /\ restarts' = restarts + 1 /\ entry' = [id \in Fetch |-> None]
    BY DEF RequestInv, Restart
<1>2. fetch' = [f \in Fetch |-> IF fetch[f].pc \in {"select", "wait"} THEN Lost(fetch[f]) ELSE fetch[f]]
    BY DEF Restart, Lost
<1>3. \A f \in Fetch : /\ fetch[f] \in FetchState /\ Lost(fetch[f]) \in FetchState
                       /\ Lost(fetch[f]).pc = "done" /\ Lost(fetch[f]).answer = "lost"
    BY <1>1, LostType DEF TypeOK
<1>4. sock' \in [Socket -> [state : SockState, epoch : Epoch, caps : SUBSET Resource]]
    BY DEF RequestInv, TypeOK, Restart, SockState
<1>5. fetch' \in [Fetch -> FetchState]
    BY <1>2, <1>3
<1>6. TypeOK'
    BY <1>1, <1>4, <1>5, FailoverAssumption DEF TypeOK
<1>7. OwnEntry' /\ PayloadAnswered'
    BY <1>1 DEF OwnEntry, PayloadAnswered
<1>8. SelectHasResource'
    BY <1>2, <1>3 DEF SelectHasResource
<1>9. AnswerFinal'
    <2>1. ASSUME NEW f \in Fetch, fetch'[f].answer \in Socket
          PROVE  fetch'[f] = fetch[f] /\ fetch'[fetch[f].on] = fetch[fetch[f].on]
        <3>1. fetch'[f] = fetch[f]
            BY <1>2, <1>3, <2>1, NameAssumption
        <3> QED
            BY <1>2, <2>1, <3>1 DEF RequestInv, AnswerFinal
    <2> QED
        BY <1>1, <2>1 DEF RequestInv, AnswerFinal
<1> QED
    BY <1>6, <1>7, <1>8, <1>9 DEF RequestInv

LEMMA InitRequestInv == Init => RequestInv
<1> SUFFICES ASSUME Init PROVE RequestInv
    OBVIOUS
<1>1. TypeOK
    <2>1. [pc |-> "new", res |-> None, cands |-> <<>>, pruned |-> {}, on |-> None, answer |-> None]
            \in FetchState
        BY DEF FetchState
    <2>2. fetch \in [Fetch -> FetchState]
        BY <2>1 DEF Init
    <2>3. sock \in [Socket -> [state : SockState, epoch : Epoch, caps : SUBSET Resource]]
        BY DEF Init, SockState, Epoch
    <2>4. deprioritized \in [Resource -> SUBSET Epoch]
        BY DEF Init
    <2>5. entry \in [Fetch -> Entry \cup {None}]
        BY DEF Init
    <2>6. asked \in [Socket -> [Fetch -> {"no", "sent", "acked", "answered"}]]
        BY DEF Init
    <2>7. /\ publisherEpoch \in Epoch
          /\ inflight \in [Resource -> Fetch \cup {None}]
          /\ writes \subseteq Write
          /\ restarts \in 0 .. MaxRestarts
          /\ \A id \in Fetch : entry[id] = None
        BY FailoverAssumption DEF Init, Epoch
    <2> QED
        BY <2>2, <2>3, <2>4, <2>5, <2>6, <2>7 DEF TypeOK
<1>2. OwnEntry /\ PayloadAnswered /\ AnswerFinal /\ SelectHasResource
    BY NameAssumption DEF Init, OwnEntry, PayloadAnswered, AnswerFinal, SelectHasResource
<1> QED
    BY <1>1, <1>2 DEF RequestInv

LEMMA HarmlessKeeps == ASSUME RequestInv, Harmless PROVE RequestInv'
    BY EntryStepKeeps, FinishStepKeeps DEF Harmless

\* The kinds of step there are.
LEMMA StepKinds ==
    ASSUME RequestInv, [Next]_vars
    PROVE  \/ Harmless
           \/ \E f \in Fetch, r \in Resource : Arrive(f, r)
           \/ \E f \in Fetch : Start(f)
           \/ Restart
           \/ UNCHANGED vars
<1>1. ASSUME NEW f \in Fetch, Request(f)
      PROVE  Harmless \/ (\E r \in Resource : Arrive(f, r)) \/ Start(f)
    BY <1>1, AckTimeoutHarmless, TimeUpHarmless, DeadlineHarmless, FinaliseHarmless DEF Request
<1>2. ASSUME NEW s \in Socket, Publisher(s) PROVE Harmless
    <2>1. CASE Connect(s) \/ Accept(s) \/ Hello(s) \/ Drop(s)
        BY <2>1, SocketHarmless
    <2>2. CASE Error(s) \/ Close(s)
        <3>1. PICK state \in SockState : SocketHandler(s, state)
            BY <2>2 DEF Error, Close, SockState
        <3> QED
            BY <3>1, HandlerHarmless
    <2>3. CASE \E id \in Fetch : Ack(s, id)
        BY <2>3, AckHarmless
    <2>4. CASE \E id \in Fetch, frame \in {"payload", "error"} : Respond(s, id, frame)
        BY <2>4, RespondHarmless
    <2> QED
        BY <1>2, <2>1, <2>2, <2>3, <2>4 DEF Publisher
<1>3. ASSUME NEW w \in writes, WriteDone(w) PROVE Harmless
    BY <1>3, WriteDoneHarmless
<1> QED
    BY <1>1, <1>2, <1>3 DEF Next

LEMMA StepRequestInv == RequestInv /\ [Next]_vars => RequestInv'
<1> SUFFICES ASSUME RequestInv, [Next]_vars PROVE RequestInv'
    OBVIOUS
<1>1. CASE Harmless
    BY <1>1, HarmlessKeeps
<1>2. CASE UNCHANGED vars
    BY <1>2 DEF vars, RequestInv, TypeOK, OwnEntry, PayloadAnswered, AnswerFinal,
                SelectHasResource, Cand
<1> QED
    BY <1>1, <1>2, StepKinds, ArriveKeeps, StartKeeps, RestartKeeps

LEMMA SpecRequestInv == Spec => []RequestInv
    BY InitRequestInv, StepRequestInv, PTL DEF Spec

\* The object's storage, entries, sockets and requests keep their types
\* (DashboardRelay): in particular a failover never leaves the candidate list.
THEOREM RelayTypeCorrect == Spec => []TypeOK
<1>1. RequestInv => TypeOK
    BY DEF RequestInv
<1> QED
    BY <1>1, SpecRequestInv, PTL

\* What a device gets was built for the request it waited on, whatever late
\* answers to earlier requests arrive (handlePublisherMessage's id and
\* candidate checks); no assumption about the input gate is needed.
THEOREM AnswersAreOwn == Spec => []AnswersOwnRequest
<1>1. RequestInv => AnswersOwnRequest
    BY DEF RequestInv, AnswerFinal, AnswersOwnRequest
<1> QED
    BY <1>1, SpecRequestInv, PTL

-----------------------------------------------------------------------------
(* Under the input gate the object implements SingleFlight                  *)

\* The two maps of the object's memory agree.
FlightIsEntry ==
    \A r \in Resource : inflight[r] # None => entry[inflight[r]] # None /\ entry[inflight[r]].res = r
EntryIsFlight ==
    \A id \in Fetch : entry[id] # None => inflight[entry[id].res] = id

\* Nobody waits for a request that is gone.
WaitsOnEntry ==
    \A f \in Fetch : fetch[f].pc = "wait" => fetch[f].on \in Fetch /\ entry[fetch[f].on] # None

Unanswered == \A f \in Fetch : fetch[f].pc # "done" => fetch[f].answer = None
Answered == \A f \in Fetch : fetch[f].pc = "done" => fetch[f].answer # None

\* The gate keeps a second fetch out while one selects its candidates.
SelectAlone ==
    \A f \in Fetch : fetch[f].pc = "select" =>
        /\ inflight[fetch[f].res] = None
        /\ \A g \in Fetch : fetch[g].pc = "select" => g = f

GateInv == FlightIsEntry /\ EntryIsFlight /\ WaitsOnEntry /\ Unanswered /\ Answered /\ SelectAlone

LEMMA InitGateInv == Init => GateInv
    BY DEF Init, GateInv, FlightIsEntry, EntryIsFlight, WaitsOnEntry, Unanswered, Answered,
           SelectAlone

\* A step of the object is a step of SingleFlight, or none.
Refines == Coalescer!Next \/ UNCHANGED Coalescer!vars

LEMMA InitRefines == Init => Coalescer!Init
    BY DEF Init, Coalescer!Init, Waits

LEMMA EntryStepRefines == ASSUME RequestInv, GateInv, EntryStep PROVE GateInv' /\ Refines
<1>1. UNCHANGED <<inflight, fetch>>
    BY DEF EntryStep
<1>2. FlightIsEntry' /\ EntryIsFlight'
    BY <1>1 DEF GateInv, RequestInv, TypeOK, EntryStep, FlightIsEntry, EntryIsFlight
<1>3. WaitsOnEntry' /\ Unanswered' /\ Answered' /\ SelectAlone'
    BY <1>1 DEF GateInv, EntryStep, WaitsOnEntry, Unanswered, Answered, SelectAlone
<1>4. Refines
    BY <1>1 DEF Refines, Coalescer!vars, Waits
<1> QED
    BY <1>2, <1>3, <1>4 DEF GateInv

LEMMA FinishStepRefines ==
    ASSUME RequestInv, RequestInv', GateInv,
           NEW id \in Fetch, NEW a \in Socket \cup {"fallback"}, FinishStep(id, a)
    PROVE  GateInv' /\ Refines
<1> DEFINE k == entry[id].res
<1>1. /\ \A f \in Fetch : fetch[f].pc = "wait" /\ fetch[f].on = id =>
             fetch'[f].pc = "done" /\ fetch'[f].answer = a /\ fetch'[f].on = id
      /\ \A f \in Fetch : ~(fetch[f].pc = "wait" /\ fetch[f].on = id) => fetch'[f] = fetch[f]
      /\ entry'[id] = None /\ \A i \in Fetch \ {id} : entry'[i] = entry[i]
      /\ inflight' = [inflight EXCEPT ![k] = None]
    BY FinishEffect
<1>2. k \in Resource /\ inflight[k] = id /\ entry[id] # None
    BY EntriesTyped, PositionedIsEntry DEF RequestInv, EntriesOK, GateInv, EntryIsFlight, FinishStep
<1>3. a # None /\ id # None /\ a \in Socket \cup {"fallback", "lost"}
    BY NameAssumption
<1>4. FlightIsEntry'
    <2> SUFFICES ASSUME NEW r \in Resource, inflight'[r] # None
                 PROVE  entry'[inflight'[r]] # None /\ entry'[inflight'[r]].res = r
        BY DEF FlightIsEntry
    <2>1. r # k /\ inflight'[r] = inflight[r]
        BY <1>1, <1>2 DEF RequestInv, TypeOK
    <2>2. inflight[r] \in Fetch /\ inflight[r] # id
        BY <1>2, <2>1 DEF RequestInv, TypeOK, GateInv, FlightIsEntry
    <2> QED
        BY <1>1, <2>1, <2>2 DEF GateInv, FlightIsEntry
<1>5. EntryIsFlight'
    <2> SUFFICES ASSUME NEW i \in Fetch, entry'[i] # None
                 PROVE  inflight'[entry'[i].res] = i
        BY DEF EntryIsFlight
    <2>1. i # id /\ entry'[i] = entry[i] /\ inflight[entry[i].res] = i
        BY <1>1 DEF GateInv, EntryIsFlight
    <2>2. entry[i].res # k /\ entry[i].res \in Resource
        BY <1>2, <2>1, EntriesTyped, PositionedIsEntry DEF RequestInv, EntriesOK
    <2> QED
        BY <1>1, <2>1, <2>2 DEF RequestInv, TypeOK
<1>6. WaitsOnEntry' /\ Unanswered' /\ Answered'
    BY <1>1, <1>3 DEF GateInv, WaitsOnEntry, Unanswered, Answered
<1>7. SelectAlone'
    <2>1. \A r \in Resource : inflight[r] = None => inflight'[r] = None
        BY <1>1 DEF RequestInv, TypeOK
    <2>2. \A f \in Fetch : fetch'[f].pc = "select" => fetch'[f] = fetch[f]
        BY <1>1
    <2>3. \A f \in Fetch : fetch[f].pc = "select" => fetch[f].res \in Resource
        BY DEF RequestInv, SelectHasResource
    <2> QED
        BY <2>1, <2>2, <2>3 DEF GateInv, SelectAlone
<1>8. \E r \in Resource : Coalescer!Land(r)
    <2>1. \A f \in Fetch : f \in Coalescer!Waiting(id) <=> fetch[f].pc = "wait" /\ fetch[f].on = id
        BY <1>3 DEF Coalescer!Waiting, Waits
    <2>2. Waits' = [f \in Fetch |-> IF f \in Coalescer!Waiting(id) THEN None ELSE Waits[f]]
        BY <1>1, <2>1 DEF Waits
    <2>3. [f \in Fetch |-> fetch[f].answer]'
            = [f \in Fetch |-> IF f \in Coalescer!Waiting(id)
                               THEN a ELSE [g \in Fetch |-> fetch[g].answer][f]]
        BY <1>1, <2>1
    <2>4. PICK r \in Resource : r = k
        BY <1>2
    <2>5. Coalescer!Land(r)
        BY <1>1, <1>2, <1>3, <2>2, <2>3, <2>4 DEF Coalescer!Land
    <2> QED
        BY <2>5
<1>9. Refines
    BY <1>8 DEF Refines, Coalescer!Next
<1> QED
    BY <1>4, <1>5, <1>6, <1>7, <1>9 DEF GateInv

LEMMA ArriveRefines ==
    ASSUME RequestInv, RequestInv', GateInv, "request" \in Gated,
           NEW f \in Fetch, NEW r \in Resource, Arrive(f, r)
    PROVE  GateInv' /\ Refines
<1>0. /\ fetch[f] \in FetchState /\ fetch[f].pc = "new" /\ fetch[f].answer = None
      /\ UNCHANGED <<inflight, entry>>
      /\ \A g \in Fetch : fetch[g].pc # "select"
    BY DEF RequestInv, TypeOK, Arrive, GateInv, Unanswered, GateOpen
<1>1. CASE Joins(r)
    <2> DEFINE y == Joined(fetch[f], r, inflight[r])
    <2>1. inflight[r] \in Fetch /\ entry[inflight[r]] # None /\ inflight[r] # None
        BY <1>1 DEF RequestInv, TypeOK, Joins, GateInv, FlightIsEntry
    <2>2. fetch' = [fetch EXCEPT ![f] = y]
        BY <1>1 DEF Arrive, RequestInv, TypeOK, Joined
    <2>3. y.pc = "wait" /\ y.on = inflight[r] /\ y.answer = None
        BY <1>0, <2>1, JoinedType
    <2> HIDE DEF y
    <2>4. fetch'[f] = y /\ \A g \in Fetch \ {f} : fetch'[g] = fetch[g]
        BY <2>2 DEF RequestInv, TypeOK
    <2>5. FlightIsEntry' /\ EntryIsFlight'
        BY <1>0 DEF GateInv, FlightIsEntry, EntryIsFlight
    <2>6. WaitsOnEntry' /\ Unanswered' /\ Answered' /\ SelectAlone'
        BY <1>0, <2>1, <2>3, <2>4 DEF GateInv, WaitsOnEntry, Unanswered, Answered, SelectAlone
    <2>7. Waits' = [Waits EXCEPT ![f] = inflight[r]]
        BY <2>3, <2>4 DEF Waits
    <2>8. [g \in Fetch |-> fetch[g].answer]' = [g \in Fetch |-> fetch[g].answer]
        BY <1>0, <2>3, <2>4
    <2>9. Coalescer!Join(f, r)
        BY <1>0, <2>1, <2>7, <2>8 DEF Coalescer!Join, Coalescer!New, Waits
    <2>10. Refines
        BY <2>9 DEF Refines, Coalescer!Next
    <2> QED
        BY <2>5, <2>6, <2>10 DEF GateInv
<1>2. CASE ~Joins(r)
    <2>1. PICK c \in Candidates(r) :
              fetch' = [fetch EXCEPT ![f].pc = "select", ![f].res = r,
                                     ![f].cands = c, ![f].pruned = Pruned(r)]
        BY <1>2 DEF Arrive
    <2>2. /\ fetch'[f].pc = "select" /\ fetch'[f].res = r /\ fetch'[f].answer = None
          /\ \A g \in Fetch \ {f} : fetch'[g] = fetch[g]
        BY <1>0, <2>1 DEF RequestInv, TypeOK, FetchState
    <2>3. inflight[r] = None
        BY <1>2 DEF Joins
    <2>4. FlightIsEntry' /\ EntryIsFlight'
        BY <1>0 DEF GateInv, FlightIsEntry, EntryIsFlight
    <2>5. WaitsOnEntry' /\ Unanswered' /\ Answered' /\ SelectAlone'
        BY <1>0, <2>2, <2>3 DEF GateInv, WaitsOnEntry, Unanswered, Answered, SelectAlone
    <2>6. Waits' = Waits
        BY <1>0, <2>2 DEF Waits
    <2>7. [g \in Fetch |-> fetch[g].answer]' = [g \in Fetch |-> fetch[g].answer]
        BY <1>0, <2>2
    <2>8. Refines
        BY <1>0, <2>6, <2>7 DEF Refines, Coalescer!vars
    <2> QED
        BY <2>4, <2>5, <2>8 DEF GateInv
<1> QED
    BY <1>1, <1>2

LEMMA StartRefines ==
    ASSUME RequestInv, RequestInv', GateInv, NEW f \in Fetch, Start(f)
    PROVE  GateInv' /\ Refines
<1> DEFINE r == fetch[f].res
<1>0. /\ TypeOK /\ fetch[f] \in FetchState /\ fetch[f].pc = "select" /\ fetch[f].answer = None
      /\ r \in Resource /\ inflight[r] = None /\ entry[f] = None
      /\ \A g \in Fetch \ {f} : fetch[g].pc # "select"
    BY DEF RequestInv, TypeOK, Start, SelectHasResource, GateInv, Unanswered, SelectAlone, OwnEntry
<1>1. CASE fetch[f].cands = <<>>
    <2> DEFINE y == Declined(fetch[f])
    <2>1. fetch' = [fetch EXCEPT ![f] = y] /\ UNCHANGED <<inflight, entry>>
        BY <1>0, <1>1 DEF Start, TypeOK, Declined
    <2>2. y.pc = "done" /\ y.answer = "fallback"
        BY <1>0, DeclinedType
    <2> HIDE DEF y
    <2>3. fetch'[f] = y /\ \A g \in Fetch \ {f} : fetch'[g] = fetch[g]
        BY <1>0, <2>1 DEF TypeOK
    <2>4. FlightIsEntry' /\ EntryIsFlight'
        BY <2>1 DEF GateInv, FlightIsEntry, EntryIsFlight
    <2>5. WaitsOnEntry' /\ Unanswered' /\ Answered' /\ SelectAlone'
        BY <1>0, <2>1, <2>2, <2>3, NameAssumption
        DEF GateInv, WaitsOnEntry, Unanswered, Answered, SelectAlone
    <2>6. Waits' = Waits
        BY <1>0, <2>2, <2>3 DEF Waits
    <2>7. [g \in Fetch |-> fetch[g].answer]'
            = [[g \in Fetch |-> fetch[g].answer] EXCEPT ![f] = "fallback"]
        BY <2>2, <2>3
    <2>8. Coalescer!Decline(f)
        BY <1>0, <2>1, <2>6, <2>7 DEF Coalescer!Decline, Coalescer!New, Waits
    <2>9. Refines
        BY <2>8 DEF Refines, Coalescer!Next
    <2> QED
        BY <2>4, <2>5, <2>9 DEF GateInv
<1>2. CASE fetch[f].cands # <<>>
    <2> DEFINE y == Started(fetch[f], f)
    <2>1. /\ fetch' = [fetch EXCEPT ![f] = y]
          /\ inflight' = [inflight EXCEPT ![r] = f]
          /\ SendToCandidate(f, NewEntry(f), writes)
        BY <1>0, <1>2 DEF Start, TypeOK, Started
    <2>2. y.pc = "wait" /\ y.on = f /\ y.answer = None
        BY <1>0, StartedType
    <2> HIDE DEF y
    <2>3. Positioned(NewEntry(f)) /\ writes \in SUBSET Write /\ NewEntry(f).res = r
        BY <1>0, <1>2, NewEntryType DEF TypeOK, NewEntry
    <2>4. /\ entry'[f] # None /\ entry'[f].res = r
          /\ \A i \in Fetch \ {f} : entry'[i] = entry[i]
        BY <1>0, <2>1, <2>3, SendType
    <2>5. fetch'[f] = y /\ \A g \in Fetch \ {f} : fetch'[g] = fetch[g]
        BY <1>0, <2>1 DEF TypeOK
    <2>6. inflight'[r] = f /\ \A q \in Resource \ {r} : inflight'[q] = inflight[q]
        BY <1>0, <2>1 DEF TypeOK
    <2>7. FlightIsEntry'
        <3>1. \A q \in Resource \ {r} : inflight[q] # f
            BY <1>0, NameAssumption DEF GateInv, FlightIsEntry, TypeOK
        <3>2. \A q \in Resource \ {r} : inflight[q] \in Fetch \cup {None}
            BY <1>0 DEF TypeOK
        <3> QED
            BY <2>4, <2>6, <3>1, <3>2, NameAssumption DEF GateInv, FlightIsEntry
    <2>8. EntryIsFlight'
        <3>1. ASSUME NEW i \in Fetch \ {f}, entry[i] # None
              PROVE  entry[i].res \in Resource /\ entry[i].res # r
            BY <1>0, <3>1, EntriesTyped, PositionedIsEntry, NameAssumption
            DEF EntriesOK, GateInv, EntryIsFlight
        <3> QED
            BY <2>4, <2>6, <3>1 DEF GateInv, EntryIsFlight
    <2>9. WaitsOnEntry' /\ Unanswered' /\ Answered' /\ SelectAlone'
        BY <1>0, <2>2, <2>4, <2>5 DEF GateInv, WaitsOnEntry, Unanswered, Answered, SelectAlone
    <2>10. Waits' = [Waits EXCEPT ![f] = f]
        BY <2>2, <2>5 DEF Waits
    <2>11. [g \in Fetch |-> fetch[g].answer]' = [g \in Fetch |-> fetch[g].answer]
        BY <1>0, <2>2, <2>5
    <2>12. \E q \in Resource : Coalescer!Start(f, q)
        <3>1. PICK q \in Resource : q = r
            BY <1>0
        <3>2. Coalescer!Start(f, q)
            BY <1>0, <2>1, <2>10, <2>11, <3>1 DEF Coalescer!Start, Coalescer!New, Waits
        <3> QED
            BY <3>2
    <2>13. Refines
        BY <2>12 DEF Refines, Coalescer!Next
    <2> QED
        BY <2>7, <2>8, <2>9, <2>13 DEF GateInv
<1> QED
    BY <1>1, <1>2

LEMMA RestartRefines == ASSUME RequestInv, RequestInv', GateInv, Restart PROVE GateInv' /\ Refines
<1>1. /\ inflight' = [r \in Resource |-> None] /\ entry' = [id \in Fetch |-> None]
      /\ fetch' = [f \in Fetch |-> IF fetch[f].pc \in {"select", "wait"} THEN Lost(fetch[f]) ELSE fetch[f]]
    BY DEF Restart, Lost
<1>2. \A f \in Fetch : /\ fetch[f] \in FetchState /\ fetch[f].answer \in Socket \cup {"fallback", "lost", None}
                       /\ Lost(fetch[f]).pc = "done" /\ Lost(fetch[f]).answer = "lost"
    BY LostType DEF RequestInv, TypeOK, FetchState
<1>3. \A f \in Fetch : fetch[f].pc \in {"select", "wait"} => fetch'[f].pc = "done" /\ fetch'[f].answer = "lost"
    BY <1>1, <1>2
<1>4. \A f \in Fetch : fetch[f].pc \notin {"select", "wait"} => fetch'[f] = fetch[f]
    BY <1>1
<1>5. GateInv'
    BY <1>1, <1>3, <1>4, NameAssumption
    DEF GateInv, FlightIsEntry, EntryIsFlight, WaitsOnEntry, Unanswered, Answered, SelectAlone
<1>6. Waits' = [f \in Fetch |-> None]
    BY <1>3, <1>4 DEF Waits
<1>7. [f \in Fetch |-> fetch[f].answer]' \in [Fetch -> Socket \cup {"fallback", "lost"} \cup {None}]
    BY <1>2, <1>3, <1>4
<1>8. \A f \in Fetch : [g \in Fetch |-> fetch[g].answer]'[f] \in {[g \in Fetch |-> fetch[g].answer][f], "lost"}
    BY <1>3, <1>4
<1>9. Coalescer!Crash
    BY <1>1, <1>6, <1>7, <1>8 DEF Coalescer!Crash
<1> QED
    BY <1>5, <1>9 DEF Refines, Coalescer!Next

LEMMA StepRefines ==
    ASSUME "request" \in Gated, RequestInv, RequestInv', GateInv, [Next]_vars
    PROVE  GateInv' /\ Refines
<1>1. CASE Harmless
    BY <1>1, EntryStepRefines, FinishStepRefines DEF Harmless
<1>2. CASE UNCHANGED vars
    <2>1. UNCHANGED <<inflight, entry, fetch>>
        BY <1>2 DEF vars
    <2>2. GateInv'
        BY <2>1 DEF GateInv, FlightIsEntry, EntryIsFlight, WaitsOnEntry, Unanswered, Answered, SelectAlone
    <2>3. Refines
        BY <2>1 DEF Refines, Coalescer!vars, Waits
    <2> QED
        BY <2>2, <2>3
<1> QED
    BY <1>1, <1>2, StepKinds, ArriveRefines, StartRefines, RestartRefines

\* When the input gate covers the storage awaits of a request, concurrent
\* fetches of a resource share one request and get its one answer, through
\* every failover, timeout, late frame and restart (fetch, startRequest).
THEOREM RelayCoalesces == ASSUME "request" \in Gated PROVE Spec => ImplementsSingleFlight
<1>1. Init => Coalescer!Init /\ GateInv
    BY InitRefines, InitGateInv
<1>2. RequestInv /\ RequestInv' /\ GateInv /\ [Next]_vars => GateInv' /\ Refines
    BY StepRefines
<1>3. Refines => [Coalescer!Next]_(Coalescer!vars)
    BY DEF Refines
<1> QED
    BY <1>1, <1>2, <1>3, SpecRequestInv, PTL DEF Spec, ImplementsSingleFlight, Coalescer!Spec

-----------------------------------------------------------------------------
(* Whom a request has been sent to                                          *)

Distinct(c) == \A i, j \in DOMAIN c : c[i] = c[j] => i = j

\* None of the candidates that come later has been asked.
Ahead(e, id) == \A j \in DOMAIN e.cands : j > e.attempt => asked[e.cands[j]][id] = "no"

\* An acknowledgement, a running timer and an answer are the current candidate's.
AskedOf(e, id) ==
    /\ e.acked => e.ackTimer = None
    /\ e.acked \/ e.ackTimer # None \/ e.done \in {"error", "payload"} => asked[Cand(e)][id] # "no"
    /\ e.done = "null" => e.acked

Trace(id) ==
    /\ fetch[id].pc \in {"new", "select"} => /\ \A s \in Socket : asked[s][id] = "no"
                                             /\ \A w \in writes : w.id # id
    /\ fetch[id].pc = "select" => Distinct(fetch[id].cands)
    /\ entry[id] # None => /\ Distinct(entry[id].cands)
                           /\ Ahead(entry[id], id)
                           /\ AskedOf(entry[id], id)
                           /\ entry[id].res = fetch[id].res

TraceInv == \A id \in Fetch : Trace(id)

\* A claimed failover that has not sent yet is the only one, and its candidate
\* has not been asked.
IsClaim(w, id) == w.id = id /\ w.advance
Claim(id) ==
    entry[id] # None => \A v \in writes : IsClaim(v, id) =>
        /\ asked[Cand(entry[id])][id] = "no"
        /\ entry[id].attempt # 1
        /\ \A w \in writes : IsClaim(w, id) => w = v

ClaimInv == \A id \in Fetch : Claim(id)

\* What makes two failovers of one request impossible at a time: the gate, or
\* that there is no third candidate to fail over to.
FailoverAlone == MaxFailover <= 2 \/ "request" \in Gated

-----------------------------------------------------------------------------
(* What a step does to one request                                          *)

\* The entry that is sent or fails over: the one there is, or a new one.
From(e, id) ==
    /\ Positioned(e)
    /\ \/ Live(id) /\ e = entry[id]
       \/ fetch[id].pc = "select" /\ e = NewEntry(id)

\* The send was claimed before, or is the first; pending is what stays claimed.
Taken(id, pending) ==
    fetch[id].pc = "select" \/ \E w \in writes : IsClaim(w, id) /\ w \notin pending

\* The entry keeps its request and its list.
SameList(e, id) ==
    /\ entry'[id] # None
    /\ entry'[id].res = e.res /\ entry'[id].cands = e.cands /\ entry'[id].seen = e.seen

Sends(e, id, pending) ==
    /\ From(e, id) /\ Taken(id, pending)
    /\ fetch'[id].pc \notin {"new", "select"}
    /\ SameList(e, id) /\ entry'[id].attempt = e.attempt
    /\ ~entry'[id].acked /\ entry'[id].done = "no"
    /\ \A s \in Socket : asked'[s][id] = IF s = Cand(e) THEN "sent" ELSE asked[s][id]
    /\ \A w \in writes' : w.id = id => w \in pending

AskedSame(id) == \A s \in Socket : asked'[s][id] = "no" <=> asked[s][id] = "no"
NoWrite(id) == \A w \in writes' : w.id = id => w \in writes

NewWrite(id, e, g) ==
    [id |-> id, generation |-> g, epoch |-> CandEpoch(e), advance |-> CanAdvance(e),
     seen |-> deprioritized[e.res]]

FailsOver(e, id, pending) ==
    /\ From(e, id)
    /\ GateOpen \/ Taken(id, pending)
    /\ sock[Cand(e)].state # "open" \/ e.ackTimer # None
    /\ AskedSame(id)
    /\ fetch'[id].pc \notin {"new", "select"}
    /\ SameList(e, id)
    /\ entry'[id].attempt = IF CanAdvance(e) THEN e.attempt + 1 ELSE e.attempt
    /\ ~entry'[id].acked /\ entry'[id].ackTimer = None /\ entry'[id].done = "no"
    /\ \E g \in Generation : \A w \in writes' : w.id = id => w \in pending \/ w = NewWrite(id, e, g)

Rests(id) ==
    /\ entry'[id] = entry[id]
    /\ fetch'[id].pc \in {"new", "select"} => fetch'[id] = fetch[id]

\* An acknowledged request is deleted only by its finalisation or a restart.
Ends(id) ==
    /\ entry'[id] = None /\ fetch'[id].pc \notin {"new", "select"}
    /\ Live(id) /\ entry[id].acked => restarts' # restarts

Selects(id) ==
    /\ entry'[id] = None /\ fetch[id].pc = "new"
    /\ \E r \in Resource : /\ fetch'[id].res = r
                           /\ fetch'[id].cands \in Candidates(r)
                           /\ fetch'[id].pruned = Pruned(r)

\* A payload comes in while the gate is open and nothing else happens.
Answers(id) ==
    /\ GateOpen
    /\ UNCHANGED <<deprioritized, writes, fetch>>
    /\ entry'[id].seen = deprioritized[entry[id].res]
    /\ \A i \in Fetch \ {id} : entry'[i] = entry[i]

\* What may end a request: the deadline, the candidate's answer, or a failover
\* whose write is pending.
Settles(id) ==
    \/ entry[id].late
    \/ Responds(Cand(entry[id]), id)
    \/ \E w \in writes : w.id = id

\* A frame, a timer or a deadline changes the entry but not its candidate.
Turns(id) ==
    /\ entry[id] # None /\ entry'[id] # None /\ entry[id].done = "no"
    /\ fetch'[id] = fetch[id]
    /\ entry'[id].res = entry[id].res /\ entry'[id].cands = entry[id].cands
    /\ entry'[id].attempt = entry[id].attempt
    /\ entry'[id].seen \in {entry[id].seen, deprioritized[entry[id].res]}
    /\ entry'[id].ackTimer \in {entry[id].ackTimer, None}
    /\ entry[id].acked => entry'[id].acked
    /\ entry'[id].acked => entry[id].acked \/ GateOpen
    /\ entry'[id].done = "no" \/ Settles(id)
    /\ AskedOf(entry[id], id)'
    /\ entry'[id].done = "payload" => Answers(id)

Kind(id) ==
    /\ fetch[id].pc # "new" => fetch'[id].res = fetch[id].res
    /\ \/ \E e \in Entry, pending \in SUBSET writes : Sends(e, id, pending) \/ FailsOver(e, id, pending)
       \/ AskedSame(id) /\ NoWrite(id) /\ (Rests(id) \/ Ends(id) \/ Selects(id) \/ Turns(id))

-----------------------------------------------------------------------------
LEMMA FailedOverFields ==
    ASSUME NEW e \in Entry
    PROVE  /\ FailedOver(e).res = e.res /\ FailedOver(e).cands = e.cands
           /\ FailedOver(e).seen = e.seen /\ FailedOver(e).done = e.done
           /\ ~FailedOver(e).acked /\ FailedOver(e).ackTimer = None
           /\ FailedOver(e).attempt = IF CanAdvance(e) THEN e.attempt + 1 ELSE e.attempt
    BY DEF FailedOver, Entry

LEMMA SentFields ==
    ASSUME NEW e \in Entry
    PROVE  /\ Sent(e).res = e.res /\ Sent(e).cands = e.cands
           /\ Sent(e).seen = e.seen /\ Sent(e).done = e.done /\ Sent(e).attempt = e.attempt
           /\ ~Sent(e).acked /\ Sent(e).ackTimer = e.generation + 1
    BY DEF Sent, Entry

LEMMA BumpedFields ==
    ASSUME NEW e, Positioned(e)
    PROVE  LET b == [e EXCEPT !.generation = @ + 1]
           IN  /\ b.res = e.res /\ b.cands = e.cands /\ b.seen = e.seen /\ b.done = e.done
               /\ b.attempt = e.attempt /\ b.generation = e.generation + 1 /\ b.late = e.late
    BY DEF Positioned, Entry

LEMMA NewEntryFields ==
    ASSUME NEW f \in Fetch
    PROVE  /\ NewEntry(f).res = fetch[f].res /\ NewEntry(f).cands = fetch[f].cands
           /\ NewEntry(f).attempt = 1 /\ NewEntry(f).seen = {} /\ NewEntry(f).done = "no"
           /\ ~NewEntry(f).acked /\ NewEntry(f).ackTimer = None
    BY DEF NewEntry

\* What sending to a candidate does to its request and to the others.
LEMMA SendKinds ==
    ASSUME RequestInv, NEW id \in Fetch, NEW e, From(e, id),
           NEW pending \in SUBSET writes, Taken(id, pending),
           SendToCandidate(id, e, pending),
           fetch'[id].pc \notin {"new", "select"}
    PROVE  /\ Sends(e, id, pending) \/ FailsOver(e, id, pending)
           /\ \A i \in Fetch \ {id} : entry'[i] = entry[i] /\ AskedSame(i) /\ NoWrite(i)
<1>0. /\ Positioned(e) /\ e \in Entry /\ e.done = "no" /\ Cand(e) \in Socket
      /\ TypeOK /\ EntriesOK(entry)
    BY EntriesTyped, CandIsSocket, NewEntryFields DEF RequestInv, From, Positioned, Live
<1>1. CASE sock[Cand(e)].state = "open"
    <2>1. /\ entry' = [entry EXCEPT ![id] = Sent(e)]
          /\ asked' = [asked EXCEPT ![Cand(e)][id] = "sent"]
          /\ writes' = pending
        BY <1>1 DEF SendToCandidate
    <2>2. entry'[id] = Sent(e) /\ \A i \in Fetch \ {id} : entry'[i] = entry[i]
        BY <1>0, <2>1 DEF EntriesOK
    <2>3. /\ Sent(e).res = e.res /\ Sent(e).cands = e.cands
          /\ Sent(e).seen = e.seen /\ Sent(e).done = "no" /\ Sent(e).attempt = e.attempt
          /\ ~Sent(e).acked
        BY <1>0, SentFields
    <2>4. entry'[id] # None
        BY <1>0, <2>2, SentType, PositionedIsEntry
    <2>5. \A s \in Socket : asked'[s][id] = IF s = Cand(e) THEN "sent" ELSE asked[s][id]
        BY <1>0, <2>1 DEF TypeOK
    <2>6. \A i \in Fetch \ {id} : AskedSame(i) /\ NoWrite(i)
        BY <1>0, <2>1 DEF TypeOK, AskedSame, NoWrite
    <2>7. Sends(e, id, pending)
        BY <2>1, <2>2, <2>3, <2>4, <2>5 DEF Sends, SameList
    <2> QED
        BY <2>2, <2>6, <2>7
<1>2. CASE sock[Cand(e)].state # "open"
    <2> DEFINE b == [e EXCEPT !.generation = @ + 1]
    <2>1. /\ entry' = [entry EXCEPT ![id] = FailedOver(b)]
          /\ writes' = pending \cup {FailoverWrite(id, b)}
          /\ asked' = asked
        BY <1>2 DEF SendToCandidate
    <2>2. /\ b.res = e.res /\ b.cands = e.cands /\ b.seen = e.seen /\ b.done = "no"
          /\ b.attempt = e.attempt /\ b.generation = e.generation + 1 /\ b.late = e.late
          /\ Positioned(b) /\ b \in Entry
        BY <1>0, BumpedFields, BumpedType DEF Positioned
    <2>3. b.generation + 1 \in Generation
        BY <2>2 DEF Entry, Generation
    <2> HIDE DEF b
    <2>4. entry'[id] = FailedOver(b) /\ \A i \in Fetch \ {id} : entry'[i] = entry[i]
        BY <1>0, <2>1 DEF EntriesOK
    <2>5. CanAdvance(b) = CanAdvance(e) /\ CandEpoch(b) = CandEpoch(e)
        BY <2>2 DEF CanAdvance, CandEpoch, Cand
    <2>6. /\ FailedOver(b).res = e.res /\ FailedOver(b).cands = e.cands
          /\ FailedOver(b).seen = e.seen /\ FailedOver(b).done = "no"
          /\ ~FailedOver(b).acked /\ FailedOver(b).ackTimer = None
          /\ FailedOver(b).attempt = IF CanAdvance(e) THEN e.attempt + 1 ELSE e.attempt
        BY <2>2, <2>5, FailedOverFields
    <2>7. entry'[id] # None
        BY <2>2, <2>4, FailedOverType, PositionedIsEntry
    <2>8. FailoverWrite(id, b) = NewWrite(id, e, b.generation + 1) /\ FailoverWrite(id, b).id = id
        BY <2>2, <2>5 DEF FailoverWrite, NewWrite
    <2>9. \E g \in Generation : \A w \in writes' : w.id = id => w \in pending \/ w = NewWrite(id, e, g)
        BY <2>1, <2>3, <2>8
    <2>10. FailsOver(e, id, pending)
        BY <1>2, <2>1, <2>4, <2>6, <2>7, <2>9 DEF FailsOver, SameList, AskedSame
    <2>11. \A i \in Fetch \ {id} : AskedSame(i) /\ NoWrite(i)
        BY <2>1, <2>8 DEF AskedSame, NoWrite
    <2> QED
        BY <2>4, <2>10, <2>11
<1> QED
    BY <1>1, <1>2

\* Requests a step does not concern.
LEMMA OthersRest ==
    ASSUME NEW i \in Fetch, entry'[i] = entry[i], AskedSame(i), NoWrite(i),
           fetch'[i] = fetch[i]
    PROVE  Kind(i)
    BY DEF Kind, Rests

LEMMA SendKind ==
    ASSUME NEW id \in Fetch, NEW e, NEW pending \in SUBSET writes,
           Sends(e, id, pending) \/ FailsOver(e, id, pending),
           fetch'[id].res = fetch[id].res
    PROVE  Kind(id)
<1>1. e \in Entry
    BY DEF Sends, FailsOver, From, Positioned
<1> QED
    BY <1>1 DEF Kind

LEMMA AnsweredRes ==
    ASSUME NEW x \in FetchState, NEW a
    PROVE  [x EXCEPT !.pc = "done", !.answer = a].res = x.res
    BY DEF FetchState

LEMMA FinishKinds ==
    ASSUME RequestInv, NEW id \in Fetch, NEW a, FinishStep(id, a), writes' \subseteq writes,
           Live(id) => ~entry[id].acked
    PROVE  \A i \in Fetch : Kind(i)
<1> SUFFICES ASSUME NEW i \in Fetch PROVE Kind(i)
    OBVIOUS
<1>1. /\ fetch[i].pc = "wait" /\ fetch[i].on = id => fetch'[i].pc = "done"
      /\ ~(fetch[i].pc = "wait" /\ fetch[i].on = id) => fetch'[i] = fetch[i]
      /\ entry'[id] = None
      /\ i # id => entry'[i] = entry[i]
      /\ asked' = asked
    BY FinishEffect
<1>2. fetch'[i].res = fetch[i].res
    <2>1. fetch[i] \in FetchState
        BY DEF RequestInv, TypeOK
    <2>2. fetch'[i] \in {fetch[i], [fetch[i] EXCEPT !.pc = "done", !.answer = a]}
        BY DEF FinishStep, Finish
    <2> QED
        BY <2>1, <2>2, AnsweredRes
<1>3. AskedSame(i) /\ NoWrite(i)
    BY <1>1 DEF AskedSame, NoWrite
<1>4. CASE i = id
    <2>1. fetch'[i].pc = "done"
        BY <1>1, <1>4 DEF RequestInv, OwnEntry, FinishStep
    <2> QED
        BY <1>1, <1>2, <1>3, <1>4, <2>1 DEF Kind, Ends
<1>5. CASE i # id
    <2>1. fetch'[i].pc \in {"new", "select"} => fetch'[i] = fetch[i]
        BY <1>1
    <2> QED
        BY <1>1, <1>2, <1>3, <1>5, <2>1 DEF Kind, Rests
<1> QED
    BY <1>4, <1>5

\* One entry changes in memory, its fetch and its writes do not.
LEMMA TurnKinds ==
    ASSUME RequestInv, NEW id \in Fetch, Turns(id), \A i \in Fetch : AskedSame(i),
           \A i \in Fetch \ {id} : entry'[i] = entry[i],
           fetch' = fetch, writes' \subseteq writes
    PROVE  \A i \in Fetch : Kind(i)
    BY OthersRest DEF Kind, NoWrite, Turns

LEMMA DeliverFields ==
    ASSUME NEW e \in Entry, NEW d, NEW x
    PROVE  LET y == [e EXCEPT !.done = d, !.seen = x]
           IN  /\ y.res = e.res /\ y.cands = e.cands /\ y.attempt = e.attempt
               /\ y.acked = e.acked /\ y.ackTimer = e.ackTimer /\ y.done = d /\ y.seen = x
    BY DEF Entry

LEMMA DeliverKinds ==
    ASSUME RequestInv, TraceInv, NEW id \in Fetch, NEW frame \in {"null", "error", "payload"},
           Live(id), Deliver(id, frame), writes' \subseteq writes,
           Settles(id),
           frame # "null" => asked[Cand(entry[id])][id] # "no",
           frame = "null" => asked' = asked,
           frame = "payload" => GateOpen /\ UNCHANGED <<deprioritized, writes>>,
           \A i \in Fetch : AskedSame(i)
    PROVE  \A i \in Fetch : Kind(i)
<1>0. /\ TypeOK /\ EntriesOK(entry) /\ entry[id] # None /\ Positioned(entry[id])
      /\ entry[id] \in Entry /\ Cand(entry[id]) \in Socket
    BY EntriesTyped, CandIsSocket DEF RequestInv, Live, EntriesOK, Positioned
<1>1. CASE frame = "null" /\ ~entry[id].acked
    <2>1. FinishStep(id, "fallback")
        BY <1>0, <1>1 DEF Deliver, FinishStep
    <2> QED
        BY <1>1, <2>1, FinishKinds
<1>2. CASE ~(frame = "null" /\ ~entry[id].acked)
    <2> DEFINE y == [entry[id] EXCEPT !.done = frame, !.seen = deprioritized[entry[id].res]]
    <2>1. entry' = [entry EXCEPT ![id].done = frame, ![id].seen = deprioritized[entry[id].res]]
          /\ UNCHANGED <<inflight, fetch>>
        BY <1>2 DEF Deliver
    <2>2. entry'[id] = y /\ \A i \in Fetch \ {id} : entry'[i] = entry[i]
        BY <1>0, <2>1 DEF EntriesOK
    <2> DEFINE e == entry[id]
    <2>3. /\ y.res = e.res /\ y.cands = e.cands /\ y.attempt = e.attempt
          /\ y.acked = e.acked /\ y.ackTimer = e.ackTimer /\ y.done = frame
          /\ y.seen = deprioritized[e.res]
        BY <1>0, DeliverFields
    <2> HIDE DEF y
    <2>4. Cand(y) = Cand(e)
        BY <2>3 DEF Cand
    <2>5. AskedOf(e, id)
        BY <1>0 DEF TraceInv, Trace
    <2>6. asked'[Cand(e)][id] = "no" <=> asked[Cand(e)][id] = "no"
        BY <1>0 DEF AskedSame
    <2>7. AskedOf(entry[id], id)'
        BY <1>2, <2>2, <2>3, <2>4, <2>5, <2>6 DEF AskedOf, Cand
    <2>8. entry'[id] # None
        <3>1. [entry[id] EXCEPT !.done = frame] \in Entry
            BY <1>0, FieldType
        <3>2. deprioritized[e.res] \in SUBSET Epoch
            BY <1>0 DEF TypeOK, Entry
        <3>3. [[entry[id] EXCEPT !.done = frame] EXCEPT !.seen = deprioritized[e.res]] \in Entry
            BY <3>1, <3>2, FieldType
        <3>4. y \in Entry
            BY <3>3, <1>0 DEF y, Entry
        <3> QED
            BY <2>2, <3>4, EntryNoneAssumption
    <2>9. frame = "payload" => Answers(id)
        BY <2>1, <2>2, <2>3 DEF Answers
    <2>10. Turns(id)
        BY <1>0, <2>1, <2>2, <2>3, <2>7, <2>8, <2>9 DEF Turns, Live
    <2> QED
        BY <2>1, <2>2, <2>10, TurnKinds
<1> QED
    BY <1>1, <1>2

-----------------------------------------------------------------------------
(* Each action, seen by each request                                        *)

LEMMA AckKinds ==
    ASSUME RequestInv, TraceInv, NEW s \in Socket, NEW id \in Fetch, Ack(s, id)
    PROVE  \A i \in Fetch : Kind(i)
<1>0. /\ TypeOK /\ EntriesOK(entry) /\ asked[s][id] = "sent"
      /\ UNCHANGED <<inflight, writes, fetch>>
    BY EntriesTyped DEF RequestInv, Ack
<1>1. \A t \in Socket, i \in Fetch : asked'[t][i] = IF t = s /\ i = id THEN "acked" ELSE asked[t][i]
    BY <1>0 DEF Ack, TypeOK
<1>2. \A i \in Fetch : AskedSame(i) /\ NoWrite(i)
    BY <1>0, <1>1 DEF AskedSame, NoWrite
<1>3. CASE ~Reaches(s, id)
    BY <1>0, <1>2, <1>3, OthersRest DEF Ack
<1>4. CASE Reaches(s, id)
    <2> DEFINE e == entry[id]
    <2>1. Live(id) /\ inflight[fetch[id].res] = id /\ Cand(e) = s
        BY <1>4 DEF Reaches
    <2>2. e \in Entry /\ Positioned(e) /\ e.done = "no" /\ e # None
        BY <1>0, <2>1 DEF Live, EntriesOK, Positioned
    <2>3. entry'[id] = Acknowledged(e) /\ \A i \in Fetch \ {id} : entry'[i] = entry[i]
        BY <1>0, <1>4, <2>1 DEF Ack, EntriesOK
    <2>4. /\ Acknowledged(e).res = e.res /\ Acknowledged(e).cands = e.cands
          /\ Acknowledged(e).seen = e.seen /\ Acknowledged(e).done = "no"
          /\ Acknowledged(e).attempt = e.attempt
          /\ Acknowledged(e).acked /\ Acknowledged(e).ackTimer = None
          /\ Acknowledged(e) \in Entry
        <3>1. [e EXCEPT !.acked = TRUE] \in Entry
            BY <2>2, FieldType
        <3>2. [[e EXCEPT !.acked = TRUE] EXCEPT !.ackTimer = None] \in Entry
            BY <3>1, FieldType
        <3> QED
            BY <2>2, <3>2 DEF Acknowledged, Entry
    <2>5. Cand(Acknowledged(e)) = s
        BY <2>1, <2>4 DEF Cand
    <2>6. AskedOf(entry[id], id)'
        BY <1>1, <2>3, <2>4, <2>5 DEF AskedOf, Cand
    <2>7. Turns(id)
        BY <1>0, <2>2, <2>3, <2>4, <2>6, EntryNoneAssumption DEF Turns, Ack
    <2> QED
        BY <1>0, <1>2, <2>3, <2>7, TurnKinds
<1> QED
    BY <1>3, <1>4

LEMMA RespondKinds ==
    ASSUME RequestInv, TraceInv, NEW s \in Socket, NEW id \in Fetch,
           NEW frame \in {"payload", "error"}, Respond(s, id, frame)
    PROVE  \A i \in Fetch : Kind(i)
<1>0. TypeOK /\ asked[s][id] = "acked" /\ writes' = writes
    BY DEF RequestInv, Respond
<1>1. \A t \in Socket, i \in Fetch : asked'[t][i] = IF t = s /\ i = id THEN "answered" ELSE asked[t][i]
    BY <1>0 DEF Respond, TypeOK
<1>2. \A i \in Fetch : AskedSame(i) /\ NoWrite(i)
    BY <1>0, <1>1 DEF AskedSame, NoWrite
<1>3. CASE ~Reaches(s, id)
    <2>1. UNCHANGED <<entry, fetch>>
        BY <1>3 DEF Respond
    <2> QED
        BY <1>2, <2>1, OthersRest
<1>4. CASE Reaches(s, id)
    <2>1. /\ Live(id) /\ Cand(entry[id]) = s /\ Deliver(id, frame)
          /\ GateOpen /\ UNCHANGED <<deprioritized, writes>>
        BY <1>4 DEF Reaches, Respond
    <2>2. Settles(id)
        BY <1>0, <1>1, <2>1 DEF Settles, Responds
    <2> QED
        BY <1>0, <1>2, <2>1, <2>2, DeliverKinds
<1> QED
    BY <1>3, <1>4

LEMMA AckTimeoutKinds ==
    ASSUME RequestInv, TraceInv, NEW id \in Fetch, AckTimeout(id)
    PROVE  \A i \in Fetch : Kind(i)
<1> DEFINE e == entry[id]
<1>0. /\ TypeOK /\ EntriesOK(entry) /\ GateOpen /\ Live(id) /\ Positioned(e) /\ e \in Entry
      /\ e # None /\ e.done = "no" /\ e.ackTimer # None
      /\ UNCHANGED <<asked, fetch>>
    BY EntriesTyped DEF RequestInv, AckTimeout, Live, EntriesOK, Positioned
<1>1. \A i \in Fetch : AskedSame(i)
    BY <1>0 DEF AskedSame
<1>2. CASE e.ackTimer = e.generation
    <2>1. entry' = [entry EXCEPT ![id] = FailedOver(e)] /\ writes' = writes \cup {FailoverWrite(id, e)}
        BY <1>0, <1>2 DEF AckTimeout, EntriesOK
    <2>2. entry'[id] = FailedOver(e) /\ \A i \in Fetch \ {id} : entry'[i] = entry[i]
        BY <1>0, <2>1 DEF EntriesOK
    <2>3. entry'[id] # None
        BY <1>0, <2>2, FailedOverType, PositionedIsEntry
    <2>4. FailoverWrite(id, e) = NewWrite(id, e, e.generation + 1) /\ FailoverWrite(id, e).id = id
        BY DEF FailoverWrite, NewWrite
    <2>5. e.generation + 1 \in Generation
        BY <1>0 DEF Entry, Generation
    <2>6. fetch'[id].pc \notin {"new", "select"}
        BY <1>0 DEF RequestInv, OwnEntry
    <2>7. FailsOver(e, id, writes)
        <3>1. \E g \in Generation : \A w \in writes' : w.id = id => w \in writes \/ w = NewWrite(id, e, g)
            BY <2>1, <2>4, <2>5
        <3>2. From(e, id)
            BY <1>0 DEF From
        <3>3. SameList(e, id)
            BY <1>0, <2>2, <2>3, FailedOverFields DEF SameList
        <3>4. /\ entry'[id].attempt = IF CanAdvance(e) THEN e.attempt + 1 ELSE e.attempt
              /\ ~entry'[id].acked /\ entry'[id].ackTimer = None /\ entry'[id].done = "no"
            BY <1>0, <2>2, FailedOverFields
        <3> QED
            BY <1>0, <1>1, <2>6, <3>1, <3>2, <3>3, <3>4 DEF FailsOver
    <2>8. Kind(id)
        BY <1>0, <2>7, SendKind
    <2>9. \A i \in Fetch \ {id} : NoWrite(i)
        BY <2>1, <2>4 DEF NoWrite
    <2> QED
        BY <1>0, <1>1, <2>2, <2>8, <2>9, OthersRest
<1>3. CASE e.ackTimer # e.generation
    <2> DEFINE y == [e EXCEPT !.ackTimer = None]
    <2>1. entry' = [entry EXCEPT ![id] = y] /\ writes' = writes
        BY <1>0, <1>3 DEF AckTimeout, EntriesOK
    <2>2. entry'[id] = y /\ \A i \in Fetch \ {id} : entry'[i] = entry[i]
        BY <1>0, <2>1 DEF EntriesOK
    <2>3. y \in Entry
        BY <1>0, FieldType
    <2>4. /\ y.res = e.res /\ y.cands = e.cands /\ y.attempt = e.attempt /\ y.seen = e.seen
          /\ y.acked = e.acked /\ y.done = "no" /\ y.ackTimer = None
        BY <1>0 DEF Entry
    <2> HIDE DEF y
    <2>5. Cand(y) = Cand(e)
        BY <2>4 DEF Cand
    <2>6. AskedOf(e, id)
        BY <1>0 DEF TraceInv, Trace
    <2>7. AskedOf(entry[id], id)'
        BY <1>0, <2>2, <2>4, <2>5, <2>6 DEF AskedOf, Cand
    <2>8. Turns(id)
        BY <1>0, <2>2, <2>3, <2>4, <2>7, EntryNoneAssumption DEF Turns
    <2> QED
        BY <1>0, <1>1, <2>1, <2>2, <2>8, TurnKinds
<1> QED
    BY <1>2, <1>3

LEMMA TimeUpKinds ==
    ASSUME RequestInv, TraceInv, NEW id \in Fetch, TimeUp(id)
    PROVE  \A i \in Fetch : Kind(i)
<1> DEFINE e == entry[id]
           y == [e EXCEPT !.late = TRUE]
<1>0. /\ TypeOK /\ EntriesOK(entry) /\ Positioned(e) /\ e \in Entry /\ e # None /\ e.done = "no"
      /\ UNCHANGED <<asked, fetch, writes>>
    BY EntriesTyped DEF RequestInv, TimeUp, Live, EntriesOK, Positioned
<1>1. entry'[id] = y /\ \A i \in Fetch \ {id} : entry'[i] = entry[i]
    BY <1>0 DEF TimeUp, EntriesOK
<1>2. y \in Entry
    BY <1>0, FieldType
<1>3. /\ y.res = e.res /\ y.cands = e.cands /\ y.attempt = e.attempt /\ y.seen = e.seen
      /\ y.acked = e.acked /\ y.done = "no" /\ y.ackTimer = e.ackTimer
    BY <1>0 DEF Entry
<1> HIDE DEF y
<1>4. AskedOf(e, id)
    BY <1>0 DEF TraceInv, Trace
<1>5. AskedOf(entry[id], id)'
    BY <1>0, <1>1, <1>3, <1>4 DEF AskedOf, Cand
<1>6. Turns(id)
    BY <1>0, <1>1, <1>2, <1>3, <1>5, EntryNoneAssumption DEF Turns
<1> QED
    BY <1>0, <1>1, <1>6, TurnKinds DEF AskedSame

LEMMA DeadlineKinds ==
    ASSUME RequestInv, TraceInv, NEW id \in Fetch, Deadline(id)
    PROVE  \A i \in Fetch : Kind(i)
    BY DeliverKinds DEF Deadline, AskedSame, Settles

LEMMA HandlerKinds ==
    ASSUME RequestInv, TraceInv, NEW s \in Socket, NEW state, GateOpen,
           sock[s].state # "open", SocketHandler(s, state)
    PROVE  \A i \in Fetch : Kind(i)
<1> SUFFICES ASSUME NEW i \in Fetch PROVE Kind(i)
    OBVIOUS
<1>0. /\ TypeOK /\ EntriesOK(entry)
      /\ UNCHANGED <<asked, fetch>>
    BY EntriesTyped DEF RequestInv, SocketHandler
<1>1. entry'[i] = IF i \in Hit(s) THEN FailedOver(entry[i]) ELSE entry[i]
    BY DEF SocketHandler
<1>w. \A w \in writes' : w \in writes \/ \E id \in Hit(s) : w = FailoverWrite(id, entry[id])
    BY DEF SocketHandler
<1>2. AskedSame(i)
    BY <1>0 DEF AskedSame
<1>3. \A id \in Hit(s) : FailoverWrite(id, entry[id]).id = id
    BY DEF FailoverWrite
<1>4. CASE i \notin Hit(s)
    <2>1. entry'[i] = entry[i] /\ fetch'[i] = fetch[i]
        BY <1>0, <1>1, <1>4
    <2>2. NoWrite(i)
        BY <1>3, <1>4, <1>w DEF NoWrite
    <2> QED
        BY <1>2, <2>1, <2>2, OthersRest
<1>5. CASE i \in Hit(s)
    <2> DEFINE e == entry[i]
    <2>1. Live(i) /\ Cand(e) = s /\ e # None /\ e.done = "no" /\ Positioned(e) /\ e \in Entry
        BY <1>0, <1>5 DEF Hit, Live, EntriesOK, Positioned
    <2>2. entry'[i] = FailedOver(e) /\ entry'[i] # None
        BY <1>1, <1>5, <2>1, FailedOverType, PositionedIsEntry
    <2>3. FailoverWrite(i, e) = NewWrite(i, e, e.generation + 1) /\ e.generation + 1 \in Generation
        BY <2>1 DEF FailoverWrite, NewWrite, Entry, Generation
    <2>4. \E g \in Generation : \A w \in writes' : w.id = i => w \in writes \/ w = NewWrite(i, e, g)
        BY <1>3, <1>w, <2>3
    <2>5. fetch'[i].pc \notin {"new", "select"}
        BY <1>0, <2>1 DEF RequestInv, OwnEntry
    <2>6. FailsOver(e, i, writes)
        <3>1. From(e, i)
            BY <2>1 DEF From
        <3>2. SameList(e, i)
            BY <2>1, <2>2, FailedOverFields DEF SameList
        <3>3. /\ entry'[i].attempt = IF CanAdvance(e) THEN e.attempt + 1 ELSE e.attempt
              /\ ~entry'[i].acked /\ entry'[i].ackTimer = None /\ entry'[i].done = "no"
            BY <2>1, <2>2, FailedOverFields
        <3> QED
            BY <1>2, <2>1, <2>4, <2>5, <3>1, <3>2, <3>3 DEF FailsOver
    <2> QED
        BY <1>0, <2>6, SendKind
<1> QED
    BY <1>4, <1>5

LEMMA WriteDoneKinds ==
    ASSUME RequestInv, TraceInv, NEW w \in writes, WriteDone(w)
    PROVE  \A i \in Fetch : Kind(i)
<1>0. TypeOK /\ EntriesOK(entry) /\ w.id \in Fetch
    BY EntriesTyped DEF RequestInv, TypeOK, Write
<1>1. CASE UNCHANGED <<inflight, entry, asked, fetch>> /\ writes' = writes \ {w}
    BY <1>1, OthersRest DEF AskedSame, NoWrite
<1>2. CASE Live(w.id) /\ Deliver(w.id, "null") /\ writes' = writes \ {w} /\ asked' = asked
    BY <1>0, <1>2, DeliverKinds DEF AskedSame, Settles
<1>3. CASE /\ Live(w.id) /\ SendToCandidate(w.id, entry[w.id], writes \ {w}) /\ w.advance
           /\ UNCHANGED <<inflight, fetch>>
    <2> DEFINE id == w.id
               pending == writes \ {w}
    <2>1. From(entry[id], id) /\ Taken(id, pending) /\ pending \in SUBSET writes /\ id \in Fetch
        BY <1>0, <1>3 DEF From, Taken, IsClaim, Live, EntriesOK
    <2>2. fetch'[id].pc \notin {"new", "select"}
        BY <1>0, <1>3 DEF RequestInv, OwnEntry, Live
    <2>3. /\ Sends(entry[id], id, pending) \/ FailsOver(entry[id], id, pending)
          /\ \A i \in Fetch \ {id} : entry'[i] = entry[i] /\ AskedSame(i) /\ NoWrite(i)
        BY <1>3, <2>1, <2>2, SendKinds
    <2>4. Kind(id)
        BY <1>3, <2>1, <2>3, SendKind
    <2> QED
        BY <1>3, <2>3, <2>4, OthersRest
<1> QED
    BY <1>1, <1>2, <1>3 DEF WriteDone

LEMMA FinaliseKinds ==
    ASSUME RequestInv, NEW id \in Fetch, Finalise(id)
    PROVE  \A i \in Fetch : Kind(i)
<1>1. /\ EntriesOK(entry) /\ Positioned(entry[id]) /\ entry[id] # None /\ ~Live(id)
      /\ UNCHANGED <<asked, writes>>
    BY EntriesTyped DEF RequestInv, Finalise, EntriesOK, Live
<1>2. PICK a \in Socket \cup {"fallback"} : FinishStep(id, a)
    <2>1. CASE Finish(id, "fallback")
        BY <1>1, <2>1 DEF FinishStep
    <2>2. CASE entry[id].done = "payload" /\ Finish(id, Cand(entry[id]))
        BY <1>1, <2>2, CandIsSocket DEF FinishStep, RequestInv, PayloadAnswered
    <2> QED
        BY <2>1, <2>2 DEF Finalise
<1> QED
    BY <1>1, <1>2, FinishKinds

LEMMA JoinedRes == ASSUME NEW x \in FetchState, NEW r, NEW id PROVE Joined(x, r, id).res = r
    BY DEF Joined, FetchState
LEMMA SelectingFields ==
    ASSUME NEW x \in FetchState, NEW r, NEW c, NEW p
    PROVE  LET y == Selecting(x, r, c, p)
           IN  y.pc = "select" /\ y.res = r /\ y.cands = c /\ y.pruned = p
    BY DEF Selecting, FetchState
LEMMA MovedRes ==
    ASSUME NEW x \in FetchState
    PROVE  /\ \A id : Started(x, id).res = x.res
           /\ Declined(x).res = x.res /\ Lost(x).res = x.res
    BY DEF Started, Declined, Lost, FetchState

LEMMA ArriveKinds ==
    ASSUME RequestInv, NEW f \in Fetch, NEW r \in Resource, Arrive(f, r)
    PROVE  \A i \in Fetch : Kind(i)
<1>0. /\ TypeOK /\ fetch[f] \in FetchState /\ fetch[f].pc = "new" /\ entry[f] = None
      /\ UNCHANGED <<entry, writes, asked>>
    BY DEF RequestInv, TypeOK, Arrive, OwnEntry
<1>1. \A i \in Fetch : AskedSame(i) /\ NoWrite(i) /\ (i # f => fetch'[i] = fetch[i])
    BY <1>0 DEF AskedSame, NoWrite, Arrive, TypeOK
<1>2. Kind(f)
    <2>1. CASE Joins(r)
        <3>1. fetch'[f] = Joined(fetch[f], r, inflight[r]) /\ inflight[r] \in Fetch
            BY <1>0, <2>1 DEF Arrive, TypeOK, Joined, Joins
        <3>2. fetch'[f].pc = "wait"
            BY <1>0, <3>1, JoinedType
        <3>3. Ends(f)
            BY <1>0, <3>2 DEF Ends, Live
        <3> QED
            BY <1>0, <1>1, <3>3 DEF Kind
    <2>2. CASE ~Joins(r)
        <3>1. PICK c \in Candidates(r) : fetch'[f] = Selecting(fetch[f], r, c, Pruned(r))
            BY <1>0, <2>2 DEF Arrive, TypeOK, Selecting
        <3>2. /\ fetch'[f].res = r /\ fetch'[f].cands = c /\ fetch'[f].pruned = Pruned(r)
            BY <1>0, <3>1, SelectingFields
        <3>3. Selects(f)
            BY <1>0, <3>2 DEF Selects
        <3> QED
            BY <1>0, <1>1, <3>3 DEF Kind
    <2> QED
        BY <2>1, <2>2
<1> QED
    BY <1>0, <1>1, <1>2, OthersRest

LEMMA StartKinds ==
    ASSUME RequestInv, NEW f \in Fetch, Start(f)
    PROVE  \A i \in Fetch : Kind(i)
<1>0. /\ TypeOK /\ fetch[f] \in FetchState /\ fetch[f].pc = "select" /\ entry[f] = None
      /\ fetch[f].res \in Resource
    BY DEF RequestInv, TypeOK, Start, OwnEntry, SelectHasResource
<1>1. CASE fetch[f].cands = <<>>
    <2>1. /\ fetch' = [fetch EXCEPT ![f] = Declined(fetch[f])]
          /\ UNCHANGED <<entry, writes, asked>>
        BY <1>0, <1>1 DEF Start, TypeOK, Declined
    <2>2. fetch'[f] = Declined(fetch[f]) /\ \A i \in Fetch \ {f} : fetch'[i] = fetch[i]
        BY <1>0, <2>1 DEF TypeOK
    <2>3. fetch'[f].pc = "done" /\ fetch'[f].res = fetch[f].res
        BY <1>0, <2>2, DeclinedType, MovedRes
    <2>4. \A i \in Fetch : AskedSame(i) /\ NoWrite(i)
        BY <2>1 DEF AskedSame, NoWrite
    <2>5. Kind(f)
        BY <1>0, <2>1, <2>3, <2>4 DEF Kind, Ends, Live
    <2> QED
        BY <2>1, <2>2, <2>4, <2>5, OthersRest
<1>2. CASE fetch[f].cands # <<>>
    <2>1. /\ fetch' = [fetch EXCEPT ![f] = Started(fetch[f], f)]
          /\ SendToCandidate(f, NewEntry(f), writes)
        BY <1>0, <1>2 DEF Start, TypeOK, Started
    <2>2. fetch'[f] = Started(fetch[f], f) /\ \A i \in Fetch \ {f} : fetch'[i] = fetch[i]
        BY <1>0, <2>1 DEF TypeOK
    <2>3. fetch'[f].pc = "wait" /\ fetch'[f].res = fetch[f].res
        BY <1>0, <2>2, StartedType, MovedRes
    <2>4. From(NewEntry(f), f) /\ Taken(f, writes)
        BY <1>0, <1>2, NewEntryType DEF From, Taken
    <2>5. /\ Sends(NewEntry(f), f, writes) \/ FailsOver(NewEntry(f), f, writes)
          /\ \A i \in Fetch \ {f} : entry'[i] = entry[i] /\ AskedSame(i) /\ NoWrite(i)
        BY <2>1, <2>3, <2>4, SendKinds
    <2>6. Kind(f)
        BY <2>3, <2>5, SendKind
    <2> QED
        BY <2>2, <2>5, <2>6, OthersRest
<1> QED
    BY <1>1, <1>2

LEMMA RestartKinds ==
    ASSUME RequestInv, Restart
    PROVE  \A i \in Fetch : Kind(i)
<1> SUFFICES ASSUME NEW i \in Fetch PROVE Kind(i)
    OBVIOUS
<1>1. /\ fetch[i] \in FetchState /\ entry'[i] = None /\ writes' = {} /\ asked' = asked
      /\ fetch'[i] = IF fetch[i].pc \in {"select", "wait"} THEN Lost(fetch[i]) ELSE fetch[i]
    BY DEF RequestInv, TypeOK, Restart, Lost
<1>2. AskedSame(i) /\ NoWrite(i)
    BY <1>1 DEF AskedSame, NoWrite
<1>3. CASE fetch[i].pc = "new"
    <2>1. entry[i] = None
        BY <1>3 DEF RequestInv, OwnEntry
    <2> QED
        BY <1>1, <1>2, <1>3, <2>1 DEF Kind, Rests
<1>4. CASE fetch[i].pc # "new"
    <2>1. fetch'[i].pc = "done" /\ fetch'[i].res = fetch[i].res
        BY <1>1, <1>4, LostType, MovedRes DEF FetchState
    <2>2. restarts' # restarts
        <3>1. restarts \in 0 .. MaxRestarts /\ MaxRestarts \in Nat
            BY FailoverAssumption DEF RequestInv, TypeOK
        <3>2. restarts' = restarts + 1
            BY DEF Restart
        <3> QED
            BY <3>1, <3>2
    <2> QED
        BY <1>1, <1>2, <2>1, <2>2 DEF Kind, Ends
<1> QED
    BY <1>3, <1>4

\* Every step is one of these kinds for every request.
LEMMA StepIsKind ==
    ASSUME RequestInv, TraceInv, [Next]_vars
    PROVE  \A i \in Fetch : Kind(i)
<1>1. CASE UNCHANGED vars
    BY <1>1, OthersRest DEF vars, AskedSame, NoWrite
<1>2. ASSUME NEW s \in Socket, Publisher(s) PROVE \A i \in Fetch : Kind(i)
    <2>1. CASE Connect(s) \/ Accept(s) \/ Hello(s) \/ Drop(s)
        BY <2>1, OthersRest DEF Connect, Accept, Hello, Drop, AskedSame, NoWrite
    <2>2. CASE Error(s) \/ Close(s)
        BY <2>2, HandlerKinds DEF Error, Close
    <2> QED
        BY <1>2, <2>1, <2>2, AckKinds, RespondKinds DEF Publisher
<1>3. ASSUME NEW f \in Fetch, Request(f) PROVE \A i \in Fetch : Kind(i)
    BY <1>3, ArriveKinds, StartKinds, AckTimeoutKinds, TimeUpKinds, DeadlineKinds, FinaliseKinds
    DEF Request
<1> QED
    BY <1>1, <1>2, <1>3, WriteDoneKinds, RestartKinds DEF Next

-----------------------------------------------------------------------------
(* The kinds of step keep the invariants                                    *)

LEMMA CandsAreSockets ==
    ASSUME NEW e, Positioned(e)
    PROVE  /\ \A j \in DOMAIN e.cands : e.cands[j] \in Socket /\ j \in Nat
           /\ e.attempt \in DOMAIN e.cands /\ e.attempt \in Nat
           /\ Cardinality(DOMAIN e.cands) \in 1 .. MaxFailover
           /\ \A j \in Nat : j \in DOMAIN e.cands <=> 1 <= j /\ j <= Cardinality(DOMAIN e.cands)
<1>1. e.cands \in CandList
    BY DEF Positioned, Entry
<1>2. PICK n \in Attempt : e.cands \in [1 .. n -> Socket] /\ Cardinality(DOMAIN e.cands) = n
    BY <1>1, Lists
<1>3. n \in Nat
    BY FailoverAssumption DEF Attempt
<1> QED
    BY <1>2, <1>3, FailoverAssumption DEF Positioned, Attempt

\* What an entry knows before it is sent or fails over.
LEMMA FromTraced ==
    ASSUME RequestInv, TraceInv, NEW id \in Fetch, NEW e, From(e, id)
    PROVE  /\ Positioned(e) /\ Distinct(e.cands) /\ Ahead(e, id) /\ e.res = fetch[id].res
           /\ e.done = "no"
           /\ fetch[id].pc # "new"
<1>1. CASE Live(id) /\ e = entry[id]
    BY <1>1 DEF From, TraceInv, Trace, Live, RequestInv, OwnEntry
<1>2. CASE fetch[id].pc = "select" /\ e = NewEntry(id)
    <2>1. /\ e.res = fetch[id].res /\ e.cands = fetch[id].cands /\ e.done = "no"
        BY <1>2, NewEntryFields
    <2>2. Distinct(fetch[id].cands) /\ \A s \in Socket : asked[s][id] = "no"
        BY <1>2 DEF TraceInv, Trace
    <2>3. Ahead(e, id)
        BY <2>2, CandsAreSockets DEF Ahead, From
    <2> QED
        BY <1>2, <2>1, <2>2, <2>3 DEF From
<1> QED
    BY <1>1, <1>2 DEF From

LEMMA SendsTraced ==
    ASSUME RequestInv, TraceInv, NEW id \in Fetch, NEW e, NEW pending,
           Sends(e, id, pending), fetch'[id].res = fetch[id].res
    PROVE  Trace(id)'
<1>1. /\ Positioned(e) /\ Distinct(e.cands) /\ Ahead(e, id) /\ e.res = fetch[id].res
    BY FromTraced DEF Sends
<1>2. /\ entry'[id].cands = e.cands /\ entry'[id].attempt = e.attempt /\ entry'[id].res = e.res
      /\ ~entry'[id].acked /\ entry'[id].done = "no"
      /\ fetch'[id].pc \notin {"new", "select"}
      /\ \A s \in Socket : asked'[s][id] = IF s = Cand(e) THEN "sent" ELSE asked[s][id]
    BY DEF Sends, SameList
<1>3. Cand(e) \in Socket /\ Cand(entry'[id]) = Cand(e)
    BY <1>1, <1>2, CandIsSocket DEF Cand
<1>4. Ahead(entry[id], id)'
    <2> SUFFICES ASSUME NEW j \in DOMAIN e.cands, j > e.attempt PROVE asked'[e.cands[j]][id] = "no"
        BY <1>2 DEF Ahead
    <2>1. e.cands[j] \in Socket /\ e.attempt \in DOMAIN e.cands /\ j \in Nat /\ e.attempt \in Nat
        BY <1>1, CandsAreSockets
    <2>2. e.cands[j] # Cand(e)
        BY <1>1, <2>1 DEF Distinct, Cand
    <2> QED
        BY <1>1, <1>2, <2>1, <2>2 DEF Ahead
<1>5. AskedOf(entry[id], id)'
    BY <1>2, <1>3 DEF AskedOf, Cand
<1>6. Distinct(entry[id].cands)'
    BY <1>1, <1>2 DEF Distinct
<1> QED
    BY <1>1, <1>2, <1>4, <1>5, <1>6 DEF Trace

LEMMA FailsOverTraced ==
    ASSUME RequestInv, TraceInv, NEW id \in Fetch, NEW e, NEW pending,
           FailsOver(e, id, pending), fetch'[id].res = fetch[id].res
    PROVE  Trace(id)'
<1>1. /\ Positioned(e) /\ Distinct(e.cands) /\ Ahead(e, id) /\ e.res = fetch[id].res
    BY FromTraced DEF FailsOver
<1>2. /\ entry'[id].cands = e.cands /\ entry'[id].res = e.res
      /\ entry'[id].attempt = IF CanAdvance(e) THEN e.attempt + 1 ELSE e.attempt
      /\ ~entry'[id].acked /\ entry'[id].done = "no" /\ entry'[id].ackTimer = None
      /\ fetch'[id].pc \notin {"new", "select"}
      /\ \A s \in Socket : asked'[s][id] = "no" <=> asked[s][id] = "no"
    BY DEF FailsOver, SameList, AskedSame
<1>3. Ahead(entry[id], id)'
    <2> SUFFICES ASSUME NEW j \in DOMAIN e.cands, j > entry'[id].attempt PROVE asked'[e.cands[j]][id] = "no"
        BY <1>2 DEF Ahead
    <2>1. e.cands[j] \in Socket /\ j \in Nat /\ e.attempt \in Nat
        BY <1>1, CandsAreSockets
    <2> QED
        BY <1>1, <1>2, <2>1 DEF Ahead
<1>4. AskedOf(entry[id], id)'
    BY <1>2 DEF AskedOf
<1>5. Distinct(entry[id].cands)'
    BY <1>1, <1>2 DEF Distinct
<1> QED
    BY <1>1, <1>2, <1>3, <1>4, <1>5 DEF Trace

LEMMA QuietTraced ==
    ASSUME RequestInv, TraceInv, NEW id \in Fetch, Kind(id), AskedSame(id), NoWrite(id),
           Rests(id) \/ Ends(id) \/ Selects(id) \/ Turns(id)
    PROVE  Trace(id)'
<1>0. Trace(id) /\ EntriesOK(entry)
    BY EntriesTyped DEF TraceInv, RequestInv
<1>1. CASE Rests(id)
    <2>1. CASE entry[id] = None
        BY <1>0, <1>1, <2>1 DEF Rests, Trace, AskedSame, NoWrite, Distinct
    <2>2. CASE entry[id] # None
        <3>1. Positioned(entry[id]) /\ fetch[id].pc = "wait" /\ fetch'[id].res = fetch[id].res
            BY <1>0, <2>2 DEF EntriesOK, RequestInv, OwnEntry, Kind
        <3>2. fetch'[id].pc \notin {"new", "select"}
            BY <1>1, <3>1 DEF Rests
        <3>3. Cand(entry[id]) \in Socket /\ entry'[id] = entry[id]
            BY <1>1, <3>1, CandIsSocket DEF Rests
        <3>4. AskedOf(entry[id], id)'
            BY <1>0, <2>2, <3>3 DEF Trace, AskedOf, AskedSame, Cand
        <3>5. Ahead(entry[id], id)'
            BY <1>0, <2>2, <3>1, <3>3, CandsAreSockets DEF Trace, Ahead, AskedSame
        <3> QED
            BY <1>0, <2>2, <3>1, <3>2, <3>3, <3>4, <3>5 DEF Trace, Distinct
    <2> QED
        BY <2>1, <2>2
<1>2. CASE Ends(id)
    BY <1>2 DEF Ends, Trace
<1>3. CASE Selects(id)
    <2>1. PICK r \in Resource : fetch'[id].cands \in Candidates(r)
        BY <1>3 DEF Selects
    <2>2. Distinct(fetch'[id].cands)
        <3> DEFINE open == Usable(r)
                   n == IF Cardinality(open) < MaxFailover THEN Cardinality(open) ELSE MaxFailover
                   c == fetch'[id].cands
        <3>1. open \subseteq Socket
            BY DEF Usable
        <3>2. n \in Nat
            BY <3>1, SocketAssumption, FS_Subset, FS_CardinalityType, FailoverAssumption
        <3>3. c \in [1 .. n -> open] /\ \A i \in 1 .. n : \A j \in i + 1 .. n : c[j] # c[i]
            BY <2>1 DEF Candidates
        <3> HIDE DEF n, c
        <3>4. Distinct(c)
            BY <3>2, <3>3 DEF Distinct
        <3> QED
            BY <3>4 DEF c
    <2> QED
        BY <1>0, <1>3, <2>2 DEF Selects, Trace, AskedSame, NoWrite, Distinct
<1>4. CASE Turns(id)
    <2>1. /\ entry[id] # None /\ Positioned(entry[id]) /\ fetch'[id] = fetch[id] /\ fetch[id].pc = "wait"
          /\ entry'[id].res = entry[id].res /\ entry'[id].cands = entry[id].cands
          /\ entry'[id].attempt = entry[id].attempt
        BY <1>0, <1>4 DEF Turns, EntriesOK, RequestInv, OwnEntry
    <2>2. Ahead(entry[id], id)'
        BY <1>0, <2>1, CandsAreSockets DEF Trace, Ahead, AskedSame
    <2>3. Distinct(entry[id].cands)'
        BY <1>0, <2>1 DEF Trace, Distinct
    <2> QED
        BY <1>0, <1>4, <2>1, <2>2, <2>3 DEF Trace, Turns
<1> QED
    BY <1>1, <1>2, <1>3, <1>4

LEMMA KindTraced ==
    ASSUME RequestInv, TraceInv, NEW id \in Fetch, Kind(id)
    PROVE  Trace(id)'
<1>1. ASSUME NEW e \in Entry, NEW pending \in SUBSET writes,
             Sends(e, id, pending) \/ FailsOver(e, id, pending)
      PROVE  Trace(id)'
    <2>1. fetch'[id].res = fetch[id].res
        BY <1>1, FromTraced DEF Kind, Sends, FailsOver
    <2> QED
        BY <1>1, <2>1, SendsTraced, FailsOverTraced
<1> QED
    BY <1>1, QuietTraced DEF Kind

LEMMA StepTraceInv == ASSUME RequestInv, TraceInv, [Next]_vars PROVE TraceInv'
    BY StepIsKind, KindTraced DEF TraceInv

LEMMA SpecTraceInv == Spec => []TraceInv
<1>1. Init => TraceInv
    BY DEF Init, TraceInv, Trace
<1>2. RequestInv /\ TraceInv /\ [Next]_vars => TraceInv'
    BY StepTraceInv
<1> QED
    BY <1>1, <1>2, SpecRequestInv, PTL DEF Spec

-----------------------------------------------------------------------------
(* Nobody is asked twice                                                    *)

Once(id) ==
    /\ entry'[id] # None /\ entry'[id].ackTimer # None
    /\ entry[id] = None \/ entry'[id].ackTimer # entry[id].ackTimer
    => asked[Cand(entry'[id])][id] = "no"

\* A send that was claimed goes to somebody new and leaves no other claim.
LEMMA TakenAlone ==
    ASSUME RequestInv, TraceInv, ClaimInv, NEW id \in Fetch, NEW e, From(e, id),
           NEW pending \in SUBSET writes, Taken(id, pending)
    PROVE  /\ asked[Cand(e)][id] = "no"
           /\ \A w \in pending : ~IsClaim(w, id)
<1>1. CASE fetch[id].pc = "select"
    BY <1>1, CandIsSocket DEF TraceInv, Trace, From, IsClaim
<1>2. CASE fetch[id].pc # "select"
    <2>1. PICK w \in writes : IsClaim(w, id) /\ w \notin pending
        BY <1>2 DEF Taken
    <2>2. e = entry[id] /\ entry[id] # None
        BY <1>2 DEF From, Live
    <2> QED
        BY <2>1, <2>2 DEF ClaimInv, Claim
<1> QED
    BY <1>1, <1>2

LEMMA SendsClaims ==
    ASSUME RequestInv, TraceInv, ClaimInv, NEW id \in Fetch, NEW e,
           NEW pending \in SUBSET writes, Sends(e, id, pending)
    PROVE  Claim(id)' /\ Once(id)
<1>1. asked[Cand(e)][id] = "no" /\ \A w \in pending : ~IsClaim(w, id)
    BY TakenAlone DEF Sends
<1>2. /\ entry'[id].cands = e.cands /\ entry'[id].attempt = e.attempt
      /\ \A w \in writes' : w.id = id => w \in pending
      /\ From(e, id)
    BY DEF Sends, SameList
<1>3. Cand(entry'[id]) = Cand(e)
    BY <1>2 DEF Cand
<1>4. Claim(id)'
    BY <1>1, <1>2 DEF Claim, IsClaim
<1> QED
    BY <1>1, <1>3, <1>4 DEF Once

LEMMA FailsOverClaims ==
    ASSUME FailoverAlone, RequestInv, TraceInv, ClaimInv, NEW id \in Fetch, NEW e,
           NEW pending \in SUBSET writes, FailsOver(e, id, pending)
    PROVE  Claim(id)' /\ Once(id)
<1>1. /\ From(e, id)
      /\ GateOpen \/ Taken(id, pending)
      /\ sock[Cand(e)].state # "open" \/ e.ackTimer # None
      /\ \A s \in Socket : asked'[s][id] = "no" <=> asked[s][id] = "no"
      /\ entry'[id].cands = e.cands
      /\ entry'[id].attempt = IF CanAdvance(e) THEN e.attempt + 1 ELSE e.attempt
      /\ entry'[id].ackTimer = None
    BY DEF FailsOver, SameList, AskedSame
<1>2. PICK g \in Generation : \A w \in writes' : w.id = id => w \in pending \/ w = NewWrite(id, e, g)
    BY DEF FailsOver
<1>3. /\ Positioned(e) /\ Ahead(e, id)
    BY <1>1, FromTraced
<1>4. NewWrite(id, e, g).advance = CanAdvance(e)
    BY DEF NewWrite
<1>5. ASSUME CanAdvance(e) PROVE Claim(id)'
    <2>1. \A w \in pending : ~IsClaim(w, id)
        <3>1. CASE Taken(id, pending)
            BY <1>1, <3>1, TakenAlone
        <3>2. CASE GateOpen /\ "request" \in Gated
            BY <3>2 DEF GateOpen
        <3>3. CASE MaxFailover <= 2 /\ fetch[id].pc # "select"
            <4>1. e = entry[id] /\ entry[id] # None
                BY <1>1, <3>3 DEF From, Live
            <4>2. e.attempt = 1
                BY <1>3, <1>5, <3>3, CandsAreSockets, FailoverAssumption DEF CanAdvance
            <4> QED
                BY <4>1, <4>2 DEF ClaimInv, Claim
        <3>4. CASE fetch[id].pc = "select"
            BY <3>4 DEF TraceInv, Trace, IsClaim
        <3> QED
            BY <1>1, <3>1, <3>2, <3>3, <3>4 DEF FailoverAlone
    <2>2. \A w \in writes' : IsClaim(w, id) => w = NewWrite(id, e, g)
        BY <1>2, <2>1 DEF IsClaim
    <2>3. e.attempt + 1 \in DOMAIN e.cands /\ e.attempt + 1 > e.attempt /\ e.attempt + 1 # 1
        BY <1>3, <1>5, CandsAreSockets DEF CanAdvance
    <2>4. asked[e.cands[e.attempt + 1]][id] = "no" /\ e.cands[e.attempt + 1] \in Socket
        BY <1>3, <2>3, CandsAreSockets DEF Ahead
    <2>5. asked'[Cand(entry'[id])][id] = "no" /\ entry'[id].attempt # 1
        BY <1>1, <1>5, <2>3, <2>4 DEF Cand
    <2> QED
        BY <2>2, <2>5 DEF Claim, Cand
<1>6. ASSUME ~CanAdvance(e) PROVE Claim(id)'
    <2>1. \A w \in writes' : IsClaim(w, id) => w \in pending /\ w \in writes
        BY <1>2, <1>4, <1>6 DEF IsClaim
    <2>2. ASSUME NEW w \in writes', IsClaim(w, id) PROVE e = entry[id] /\ entry[id] # None
        BY <1>1, <2>1, <2>2 DEF From, Live, TraceInv, Trace, IsClaim
    <2>3. ASSUME NEW w \in writes', IsClaim(w, id)
          PROVE  asked'[Cand(entry'[id])][id] = "no" /\ entry'[id].attempt # 1
        <3>1. asked[Cand(e)][id] = "no" /\ e.attempt # 1
            BY <2>1, <2>2, <2>3 DEF ClaimInv, Claim
        <3> QED
            BY <1>1, <1>3, <1>6, <3>1, CandIsSocket DEF Cand
    <2>4. \A v, w \in writes' : IsClaim(v, id) /\ IsClaim(w, id) => w = v
        BY <2>1, <2>2 DEF ClaimInv, Claim
    <2> QED
        BY <2>3, <2>4 DEF Claim, Cand
<1>7. Claim(id)'
    BY <1>5, <1>6
<1> QED
    BY <1>1, <1>7 DEF Once

LEMMA QuietClaims ==
    ASSUME RequestInv, TraceInv, ClaimInv, NEW id \in Fetch, AskedSame(id), NoWrite(id),
           Rests(id) \/ Ends(id) \/ Selects(id) \/ Turns(id)
    PROVE  Claim(id)' /\ Once(id)
<1>1. CASE Ends(id) \/ Selects(id)
    BY <1>1 DEF Ends, Selects, Claim, Once
<1>2. CASE entry[id] = None /\ Rests(id)
    BY <1>2 DEF Rests, Claim, Once
<1>3. CASE entry[id] # None /\ (Rests(id) \/ Turns(id))
    <2>1. /\ entry'[id] # None /\ entry'[id].cands = entry[id].cands
          /\ entry'[id].attempt = entry[id].attempt
          /\ entry'[id].ackTimer \in {entry[id].ackTimer, None}
          /\ entry[id].acked => entry'[id].acked
        BY <1>3 DEF Rests, Turns
    <2>2. Cand(entry'[id]) = Cand(entry[id]) /\ Cand(entry[id]) \in Socket
        BY <1>3, <2>1, EntriesTyped, CandIsSocket DEF RequestInv, EntriesOK, Cand
    <2>3. asked'[Cand(entry[id])][id] = "no" <=> asked[Cand(entry[id])][id] = "no"
        BY <2>2 DEF AskedSame
    <2>4. Claim(id)'
        BY <1>3, <2>1, <2>2, <2>3 DEF ClaimInv, Claim, IsClaim, NoWrite, Cand
    <2> QED
        BY <1>3, <2>1, <2>4 DEF Once
<1> QED
    BY <1>1, <1>2, <1>3 DEF Turns

LEMMA StepClaimInv ==
    ASSUME FailoverAlone, RequestInv, TraceInv, ClaimInv, [Next]_vars
    PROVE  ClaimInv' /\ \A id \in Fetch : Once(id)
<1>1. ASSUME NEW id \in Fetch PROVE Claim(id)' /\ Once(id)
    <2>1. Kind(id)
        BY StepIsKind
    <2> QED
        BY <2>1, SendsClaims, FailsOverClaims, QuietClaims DEF Kind
<1> QED
    BY <1>1 DEF ClaimInv

LEMMA InitClaimInv == Init => ClaimInv
    BY DEF Init, ClaimInv, Claim

LEMMA SpecClaims ==
    ASSUME FailoverAlone
    PROVE  Spec => [][\A id \in Fetch : Once(id)]_vars
<1>1. RequestInv /\ TraceInv /\ ClaimInv /\ [Next]_vars
        => ClaimInv' /\ \A id \in Fetch : Once(id)
    BY StepClaimInv
<1> QED
    BY <1>1, InitClaimInv, SpecRequestInv, SpecTraceInv, PTL DEF Spec

\* However acknowledgement timeouts, closes and failed sends coincide, a request
\* is sent to no publisher twice (startRequest: the claim in memory before the
\* storage write).  It takes the gate, or MAX_FAILOVER = 2.
THEOREM NobodyIsAskedTwice == ASSUME FailoverAlone PROVE Spec => AskedOnce
<1>1. (\A id \in Fetch : Once(id)) =>
        \A id \in Fetch :
          /\ entry'[id] # None /\ entry'[id].ackTimer # None
          /\ entry[id] = None \/ entry'[id].ackTimer # entry[id].ackTimer
          => asked[Cand(entry'[id])][id] = "no"
    BY DEF Once
<1> QED
    BY <1>1, SpecClaims, PTL DEF AskedOnce

-----------------------------------------------------------------------------
(* An acknowledgement is kept                                               *)

\* No failover of an acknowledged request is under way: one claimed before the
\* acknowledgement would give the request away, or end it, when its write is done.
AckedAlone == \A id \in Fetch : Live(id) /\ entry[id].acked => \A w \in writes : w.id # id

Kept(id) ==
    /\ Live(id) /\ entry[id].acked /\ ~entry[id].late
    /\ sock[Cand(entry[id])].state = "open" /\ restarts' = restarts
    => \/ Live(id)' /\ entry'[id].attempt = entry[id].attempt /\ entry'[id].acked
       \/ Responds(Cand(entry[id]), id)

LEMMA StepAckedAlone ==
    ASSUME "request" \in Gated, RequestInv, TraceInv, AckedAlone, [Next]_vars
    PROVE  AckedAlone'
<1> SUFFICES ASSUME NEW id \in Fetch, Live(id)', entry'[id].acked
             PROVE  \A w \in writes' : w.id # id
    BY DEF AckedAlone
<1>1. NoWrite(id) /\ (Rests(id) \/ Turns(id))
    BY StepIsKind DEF Kind, Sends, FailsOver, Ends, Selects, Live
<1>2. CASE Rests(id)
    BY <1>1, <1>2 DEF Rests, NoWrite, AckedAlone, Live
<1>3. CASE Turns(id)
    <2>1. CASE entry[id].acked
        BY <1>1, <1>3, <2>1 DEF Turns, NoWrite, AckedAlone, Live
    <2>2. CASE GateOpen
        BY <1>1, <2>2 DEF GateOpen, NoWrite
    <2> QED
        BY <1>3, <2>1, <2>2 DEF Turns
<1> QED
    BY <1>1, <1>2, <1>3

LEMMA StepKept ==
    ASSUME RequestInv, TraceInv, AckedAlone, [Next]_vars, NEW id \in Fetch
    PROVE  Kept(id)
<1> SUFFICES ASSUME Live(id), entry[id].acked, ~entry[id].late,
                    sock[Cand(entry[id])].state = "open", restarts' = restarts
             PROVE  \/ Live(id)' /\ entry'[id].attempt = entry[id].attempt /\ entry'[id].acked
                    \/ Responds(Cand(entry[id]), id)
    BY DEF Kept
<1>1. \A w \in writes : w.id # id
    BY DEF AckedAlone
<1>2. fetch[id].pc = "wait" /\ entry[id].ackTimer = None
    BY DEF RequestInv, OwnEntry, TraceInv, Trace, AskedOf, Live
<1>3. ASSUME NEW e \in Entry, NEW pending \in SUBSET writes,
             Sends(e, id, pending) \/ FailsOver(e, id, pending)
      PROVE  FALSE
    <2>1. ~Taken(id, pending)
        BY <1>1, <1>2 DEF Taken, IsClaim
    <2>2. From(e, id) /\ FailsOver(e, id, pending)
        BY <1>3, <2>1 DEF Sends, FailsOver
    <2>3. e = entry[id]
        BY <1>2, <2>2 DEF From
    <2> QED
        BY <1>2, <2>2, <2>3 DEF FailsOver
<1>4. CASE Rests(id)
    BY <1>4 DEF Rests, Live
<1>5. CASE Turns(id)
    BY <1>1, <1>5 DEF Turns, Settles, Live
<1> QED
    BY <1>2, <1>3, <1>4, <1>5, StepIsKind DEF Kind, Ends, Selects

\* A publisher that acknowledged in time and stays connected keeps the request
\* until it answers or the deadline passes (entry.onAck clears the
\* timer, entry.failover checks the generation).  It takes the gate: without it
\* the last candidate may acknowledge while the write of the failover that gave
\* up on it is pending, and the request ends when that write is done.
THEOREM AcknowledgedIsKept == ASSUME "request" \in Gated PROVE Spec => AckedIsKept
<1>1. Init => AckedAlone
    BY DEF Init, AckedAlone, Live
<1>2. RequestInv /\ TraceInv /\ AckedAlone /\ [Next]_vars => AckedAlone'
    BY StepAckedAlone
<1>3. RequestInv /\ TraceInv /\ AckedAlone /\ [Next]_vars =>
        \A id \in Fetch :
          /\ Live(id) /\ entry[id].acked /\ ~entry[id].late
          /\ sock[Cand(entry[id])].state = "open" /\ restarts' = restarts
          => \/ Live(id)' /\ entry'[id].attempt = entry[id].attempt /\ entry'[id].acked
             \/ Responds(Cand(entry[id]), id)
    BY StepKept DEF Kept
<1> QED
    BY <1>1, <1>2, <1>3, SpecRequestInv, SpecTraceInv, PTL DEF Spec, AckedIsKept

-----------------------------------------------------------------------------
(* Only a publisher that was asked is blamed                                *)

\* A socket that was accepted keeps an epoch no open socket shares.
Known(s) ==
    /\ sock[s].state \notin {"new", "accepting"}
    /\ sock[s].epoch <= publisherEpoch
    /\ \A t \in Socket \ {s} : sock[t].state = "open" => sock[t].epoch # sock[s].epoch

\* One publisher is accepted at a time: what the gate around accept provides.
AcceptInv ==
    /\ \A s \in Socket : sock[s].state = "accepting" => sock[s].epoch = publisherEpoch
    /\ \A s, t \in Socket : sock[s].state = "accepting" /\ sock[t].state = "accepting" => s = t
    /\ \A s \in Socket : sock[s].state = "open" => Known(s)

CandsKnown ==
    /\ \A f \in Fetch : fetch[f].pc = "select" =>
          \A i \in DOMAIN fetch[f].cands : Known(fetch[f].cands[i])
    /\ \A id \in Fetch : entry[id] # None =>
          \A i \in DOMAIN entry[id].cands : Known(entry[id].cands[i])

\* An epoch that may stand in a resource's deprioritised set.
Blamed(r, x) ==
    /\ x <= publisherEpoch
    /\ \A s \in Socket : sock[s].state = "open" /\ sock[s].epoch = x =>
          \E id \in Fetch : fetch[id].res = r /\ asked[s][id] # "no"

\* So it is wherever a set is kept: in storage, by a finalisation, by a failover
\* and by a fetch that selects its candidates.
BlameInv ==
    /\ \A r \in Resource : \A x \in deprioritized[r] : Blamed(r, x)
    /\ \A id \in Fetch : entry[id] # None => \A x \in entry[id].seen : Blamed(fetch[id].res, x)
    /\ \A w \in writes : \A x \in w.seen \cup {w.epoch} : Blamed(fetch[w.id].res, x)
    /\ \A f \in Fetch : fetch[f].pc = "select" => \A x \in fetch[f].pruned : Blamed(fetch[f].res, x)

\* What a step does to a socket.
SocketMoves(s) ==
    /\ sock[s].state \notin {"new", "accepting"} =>
          /\ sock'[s].state \notin {"new", "accepting"}
          /\ sock'[s].epoch = sock[s].epoch
    /\ sock'[s].state = "open" =>
          \/ sock[s].state = "open"
          \/ sock[s].state = "accepting" /\ sock'[s].epoch = publisherEpoch' /\ publisherEpoch' > publisherEpoch

SocketsMove ==
    /\ publisherEpoch' >= publisherEpoch
    /\ \A s \in Socket : SocketMoves(s)
    /\ \A s \in Socket : sock'[s].state = "accepting" => sock'[s].epoch = publisherEpoch'
    /\ \A s, t \in Socket : sock'[s].state = "accepting" /\ sock'[t].state = "accepting" => s = t

LEMMA SockFields ==
    ASSUME NEW x \in SockType
    PROVE  /\ \A st : [x EXCEPT !.state = st].state = st /\ [x EXCEPT !.state = st].epoch = x.epoch
           /\ \A st, ep : LET y == [x EXCEPT !.state = st, !.epoch = ep] IN y.state = st /\ y.epoch = ep
           /\ \A c : LET y == [x EXCEPT !.caps = c] IN y.state = x.state /\ y.epoch = x.epoch
    BY DEF SockType

LEMMA SocketsKeepMoving ==
    ASSUME TypeOK, AcceptInv, UNCHANGED <<sock, publisherEpoch>>
    PROVE  SocketsMove
    BY DEF SocketsMove, SocketMoves, AcceptInv, TypeOK, Epoch

LEMMA OneSocketMoves ==
    ASSUME TypeOK, AcceptInv, "accept" \in Gated, NEW s \in Socket,
           \/ Connect(s) \/ Accept(s) \/ Hello(s) \/ Drop(s) \/ Error(s) \/ Close(s)
    PROVE  SocketsMove
<1>0. /\ sock \in [Socket -> SockType] /\ sock[s] \in SockType
      /\ publisherEpoch \in Nat /\ sock[s].epoch \in Nat
    BY DEF TypeOK, SockType, Epoch
<1>1. CASE Connect(s)
    <2>1. /\ sock'[s] = [sock[s] EXCEPT !.state = "accepting", !.epoch = publisherEpoch]
          /\ \A t \in Socket \ {s} : sock'[t] = sock[t]
          /\ publisherEpoch' = publisherEpoch /\ sock[s].state = "new"
          /\ \A t \in Socket : sock[t].state # "accepting"
        BY <1>0, <1>1 DEF Connect, GateOpen
    <2>2. sock'[s].state = "accepting" /\ sock'[s].epoch = publisherEpoch
        BY <1>0, <2>1, SockFields
    <2>3. \A t \in Socket : SocketMoves(t)
        BY <1>0, <2>1, <2>2 DEF SocketMoves
    <2>4. publisherEpoch' >= publisherEpoch
        BY <1>0, <2>1
    <2>5. \A t \in Socket : sock'[t].state = "accepting" => t = s
        BY <2>1
    <2> QED
        BY <2>1, <2>2, <2>3, <2>4, <2>5 DEF SocketsMove
<1>2. CASE Accept(s)
    <2>1. /\ publisherEpoch' = sock[s].epoch + 1
          /\ sock'[s] = [sock[s] EXCEPT !.state = "open", !.epoch = publisherEpoch']
          /\ \A t \in Socket \ {s} : sock'[t] = sock[t]
          /\ sock[s].state = "accepting" /\ sock[s].epoch = publisherEpoch
        BY <1>0, <1>2 DEF Accept, NextEpoch, AcceptInv
    <2>2. sock'[s].state = "open" /\ sock'[s].epoch = publisherEpoch'
        BY <1>0, <2>1, SockFields
    <2>3. \A t \in Socket \ {s} : sock'[t].state # "accepting"
        BY <2>1 DEF AcceptInv
    <2>4. publisherEpoch' > publisherEpoch /\ publisherEpoch' >= publisherEpoch
        BY <1>0, <2>1
    <2>5. \A t \in Socket : SocketMoves(t)
        BY <2>1, <2>2, <2>4 DEF SocketMoves
    <2>6. \A t \in Socket : sock'[t].state # "accepting"
        BY <2>2, <2>3
    <2> QED
        BY <2>4, <2>5, <2>6 DEF SocketsMove
<1>3. ASSUME NEW y \in SockType, sock' = [sock EXCEPT ![s] = y], y.epoch = sock[s].epoch,
             \/ y.state = sock[s].state
             \/ /\ sock[s].state \notin {"new", "accepting"}
                /\ y.state \notin {"new", "accepting", "open"},
             publisherEpoch' = publisherEpoch
      PROVE  SocketsMove
    <2>1. sock'[s] = y /\ \A t \in Socket \ {s} : sock'[t] = sock[t]
        BY <1>0, <1>3
    <2> QED
        BY <1>0, <1>3, <2>1 DEF SocketsMove, SocketMoves, AcceptInv
<1>4. CASE Hello(s)
    <2>1. PICK caps \in Capability : sock' = [sock EXCEPT ![s].caps = caps]
        BY <1>4 DEF Hello
    <2> DEFINE y == [sock[s] EXCEPT !.caps = caps]
    <2>2. sock' = [sock EXCEPT ![s] = y] /\ y.state = sock[s].state /\ y.epoch = sock[s].epoch
        BY <1>0, <2>1, SockFields
    <2>3. y \in SockType
        BY <1>0, CapabilityAssumption DEF SockType
    <2> HIDE DEF y
    <2> QED
        BY <1>3, <1>4, <2>2, <2>3 DEF Hello
<1>5. ASSUME NEW st \in {"closing", "errored", "closed"}, sock' = [sock EXCEPT ![s].state = st],
             sock[s].state \notin {"new", "accepting"}, publisherEpoch' = publisherEpoch
      PROVE  SocketsMove
    <2> DEFINE y == [sock[s] EXCEPT !.state = st]
    <2>1. sock' = [sock EXCEPT ![s] = y] /\ y.state = st /\ y.epoch = sock[s].epoch
        BY <1>0, <1>5, SockFields
    <2>2. y \in SockType
        BY <1>0, <1>5 DEF SockType, SockState
    <2> HIDE DEF y
    <2> QED
        BY <1>3, <1>5, <2>1, <2>2
<1>6. CASE Drop(s)
    BY <1>5, <1>6 DEF Drop
<1>7. CASE Error(s)
    BY <1>5, <1>7 DEF Error, SocketHandler
<1>8. CASE Close(s)
    BY <1>5, <1>8 DEF Close, SocketHandler
<1> QED
    BY <1>1, <1>2, <1>4, <1>6, <1>7, <1>8

LEMMA StepSocketsMove ==
    ASSUME TypeOK, AcceptInv, "accept" \in Gated, [Next]_vars
    PROVE  SocketsMove
<1>1. CASE UNCHANGED vars
    BY <1>1, SocketsKeepMoving DEF vars
<1>2. ASSUME NEW f \in Fetch, Request(f) PROVE SocketsMove
    BY <1>2, SocketsKeepMoving DEF Request, Arrive, Start, AckTimeout, TimeUp, Deadline, Finalise
<1>3. ASSUME NEW s \in Socket, Publisher(s) PROVE SocketsMove
    <2>1. CASE \E id \in Fetch : Ack(s, id)
        BY <2>1, SocketsKeepMoving DEF Ack
    <2>2. CASE \E id \in Fetch, frame \in {"payload", "error"} : Respond(s, id, frame)
        BY <2>2, SocketsKeepMoving DEF Respond
    <2> QED
        BY <1>3, <2>1, <2>2, OneSocketMoves DEF Publisher
<1>4. ASSUME NEW w \in writes, WriteDone(w) PROVE SocketsMove
    BY <1>4, SocketsKeepMoving DEF WriteDone
<1>5. CASE Restart
    <2>1. publisherEpoch' = publisherEpoch /\ publisherEpoch \in Nat
        BY <1>5 DEF Restart, TypeOK, Epoch
    <2>2. ASSUME NEW s \in Socket
          PROVE  /\ sock'[s].epoch = sock[s].epoch
                 /\ sock'[s].state = IF sock[s].state = "new" THEN "new" ELSE "closed"
        <3>1. sock[s] \in SockType
            BY DEF TypeOK, SockType
        <3>2. sock'[s] = IF sock[s].state = "new" THEN sock[s] ELSE [sock[s] EXCEPT !.state = "closed"]
            BY <1>5 DEF Restart
        <3> QED
            BY <3>1, <3>2, SockFields
    <2> QED
        BY <2>1, <2>2 DEF SocketsMove, SocketMoves
<1> QED
    BY <1>1, <1>2, <1>3, <1>4, <1>5 DEF Next

LEMMA KnownStays ==
    ASSUME TypeOK, TypeOK', SocketsMove, NEW s \in Socket, Known(s)
    PROVE  Known(s)'
<1>1. /\ publisherEpoch \in Nat /\ publisherEpoch' \in Nat
      /\ \A t \in Socket : sock[t].epoch \in Nat /\ sock'[t].epoch \in Nat
    BY DEF TypeOK, Epoch
<1>2. /\ sock'[s].state \notin {"new", "accepting"} /\ sock'[s].epoch = sock[s].epoch
      /\ sock[s].epoch <= publisherEpoch /\ publisherEpoch <= publisherEpoch'
    BY <1>1 DEF SocketsMove, SocketMoves, Known
<1>3. ASSUME NEW t \in Socket \ {s}, sock'[t].state = "open" PROVE sock'[t].epoch # sock'[s].epoch
    <2>1. CASE sock[t].state = "open"
        BY <1>2, <2>1 DEF SocketsMove, SocketMoves, Known
    <2>2. CASE sock'[t].epoch = publisherEpoch' /\ publisherEpoch' > publisherEpoch
        BY <1>1, <1>2, <2>2
    <2> QED
        BY <1>3, <2>1, <2>2 DEF SocketsMove, SocketMoves
<1> QED
    BY <1>1, <1>2, <1>3 DEF Known

LEMMA AcceptInvStays ==
    ASSUME TypeOK, TypeOK', AcceptInv, SocketsMove
    PROVE  AcceptInv'
<1>1. /\ publisherEpoch \in Nat /\ publisherEpoch' \in Nat
      /\ \A t \in Socket : sock[t].epoch \in Nat /\ sock'[t].epoch \in Nat
    BY DEF TypeOK, Epoch
<1>2. ASSUME NEW s \in Socket, sock'[s].state = "open" PROVE Known(s)'
    <2>1. CASE sock[s].state = "open"
        BY <2>1, KnownStays DEF AcceptInv
    <2>2. CASE /\ sock[s].state = "accepting"
               /\ sock'[s].epoch = publisherEpoch' /\ publisherEpoch' > publisherEpoch
        <3>1. ASSUME NEW t \in Socket \ {s}, sock'[t].state = "open" PROVE sock'[t].epoch # sock'[s].epoch
            <4>1. sock[t].state = "open"
                BY <2>2, <3>1 DEF SocketsMove, SocketMoves, AcceptInv
            <4>2. sock[t].epoch <= publisherEpoch /\ sock'[t].epoch = sock[t].epoch
                BY <4>1 DEF SocketsMove, SocketMoves, AcceptInv, Known
            <4> QED
                BY <1>1, <2>2, <4>2
        <3> QED
            BY <1>1, <1>2, <2>2, <3>1 DEF Known
    <2> QED
        BY <1>2, <2>1, <2>2 DEF SocketsMove, SocketMoves
<1> QED
    BY <1>2 DEF AcceptInv, SocketsMove

\* Who was asked stays asked, for the same resource.
LEMMA AskedStays ==
    ASSUME RequestInv, TraceInv, NEW id \in Fetch, Kind(id), NEW s \in Socket, asked[s][id] # "no"
    PROVE  asked'[s][id] # "no" /\ fetch'[id].res = fetch[id].res
<1>1. fetch[id].pc # "new"
    BY DEF TraceInv, Trace
<1> QED
    BY <1>1 DEF Kind, Sends, FailsOver, AskedSame

LEMMA BlamedStays ==
    ASSUME RequestInv, RequestInv', TraceInv, SocketsMove, \A id \in Fetch : Kind(id),
           NEW r, NEW x \in Epoch, Blamed(r, x)
    PROVE  Blamed(r, x)'
<1>1. /\ publisherEpoch \in Nat /\ publisherEpoch' \in Nat /\ x \in Nat
      /\ \A t \in Socket : sock[t].epoch \in Nat /\ sock'[t].epoch \in Nat
    BY DEF RequestInv, TypeOK, Epoch
<1>2. x <= publisherEpoch'
    BY <1>1 DEF Blamed, SocketsMove
<1>3. ASSUME NEW s \in Socket, sock'[s].state = "open", sock'[s].epoch = x
      PROVE  \E id \in Fetch : fetch'[id].res = r /\ asked'[s][id] # "no"
    <2>1. sock[s].state = "open" /\ sock[s].epoch = x
        BY <1>1, <1>3 DEF Blamed, SocketsMove, SocketMoves
    <2>2. PICK id \in Fetch : fetch[id].res = r /\ asked[s][id] # "no"
        BY <2>1 DEF Blamed
    <2> QED
        BY <2>2, AskedStays
<1> QED
    BY <1>2, <1>3 DEF Blamed

\* The candidates of an entry that is sent or fails over are known.
LEMMA FromKnown ==
    ASSUME CandsKnown, NEW id \in Fetch, NEW e, From(e, id)
    PROVE  \A i \in DOMAIN e.cands : Known(e.cands[i])
    BY NewEntryFields DEF CandsKnown, From, Live

LEMMA CandsStayKnown ==
    ASSUME RequestInv, RequestInv', TraceInv, AcceptInv, CandsKnown, SocketsMove,
           \A id \in Fetch : Kind(id)
    PROVE  CandsKnown'
<1>0. TypeOK /\ TypeOK' /\ EntriesOK(entry)
    BY EntriesTyped DEF RequestInv
<1>1. ASSUME NEW id \in Fetch, entry'[id] # None, NEW i \in DOMAIN entry'[id].cands
      PROVE  Known(entry[id].cands[i])'
    <2>1. PICK e : /\ Positioned(e) /\ e.cands = entry'[id].cands
                   /\ \A j \in DOMAIN e.cands : Known(e.cands[j])
        <3>1. CASE \E e \in Entry, pending \in SUBSET writes : Sends(e, id, pending) \/ FailsOver(e, id, pending)
            <4>1. PICK e \in Entry, pending \in SUBSET writes : Sends(e, id, pending) \/ FailsOver(e, id, pending)
                BY <3>1
            <4>2. From(e, id) /\ e.cands = entry'[id].cands
                BY <4>1 DEF Sends, FailsOver, SameList
            <4> QED
                BY <4>2, FromKnown DEF From
        <3>2. CASE Rests(id) \/ Turns(id)
            BY <1>0, <1>1, <3>2 DEF Rests, Turns, CandsKnown, EntriesOK
        <3> QED
            BY <1>1, <3>1, <3>2 DEF Kind, Ends, Selects
    <2>2. e.cands[i] \in Socket /\ Known(e.cands[i])
        BY <1>1, <2>1, CandsAreSockets
    <2>3. Known(e.cands[i])'
        <3>1. PICK s \in Socket : s = e.cands[i]
            BY <2>2
        <3>2. Known(s)'
            BY <1>0, <2>2, <3>1, KnownStays
        <3> QED
            BY <3>1, <3>2 DEF Known
    <2> QED
        BY <2>1, <2>3 DEF Known
<1>2. ASSUME NEW f \in Fetch, fetch'[f].pc = "select", NEW i \in DOMAIN fetch'[f].cands
      PROVE  Known(fetch[f].cands[i])'
    <2>1. fetch'[f].cands[i] \in Socket /\ Known(fetch'[f].cands[i])
        <3>1. CASE fetch'[f] = fetch[f]
            <4>1. fetch[f].cands \in {<<>>} \cup CandList
                BY <1>0 DEF TypeOK, FetchState
            <4>2. fetch[f].cands[i] \in Socket
                <5>1. CASE fetch[f].cands = <<>>
                    <6>1. DOMAIN <<>> = {}
                        OBVIOUS
                    <6> QED
                        BY <1>2, <3>1, <5>1, <6>1
                <5>2. CASE fetch[f].cands \in CandList
                    BY <1>2, <3>1, <5>2, Lists
                <5> QED
                    BY <4>1, <5>1, <5>2
            <4> QED
                BY <1>2, <3>1, <4>2 DEF CandsKnown
        <3>2. CASE Selects(f)
            <4>1. PICK r \in Resource : fetch'[f].cands \in Candidates(r)
                BY <3>2 DEF Selects
            <4>2. fetch'[f].cands[i] \in Usable(r)
                BY <1>2, <4>1 DEF Candidates
            <4> QED
                BY <4>2 DEF Usable, AcceptInv
        <3> QED
            BY <1>2, <3>1, <3>2 DEF Kind, Sends, FailsOver, Rests, Ends, Turns
    <2>2. PICK s \in Socket : s = fetch'[f].cands[i]
        BY <2>1
    <2>3. Known(s)'
        BY <1>0, <2>1, <2>2, KnownStays
    <2> QED
        BY <2>2, <2>3 DEF Known
<1> QED
    BY <1>1, <1>2 DEF CandsKnown

\* The publisher a failover or a finalisation blames.
LEMMA CandBlamed ==
    ASSUME RequestInv, TraceInv, NEW id \in Fetch, NEW e, Positioned(e), Known(Cand(e)),
           sock[Cand(e)].state = "open" => asked[Cand(e)][id] # "no"
    PROVE  Blamed(fetch[id].res, CandEpoch(e)) /\ CandEpoch(e) \in Epoch
<1>1. PICK c \in Socket : c = Cand(e)
    BY CandIsSocket
<1>2. \A s \in Socket : sock[s].state = "open" /\ sock[s].epoch = CandEpoch(e) => s = c
    BY <1>1 DEF Known, CandEpoch
<1>3. CandEpoch(e) \in Epoch
    BY <1>1 DEF RequestInv, TypeOK, CandEpoch
<1> QED
    BY <1>1, <1>2, <1>3 DEF Blamed, Known, CandEpoch

LEMMA NewWriteBlamed ==
    ASSUME RequestInv, TraceInv, CandsKnown, BlameInv, NEW id \in Fetch, NEW e,
           NEW pending, FailsOver(e, id, pending), NEW g
    PROVE  \A x \in NewWrite(id, e, g).seen \cup {NewWrite(id, e, g).epoch} :
              Blamed(fetch[id].res, x) /\ x \in Epoch
<1>1. From(e, id) /\ (sock[Cand(e)].state # "open" \/ e.ackTimer # None)
    BY DEF FailsOver
<1>2. Positioned(e) /\ e.res = fetch[id].res /\ e.res \in Resource
    BY <1>1, FromTraced, PositionedIsEntry
<1>3. Known(Cand(e))
    BY <1>1, <1>2, FromKnown, CandsAreSockets DEF Cand
<1>4. sock[Cand(e)].state = "open" => asked[Cand(e)][id] # "no"
    <2>1. ASSUME e.ackTimer # None PROVE e = entry[id] /\ entry[id] # None
        BY <1>1, <2>1, NewEntryFields DEF From, Live
    <2> QED
        BY <1>1, <2>1 DEF TraceInv, Trace, AskedOf
<1>5. Blamed(fetch[id].res, CandEpoch(e)) /\ CandEpoch(e) \in Epoch
    BY <1>2, <1>3, <1>4, CandBlamed
<1>6. \A x \in deprioritized[e.res] : Blamed(e.res, x) /\ x \in Epoch
    BY <1>2 DEF BlameInv, RequestInv, TypeOK
<1>7. NewWrite(id, e, g).seen = deprioritized[e.res] /\ NewWrite(id, e, g).epoch = CandEpoch(e)
    BY DEF NewWrite
<1> QED
    BY <1>2, <1>5, <1>6, <1>7

\* What a step writes to storage.
LEMMA StoredBlamed ==
    ASSUME RequestInv, TraceInv, CandsKnown, BlameInv, [Next]_vars, NEW r \in Resource,
           NEW x \in deprioritized'[r]
    PROVE  Blamed(r, x)
<1>0. TypeOK /\ EntriesOK(entry) /\ deprioritized \in [Resource -> SUBSET Epoch]
    BY EntriesTyped DEF RequestInv, TypeOK
<1>1. ASSUME x \in deprioritized[r] PROVE Blamed(r, x)
    BY <1>1 DEF BlameInv
<1>2. CASE deprioritized' = deprioritized
    BY <1>1, <1>2
<1>3. ASSUME NEW f \in Fetch, Start(f) PROVE Blamed(r, x)
    <2>1. /\ fetch[f].pc = "select" /\ fetch[f].res \in Resource
          /\ deprioritized' = [deprioritized EXCEPT ![fetch[f].res] = fetch[f].pruned]
        BY <1>3 DEF Start, RequestInv, SelectHasResource
    <2>2. CASE r = fetch[f].res
        BY <1>0, <2>1, <2>2 DEF BlameInv
    <2>3. CASE r # fetch[f].res
        BY <1>0, <1>1, <2>1, <2>3
    <2> QED
        BY <2>2, <2>3
<1>4. ASSUME NEW w \in writes, WriteDone(w) PROVE Blamed(r, x)
    <2>1. CASE deprioritized' = [deprioritized EXCEPT ![fetch[w.id].res] = w.seen \cup {w.epoch}]
        <3>1. CASE r = fetch[w.id].res
            BY <1>0, <2>1, <3>1 DEF BlameInv
        <3>2. CASE r # fetch[w.id].res
            BY <1>0, <1>1, <2>1, <3>2
        <3> QED
            BY <3>1, <3>2
    <2> QED
        BY <1>2, <1>4, <2>1 DEF WriteDone
<1>5. ASSUME NEW id \in Fetch, Finalise(id) PROVE Blamed(r, x)
    <2> DEFINE e == entry[id]
    <2>1. /\ e # None /\ e.done # "no" /\ Positioned(e) /\ e \in Entry /\ e.res = fetch[id].res
          /\ e.res \in Resource /\ AskedOf(e, id)
        BY <1>0, <1>5, PositionedIsEntry DEF Finalise, EntriesOK, TraceInv, Trace
    <2>2. Known(Cand(e))
        BY <2>1, CandsAreSockets DEF CandsKnown, Cand
    <2>3. ASSUME x \in Judged(e) PROVE Blamed(e.res, x)
        <3>1. \A y \in e.seen \cup deprioritized[e.res] : Blamed(e.res, y)
            BY <2>1 DEF BlameInv
        <3>2. ASSUME e.done # "payload" PROVE Blamed(e.res, CandEpoch(e))
            <4>1. asked[Cand(e)][id] # "no"
                BY <2>1, <3>2 DEF AskedOf, Entry
            <4> QED
                BY <2>1, <2>2, <4>1, CandBlamed
        <3> QED
            BY <2>3, <3>1, <3>2 DEF Judged
    <2>4. CASE deprioritized' = [deprioritized EXCEPT ![e.res] = Judged(e)]
        <3>1. CASE r = e.res
            BY <1>0, <2>1, <2>3, <2>4, <3>1
        <3>2. CASE r # e.res
            BY <1>0, <1>1, <2>4, <3>2
        <3> QED
            BY <3>1, <3>2
    <2> QED
        BY <1>2, <1>5, <2>4 DEF Finalise
<1>6. ASSUME NEW f \in Fetch, Request(f) PROVE Blamed(r, x)
    BY <1>2, <1>3, <1>5, <1>6 DEF Request, Arrive, AckTimeout, TimeUp, Deadline
<1>7. ASSUME NEW s \in Socket, Publisher(s) PROVE Blamed(r, x)
    BY <1>2, <1>7 DEF Publisher, Connect, Accept, Hello, Drop, Error, Close, SocketHandler, Ack, Respond
<1> QED
    BY <1>2, <1>4, <1>6, <1>7 DEF Next, Restart, vars

LEMMA StepBlameInv ==
    ASSUME RequestInv, RequestInv', TraceInv, AcceptInv, CandsKnown, BlameInv,
           "accept" \in Gated, [Next]_vars
    PROVE  AcceptInv' /\ CandsKnown' /\ BlameInv'
<1>0. TypeOK /\ TypeOK' /\ EntriesOK(entry) /\ EntriesOK(entry)'
    <2>1. TypeOK' => EntriesOK(entry)'
        BY DEF TypeOK, EntriesOK, Positioned
    <2> QED
        BY <2>1, EntriesTyped DEF RequestInv
<1>1. SocketsMove /\ \A id \in Fetch : Kind(id)
    BY <1>0, StepSocketsMove, StepIsKind
<1>2. AcceptInv' /\ CandsKnown'
    BY <1>0, <1>1, AcceptInvStays, CandsStayKnown
<1>3. ASSUME NEW r, NEW x \in Epoch, Blamed(r, x) PROVE Blamed(r, x)'
    BY <1>1, <1>3, BlamedStays
<1>f. ASSUME NEW f \in Fetch, NEW x \in Epoch, Blamed(fetch'[f].res, x)
      PROVE  Blamed(fetch[f].res, x)'
    <2>1. PICK r : r = fetch'[f].res
        OBVIOUS
    <2>2. Blamed(r, x)'
        BY <1>3, <1>f, <2>1
    <2> QED
        BY <2>1, <2>2 DEF Blamed
<1>4. \A r \in Resource : \A x \in deprioritized'[r] : Blamed(r, x)'
    <2> SUFFICES ASSUME NEW r \in Resource, NEW x \in deprioritized'[r] PROVE Blamed(r, x)'
        OBVIOUS
    <2>1. Blamed(r, x) /\ x \in Epoch
        BY <1>0, StoredBlamed DEF TypeOK
    <2> QED
        BY <1>3, <2>1
<1>5. \A id \in Fetch : entry'[id] # None => \A x \in entry'[id].seen : Blamed(fetch[id].res, x)'
    <2> SUFFICES ASSUME NEW id \in Fetch, entry'[id] # None, NEW x \in entry'[id].seen
                 PROVE  Blamed(fetch[id].res, x)'
        OBVIOUS
    <2>1. Blamed(fetch[id].res, x) /\ x \in Epoch /\ fetch[id].pc # "new"
        <3>1. CASE \E e \in Entry, pending \in SUBSET writes : Sends(e, id, pending) \/ FailsOver(e, id, pending)
            <4>1. PICK e \in Entry, pending \in SUBSET writes : Sends(e, id, pending) \/ FailsOver(e, id, pending)
                BY <3>1
            <4>2. From(e, id) /\ e.seen = entry'[id].seen
                BY <4>1 DEF Sends, FailsOver, SameList
            <4>3. e = entry[id] /\ entry[id] # None
                BY <4>2, NewEntryFields DEF From, Live
            <4> QED
                BY <4>2, <4>3, FromTraced DEF BlameInv, Entry
        <3>2. CASE Rests(id) \/ Turns(id)
            <4>1. /\ entry[id] # None /\ Positioned(entry[id]) /\ entry[id] \in Entry
                  /\ entry[id].res = fetch[id].res /\ entry[id].res \in Resource
                  /\ fetch[id].pc = "wait"
                BY <1>0, <3>2, PositionedIsEntry
                DEF Rests, Turns, EntriesOK, TraceInv, Trace, RequestInv, OwnEntry
            <4>2. x \in entry[id].seen \/ x \in deprioritized[entry[id].res]
                BY <3>2 DEF Rests, Turns
            <4>3. entry[id].seen \subseteq Epoch /\ deprioritized[entry[id].res] \subseteq Epoch
                BY <1>0, <4>1 DEF Entry, TypeOK
            <4> QED
                BY <4>1, <4>2, <4>3 DEF BlameInv
        <3> QED
            BY <1>1, <3>1, <3>2 DEF Kind, Ends, Selects
    <2>2. fetch'[id].res = fetch[id].res
        BY <1>1, <2>1 DEF Kind
    <2> QED
        BY <1>f, <2>1, <2>2
<1>6. \A w \in writes' : \A x \in w.seen \cup {w.epoch} : Blamed(fetch[w.id].res, x)'
    <2> SUFFICES ASSUME NEW w \in writes', NEW x \in w.seen \cup {w.epoch}
                 PROVE  Blamed(fetch[w.id].res, x)'
        OBVIOUS
    <2>1. w \in Write /\ w.id \in Fetch /\ x \in Epoch
        BY <1>0 DEF TypeOK, Write
    <2>2. CASE w \in writes
        <3>1. fetch[w.id].pc # "new"
            BY <2>1, <2>2 DEF TraceInv, Trace
        <3>2. fetch'[w.id].res = fetch[w.id].res /\ Blamed(fetch[w.id].res, x)
            BY <1>1, <2>1, <2>2, <3>1 DEF Kind, BlameInv
        <3> QED
            BY <1>f, <2>1, <3>2
    <2>3. CASE w \notin writes
        <3> DEFINE id == w.id
        <3>1. PICK e \in Entry, pending \in SUBSET writes : FailsOver(e, id, pending)
            BY <1>1, <2>1, <2>3 DEF Kind, Sends, NoWrite
        <3>2. PICK g \in Generation : w \in pending \/ w = NewWrite(id, e, g)
            BY <3>1 DEF FailsOver
        <3>3. w = NewWrite(id, e, g)
            BY <2>3, <3>2
        <3>4. Blamed(fetch[id].res, x)
            BY <2>1, <3>1, <3>3, NewWriteBlamed
        <3>5. fetch[id].pc # "new"
            BY <2>1, <3>1, FromTraced DEF FailsOver
        <3>6. fetch'[id].res = fetch[id].res
            BY <1>1, <2>1, <3>5 DEF Kind
        <3> QED
            BY <1>f, <2>1, <3>4, <3>6
    <2> QED
        BY <2>2, <2>3
<1>7. \A f \in Fetch : fetch'[f].pc = "select" => \A x \in fetch'[f].pruned : Blamed(fetch[f].res, x)'
    <2> SUFFICES ASSUME NEW f \in Fetch, fetch'[f].pc = "select", NEW x \in fetch'[f].pruned
                 PROVE  Blamed(fetch[f].res, x)'
        OBVIOUS
    <2>1. x \in Epoch
        BY <1>0 DEF TypeOK, FetchState
    <2>2. Blamed(fetch'[f].res, x)
        <3>1. CASE fetch'[f] = fetch[f]
            BY <3>1 DEF BlameInv
        <3>2. CASE Selects(f)
            BY <3>2 DEF Selects, Pruned, BlameInv
        <3> QED
            BY <1>1, <3>1, <3>2 DEF Kind, Sends, FailsOver, Rests, Ends, Turns
    <2> QED
        BY <1>f, <2>1, <2>2
<1>8. BlameInv'
    BY <1>4, <1>5, <1>6, <1>7 DEF BlameInv
<1> QED
    BY <1>2, <1>8

\* Only a publisher that was asked for a resource is deprioritised for it: no
\* epoch is given out twice, and no failover or finalisation blames a candidate
\* it has not reached (acceptPublisher, addDeprioritized), through every restart.
THEOREM BlameIsDeserved == ASSUME "accept" \in Gated PROVE Spec => []BlameDeserved
<1>1. Init => AcceptInv /\ CandsKnown /\ BlameInv
    BY DEF Init, AcceptInv, CandsKnown, BlameInv
<1>2. RequestInv /\ RequestInv' /\ TraceInv /\ AcceptInv /\ CandsKnown /\ BlameInv /\ [Next]_vars
        => AcceptInv' /\ CandsKnown' /\ BlameInv'
    BY StepBlameInv
<1>3. BlameInv => BlameDeserved
    BY DEF BlameInv, BlameDeserved, Blamed
<1> QED
    BY <1>1, <1>2, <1>3, SpecRequestInv, SpecTraceInv, PTL DEF Spec

-----------------------------------------------------------------------------
(* The publisher that answered is in good standing                          *)

\* A fetch waits for a request of its own resource.
WaitsForOwn == \A f \in Fetch : fetch[f].pc = "wait" => entry[fetch[f].on].res = fetch[f].res

\* While a payload is on its way out, nothing else can change the set it read.
PayloadAlone ==
    \A id \in Fetch : entry[id] # None /\ entry[id].done = "payload" =>
        /\ entry[id].seen = deprioritized[entry[id].res]
        /\ writes = {}
        /\ \A f \in Fetch : fetch[f].pc # "select"
        /\ \A j \in Fetch \ {id} : entry[j] # None => entry[j].done = "no"

RehabInv == WaitsForOwn /\ PayloadAlone

\* How a fetch comes to wait.
LEMMA WaitStep ==
    ASSUME RequestInv, [Next]_vars, NEW f \in Fetch, fetch'[f].pc = "wait"
    PROVE  \/ fetch[f].pc = "wait" /\ fetch'[f] = fetch[f]
           \/ fetch'[f].on = f
           \/ /\ entry' = entry
              /\ \E r \in Resource : Joins(r) /\ fetch'[f].on = inflight[r] /\ fetch'[f].res = r
<1>1. CASE Harmless
    <2>1. CASE EntryStep
        BY <2>1 DEF EntryStep
    <2>2. CASE \E id \in Fetch, a \in Socket \cup {"fallback"} : FinishStep(id, a)
        BY <2>2, FinishEffect
    <2> QED
        BY <1>1, <2>1, <2>2 DEF Harmless
<1>2. ASSUME NEW g \in Fetch, NEW r \in Resource, Arrive(g, r)
      PROVE  \/ fetch[f].pc = "wait" /\ fetch'[f] = fetch[f]
             \/ /\ entry' = entry /\ Joins(r)
                /\ fetch'[f].on = inflight[r] /\ fetch'[f].res = r
    <2>0. TypeOK /\ fetch[g] \in FetchState /\ entry' = entry
        BY <1>2 DEF RequestInv, TypeOK, Arrive
    <2>1. CASE f # g
        BY <1>2, <2>0, <2>1 DEF Arrive, TypeOK
    <2>2. CASE f = g /\ Joins(r)
        <3>1. inflight[r] \in Fetch
            BY <2>0, <2>2 DEF TypeOK, Joins
        <3>2. fetch'[g] = Joined(fetch[g], r, inflight[r])
            BY <1>2, <2>0, <2>2 DEF Arrive, TypeOK, Joined
        <3> QED
            BY <2>0, <2>2, <3>1, <3>2, JoinedType, JoinedRes
    <2>3. CASE f = g /\ ~Joins(r)
        <3>1. PICK c \in Candidates(r) : fetch'[f] = Selecting(fetch[f], r, c, Pruned(r))
            BY <1>2, <2>0, <2>3 DEF Arrive, TypeOK, Selecting
        <3>2. fetch'[f].pc = "select"
            BY <2>0, <2>3, <3>1, SelectingFields
        <3> QED
            BY <3>2
    <2> QED
        BY <2>1, <2>2, <2>3
<1>3. ASSUME NEW g \in Fetch, Start(g)
      PROVE  \/ fetch[f].pc = "wait" /\ fetch'[f] = fetch[f]
             \/ fetch'[f].on = f
    <2>0. TypeOK /\ fetch[g] \in FetchState
        BY <1>3 DEF RequestInv, TypeOK
    <2>1. CASE f # g
        BY <1>3, <2>0, <2>1 DEF Start, TypeOK
    <2>2. CASE f = g /\ fetch[g].cands = <<>>
        <3>1. fetch'[g] = Declined(fetch[g])
            BY <1>3, <2>0, <2>2 DEF Start, TypeOK, Declined
        <3> QED
            BY <2>0, <2>2, <3>1, DeclinedType
    <2>3. CASE f = g /\ fetch[g].cands # <<>>
        <3>1. fetch'[g] = Started(fetch[g], g)
            BY <1>3, <2>0, <2>3 DEF Start, TypeOK, Started
        <3> QED
            BY <2>0, <2>3, <3>1, StartedType
    <2> QED
        BY <2>1, <2>2, <2>3
<1>4. CASE Restart
    <2>1. /\ fetch[f] \in FetchState
          /\ fetch'[f] = IF fetch[f].pc \in {"select", "wait"} THEN Lost(fetch[f]) ELSE fetch[f]
        BY <1>4 DEF RequestInv, TypeOK, Restart, Lost
    <2> QED
        BY <2>1, LostType
<1>5. CASE UNCHANGED vars
    BY <1>5 DEF vars
<1> QED
    BY <1>1, <1>2, <1>3, <1>4, <1>5, StepKinds

LEMMA WaitsForOwnStays ==
    ASSUME RequestInv, RequestInv', TraceInv, TraceInv', GateInv, GateInv', WaitsForOwn, [Next]_vars
    PROVE  WaitsForOwn'
<1> SUFFICES ASSUME NEW f \in Fetch, fetch'[f].pc = "wait"
             PROVE  entry'[fetch'[f].on].res = fetch'[f].res
    BY DEF WaitsForOwn
<1>1. CASE fetch[f].pc = "wait" /\ fetch'[f] = fetch[f]
    <2> DEFINE id == fetch[f].on
    <2>1. id \in Fetch /\ entry[id] # None /\ entry'[id] # None
        BY <1>1 DEF GateInv, WaitsOnEntry
    <2>2. entry[id].res = fetch[id].res /\ entry'[id].res = fetch'[id].res /\ fetch[id].pc # "new"
        BY <2>1 DEF TraceInv, Trace, RequestInv, OwnEntry
    <2>3. fetch'[id].res = fetch[id].res
        BY <2>1, <2>2, StepIsKind DEF Kind
    <2> QED
        BY <1>1, <2>2, <2>3 DEF WaitsForOwn
<1>2. CASE fetch'[f].on = f
    BY <1>2 DEF GateInv, WaitsOnEntry, TraceInv, Trace
<1>3. CASE /\ entry' = entry
           /\ \E r \in Resource : Joins(r) /\ fetch'[f].on = inflight[r] /\ fetch'[f].res = r
    BY <1>3 DEF Joins, GateInv, FlightIsEntry
<1> QED
    BY <1>1, <1>2, <1>3, WaitStep

\* While a payload is on its way out the gate is closed.
LEMMA PayloadShuts ==
    ASSUME RequestInv, PayloadAlone, "request" \in Gated, [Next]_vars, NEW id \in Fetch,
           entry[id] # None, entry[id].done = "payload", entry'[id] # None
    PROVE  /\ UNCHANGED <<deprioritized, writes, fetch>>
           /\ \A j \in Fetch \ {id} : entry'[j] = entry[j] \/ entry'[j].done = "no"
<1>0. /\ ~GateOpen /\ writes = {} /\ TypeOK /\ EntriesOK(entry)
      /\ \A f \in Fetch : fetch[f].pc # "select"
      /\ \A j \in Fetch \ {id} : entry[j] # None => entry[j].done = "no"
    BY EntriesTyped DEF PayloadAlone, GateOpen, RequestInv
<1>1. CASE UNCHANGED vars
    BY <1>1 DEF vars
<1>2. ASSUME NEW f \in Fetch, TimeUp(f)
      PROVE  /\ UNCHANGED <<deprioritized, writes, fetch>>
             /\ \A j \in Fetch \ {id} : entry'[j] = entry[j] \/ entry'[j].done = "no"
    <2>1. /\ entry' = [entry EXCEPT ![f].late = TRUE] /\ entry[f] # None /\ entry[f].done = "no"
          /\ UNCHANGED <<deprioritized, writes, fetch>>
        BY <1>2 DEF TimeUp, Live
    <2>2. entry[f] \in Entry
        BY <1>0, <2>1 DEF EntriesOK
    <2>3. \A j \in Fetch : entry'[j] = IF j = f THEN [entry[f] EXCEPT !.late = TRUE] ELSE entry[j]
        BY <1>0, <2>1 DEF EntriesOK
    <2>4. [entry[f] EXCEPT !.late = TRUE].done = "no"
        BY <2>1, <2>2 DEF Entry
    <2> QED
        BY <2>1, <2>3, <2>4
<1>3. ASSUME NEW f \in Fetch, Finalise(f) PROVE FALSE
    <2>1. f = id
        BY <1>0, <1>3 DEF Finalise
    <2>2. entry'[id] = None
        BY <1>0, <1>3, <2>1 DEF Finalise, Finish, EntriesOK
    <2> QED
        BY <2>2
<1>4. ASSUME NEW f \in Fetch, Request(f)
      PROVE  /\ UNCHANGED <<deprioritized, writes, fetch>>
             /\ \A j \in Fetch \ {id} : entry'[j] = entry[j] \/ entry'[j].done = "no"
    BY <1>0, <1>2, <1>3, <1>4 DEF Request, Arrive, Start, AckTimeout, Deadline
<1>5. ASSUME NEW s \in Socket, Publisher(s)
      PROVE  /\ UNCHANGED <<deprioritized, writes, fetch>>
             /\ \A j \in Fetch \ {id} : entry'[j] = entry[j] \/ entry'[j].done = "no"
    BY <1>0, <1>5 DEF Publisher, Connect, Accept, Hello, Drop, Error, Close, Ack, Respond
<1>6. ~Restart
    BY DEF Restart
<1> QED
    BY <1>0, <1>1, <1>4, <1>5, <1>6 DEF Next

LEMMA PayloadStaysAlone ==
    ASSUME RequestInv, TraceInv, PayloadAlone, "request" \in Gated, [Next]_vars
    PROVE  PayloadAlone'
<1> SUFFICES ASSUME NEW id \in Fetch, entry'[id] # None, entry'[id].done = "payload"
             PROVE  /\ entry'[id].seen = deprioritized'[entry'[id].res]
                    /\ writes' = {}
                    /\ \A f \in Fetch : fetch'[f].pc # "select"
                    /\ \A j \in Fetch \ {id} : entry'[j] # None => entry'[j].done = "no"
    BY DEF PayloadAlone
<1>1. Rests(id) \/ Turns(id)
    BY StepIsKind DEF Kind, Sends, FailsOver, Ends, Selects
<1>2. CASE Rests(id)
    <2>1. entry'[id] = entry[id]
        BY <1>2 DEF Rests
    <2>2. /\ UNCHANGED <<deprioritized, writes, fetch>>
          /\ \A j \in Fetch \ {id} : entry'[j] = entry[j] \/ entry'[j].done = "no"
        BY <2>1, PayloadShuts
    <2> QED
        BY <2>1, <2>2 DEF PayloadAlone
<1>3. CASE Turns(id)
    <2>1. Answers(id) /\ entry'[id].res = entry[id].res
        BY <1>3 DEF Turns
    <2> QED
        BY <2>1 DEF Answers, GateOpen
<1> QED
    BY <1>1, <1>2, <1>3

\* A fetch gets a payload only from the finalisation of the request it waits on.
LEMMA AnswerStep ==
    ASSUME RequestInv, GateInv, [Next]_vars, NEW f \in Fetch, fetch[f].pc = "wait",
           fetch'[f].answer \in Socket
    PROVE  LET e == entry[fetch[f].on]
           IN  /\ e # None /\ e.done = "payload" /\ fetch'[f].answer = Cand(e)
               /\ deprioritized' = [deprioritized EXCEPT ![e.res] = Judged(e)]
               /\ sock' = sock
<1>0. TypeOK /\ fetch[f].answer \notin Socket /\ fetch[f] \in FetchState
    BY NameAssumption DEF RequestInv, TypeOK, GateInv, Unanswered
<1>1. fetch' # fetch
    BY <1>0
<1>2. ASSUME NEW id \in Fetch, NEW a, entry[id] # None, Finish(id, a)
      PROVE  fetch[f].on = id /\ fetch'[f].answer = a
    <2>1. fetch'[f] = IF fetch[f].on = id THEN [fetch[f] EXCEPT !.pc = "done", !.answer = a] ELSE fetch[f]
        BY <1>2 DEF Finish
    <2>2. [fetch[f] EXCEPT !.pc = "done", !.answer = a].answer = a
        BY <1>0 DEF FetchState
    <2> QED
        BY <1>0, <2>1, <2>2
<1>3. ASSUME NEW id \in Fetch, NEW frame, Live(id), Deliver(id, frame) PROVE FALSE
    BY <1>1, <1>2, <1>3, NameAssumption DEF Deliver, Live
<1>4. ASSUME NEW id \in Fetch, Finalise(id)
      PROVE  LET e == entry[fetch[f].on]
             IN  /\ e # None /\ e.done = "payload" /\ fetch'[f].answer = Cand(e)
                 /\ deprioritized' = [deprioritized EXCEPT ![e.res] = Judged(e)]
                 /\ sock' = sock
    <2>1. ~Finish(id, "fallback")
        BY <1>2, <1>4, NameAssumption DEF Finalise
    <2>2. /\ entry[id] # None /\ entry[id].done = "payload" /\ Finish(id, Cand(entry[id]))
          /\ deprioritized' = [deprioritized EXCEPT ![entry[id].res] = Judged(entry[id])]
          /\ sock' = sock
        BY <1>4, <2>1 DEF Finalise
    <2>3. fetch[f].on = id /\ fetch'[f].answer = Cand(entry[id])
        BY <1>2, <2>2
    <2> QED
        BY <2>2, <2>3
<1>5. ASSUME NEW g \in Fetch, Start(g) \/ \E r \in Resource : Arrive(g, r) PROVE FALSE
    <2>1. g # f
        BY <1>5 DEF Start, Arrive
    <2>2. fetch'[f] = fetch[f]
        BY <1>0, <1>5, <2>1 DEF Start, Arrive, TypeOK
    <2> QED
        BY <1>0, <2>2
<1>6. ASSUME NEW g \in Fetch, Request(g) PROVE \E id \in Fetch : Finalise(id)
    BY <1>1, <1>3, <1>5, <1>6 DEF Request, AckTimeout, TimeUp, Deadline
<1>7. ASSUME NEW s \in Socket, Publisher(s) PROVE FALSE
    <2>1. CASE \E id \in Fetch, frame \in {"payload", "error"} : Respond(s, id, frame)
        BY <1>1, <1>3, <2>1 DEF Respond, Reaches
    <2> QED
        BY <1>1, <1>7, <2>1 DEF Publisher, Connect, Accept, Hello, Drop, Error, Close, SocketHandler, Ack
<1>8. ASSUME NEW w \in writes, WriteDone(w) PROVE FALSE
    <2>1. w.id \in Fetch
        BY <1>0 DEF TypeOK, Write
    <2> QED
        BY <1>1, <1>3, <1>8, <2>1 DEF WriteDone
<1>9. CASE Restart
    <2>1. fetch'[f] = Lost(fetch[f])
        BY <1>9 DEF Restart, Lost
    <2> QED
        BY <1>0, <2>1, LostType, NameAssumption
<1> QED
    BY <1>1, <1>4, <1>6, <1>7, <1>8, <1>9 DEF Next, vars

LEMMA StepRehabilitates ==
    ASSUME RequestInv, GateInv, RehabInv, [Next]_vars, NEW f \in Fetch,
           fetch[f].pc = "wait", fetch'[f].answer \in Socket
    PROVE  sock[fetch'[f].answer].epoch \notin deprioritized'[fetch[f].res]
<1> DEFINE id == fetch[f].on
           e == entry[id]
<1>1. /\ e # None /\ e.done = "payload" /\ fetch'[f].answer = Cand(e)
      /\ deprioritized' = [deprioritized EXCEPT ![e.res] = Judged(e)]
    BY AnswerStep
<1>2. id \in Fetch /\ e.res = fetch[f].res /\ e.res \in Resource
    BY <1>1, EntriesTyped, PositionedIsEntry
    DEF GateInv, WaitsOnEntry, RehabInv, WaitsForOwn, RequestInv, EntriesOK
<1>3. e.seen = deprioritized[e.res]
    BY <1>1, <1>2 DEF RehabInv, PayloadAlone
<1>4. deprioritized'[e.res] = Judged(e)
    BY <1>1, <1>2 DEF RequestInv, TypeOK
<1>5. CandEpoch(e) \notin Judged(e)
    BY <1>1, <1>3 DEF Judged
<1> QED
    BY <1>1, <1>2, <1>4, <1>5 DEF CandEpoch

\* When a payload goes out, the publisher it came from has its rank back,
\* whatever earlier failure of it was still being recorded (the finalisation of
\* startRequest); this needs the gate around a request's storage awaits.
THEOREM SuccessRestoresRank == ASSUME "request" \in Gated PROVE Spec => SuccessRehabilitates
<1>1. Init => RehabInv
    BY DEF Init, RehabInv, WaitsForOwn, PayloadAlone
<1>2. RequestInv /\ RequestInv' /\ GateInv /\ [Next]_vars => GateInv'
    BY StepRefines
<1>3. RequestInv /\ RequestInv' /\ TraceInv /\ TraceInv' /\ GateInv /\ GateInv' /\ RehabInv /\ [Next]_vars => RehabInv'
    BY WaitsForOwnStays, PayloadStaysAlone DEF RehabInv
<1>4. RequestInv /\ GateInv /\ RehabInv /\ [Next]_vars =>
        \A f \in Fetch :
          fetch[f].pc = "wait" /\ fetch'[f].answer \in Socket =>
             sock[fetch'[f].answer].epoch \notin deprioritized'[fetch[f].res]
    BY StepRehabilitates
<1> QED
    BY <1>1, <1>2, <1>3, <1>4, InitGateInv, SpecRequestInv, SpecTraceInv, PTL
    DEF Spec, SuccessRehabilitates
=============================================================================
