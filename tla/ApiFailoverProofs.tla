------------------------- MODULE ApiFailoverProofs -------------------------
(***************************************************************************)
(* Theorems about ApiFailover, for every number of endpoints, of attempts  *)
(* and all lengths of the time-outs, the budget, its floor and the delay.  *)
(***************************************************************************)
EXTENDS ApiFailover, SequenceTheorems, WellFoundedInduction, TLAPS

Stops == IF prefer THEN Count ELSE Attempts * Count

Types ==
    /\ Count \in 0 .. MaxSlots /\ slots \in [1 .. Count -> Endpoints] /\ prefer \in BOOLEAN
    /\ hint \in 0 .. MaxSlots /\ pc \in {"visit", "request", "done"}
    /\ result \in {"none", "ok", "failed", "timeout", "permanent"} /\ (pc = "done" <=> result # "none")
    /\ at \in 1 .. Stops + 1 /\ attempt \in 1 .. Attempts
    /\ diag \in [1 .. Count -> {NoReason, 0, 200, 401} \union Errors] /\ asked \in [1 .. Count -> Nat]

\* A request goes to an endpoint in use; the attempts on the spot are counted
\* for it alone, and only where the answer may get better.
Placed ==
    /\ pc = "request" => at \in 1 .. Stops /\ slots[Slot].health \notin {"off", "tokenless"}
    /\ pc = "visit" \/ ~prefer => attempt = 1
    /\ pc = "request" /\ slots[Slot].health = "denies" => attempt = 1

InTime == elapsed \in 0 .. Budget + Delay

\* What a call has asked of the endpoint that has its place k in the order.
AskedInOrder ==
    prefer /\ pc # "done" =>
        \A k \in 1 .. Count :
            /\ k < at => /\ asked[Plan[k]] <= Attempts
                         /\ slots[Plan[k]].health = "denies" => asked[Plan[k]] <= 1
            /\ k = at => asked[Plan[k]] <= attempt - 1
            /\ k > at => asked[Plan[k]] = 0

\* In rounds: r whole rounds and j endpoints of the next lie behind.
AskedInRounds ==
    ~prefer /\ pc # "done" /\ Count > 0 =>
        \E r \in Nat, j \in 0 .. Count - 1 :
            /\ at = r * Count + j + 1
            /\ \A i \in 1 .. Count : asked[i] <= IF i <= j THEN r + 1 ELSE r

ReasonsLeft == pc # "done" => \A k \in 1 .. Stops : k < at /\ Live(Plan[k]) => diag[Plan[k]] # NoReason

FetchInv ==
    /\ Types /\ Placed /\ InTime /\ AskedInOrder /\ AskedInRounds /\ ReasonsLeft
    /\ AskedSparingly /\ PosterComplete

-----------------------------------------------------------------------------
(* Arithmetic of the rounds                                                 *)

LEMMA PlaceInRound ==
    ASSUME NEW c \in Nat \ {0}, NEW r \in Nat, NEW j \in 0 .. c - 1
    PROVE  (r * c + j) % c = j
<1> DEFINE x == r * c + j
           q == x \div c
           m == x % c
<1>1. r * c \in Nat /\ x \in Nat
  OBVIOUS
<1>2. q \in Int /\ m \in 0 .. c - 1 /\ x = c * q + m
  BY <1>1
<1> HIDE DEF q, m
<1>3. ~(q < r)
  <2> SUFFICES ASSUME q < r PROVE FALSE
    OBVIOUS
  <2>1. c * (q + 1) <= c * r
    BY <1>2
  <2>2. c * (q + 1) = c * q + c /\ c * r = r * c
    BY <1>2
  <2> QED
    BY <1>1, <1>2, <2>1, <2>2
<1>4. ~(r < q)
  <2> SUFFICES ASSUME r < q PROVE FALSE
    OBVIOUS
  <2>1. c * (r + 1) <= c * q
    BY <1>2
  <2>2. c * (r + 1) = r * c + c
    OBVIOUS
  <2> QED
    BY <1>1, <1>2, <2>1, <2>2
<1>5. q = r
  BY <1>2, <1>3, <1>4
<1>6. c * r = r * c
  OBVIOUS
<1> QED
  BY <1>1, <1>2, <1>5, <1>6 DEF m

LEMMA RoundsLeft ==
    ASSUME NEW a \in Nat, NEW c \in Nat \ {0}, NEW r \in Nat, NEW j \in 0 .. c - 1,
           r * c + j + 1 <= a * c
    PROVE  r + 1 <= a
<1> SUFFICES ASSUME a <= r PROVE FALSE
  OBVIOUS
<1>1. a * c <= r * c
  OBVIOUS
<1> QED
  BY <1>1

-----------------------------------------------------------------------------
(* The order of the endpoints                                               *)

\* Both orders are lists of endpoints, and reach each of them.
LEMMA PlanReaches ==
    ASSUME Types
    PROVE  /\ Stops \in Nat /\ Len(Plan) = Stops /\ Count \in Nat
           /\ \A k \in 1 .. Stops : Plan[k] \in 1 .. Count
           /\ prefer => \A i, j \in 1 .. Count : Plan[i] = Plan[j] => i = j
           /\ \A i \in 1 .. Count : \E k \in 1 .. Stops : Plan[k] = i
<1>1. Count \in Nat /\ Attempts \in Nat \ {0} /\ prefer \in BOOLEAN
  BY TimesAssumption, ChoicesAssumption DEF Types
<1>2. CASE prefer
  <2>1. Start \in 0 .. Count
    BY <1>1 DEF Start
  <2> DEFINE order(k) == IF k > Start THEN k ELSE IF k = 1 THEN Start ELSE k - 1
  <2>2. \A k \in 1 .. Count : order(k) \in 1 .. Count
    BY <1>1, <2>1
  <2>3. \A i, j \in 1 .. Count : order(i) = order(j) => i = j
    BY <1>1, <2>1
  <2>4. \A i \in 1 .. Count : \E k \in 1 .. Count : order(k) = i
    <3> SUFFICES ASSUME NEW i \in 1 .. Count PROVE \E k \in 1 .. Count : order(k) = i
      OBVIOUS
    <3>1. CASE i > Start
      BY <3>1
    <3>2. CASE i = Start
      BY <1>1, <2>1, <3>2
    <3>3. CASE i < Start
      <4>1. i + 1 \in 1 .. Count /\ order(i + 1) = i
        BY <1>1, <2>1, <3>3
      <4> QED
        BY <4>1
    <3> QED
      BY <1>1, <2>1, <3>1, <3>2, <3>3
  <2>5. Plan = [k \in 1 .. Count |-> order(k)] /\ Stops = Count
    BY <1>2 DEF Plan, StartFirst, Stops
  <2> HIDE DEF order
  <2>6. [k \in 1 .. Count |-> order(k)] \in Seq(1 .. Count)
    BY <1>1, <2>2, IsASeq
  <2>7. Len(Plan) = Count
    BY <1>1, <2>5, <2>6, LenProperties
  <2> QED
    BY <1>1, <2>2, <2>3, <2>4, <2>5, <2>7
<1>3. CASE ~prefer
  <2> DEFINE order(k) == ((k - 1) % Count) + 1
  <2>1. Stops = Attempts * Count /\ Stops \in Nat
    BY <1>1, <1>3 DEF Stops
  <2>2. Plan = [k \in 1 .. Stops |-> order(k)]
    BY <1>3, <2>1 DEF Plan
  <2>3. Stops \in Nat
    BY <2>1
  <2>4. CASE Count = 0
    <3>1. Stops = 0
      BY <1>1, <2>1, <2>4
    <3> HIDE DEF order
    <3>2. [k \in 1 .. Stops |-> order(k)] \in Seq({})
      BY <3>1, IsASeq
    <3>3. Len(Plan) = Stops
      BY <2>2, <3>1, <3>2, LenProperties
    <3> QED
      BY <1>1, <1>3, <2>4, <3>1, <3>3
  <2>5. CASE Count > 0
    <3>1. \A k \in 1 .. Stops : order(k) \in 1 .. Count
      BY <1>1, <2>3, <2>5
    <3>2. \A i \in 1 .. Count : i \in 1 .. Stops /\ order(i) = i
      <4> SUFFICES ASSUME NEW i \in 1 .. Count PROVE i \in 1 .. Stops /\ order(i) = i
        OBVIOUS
      <4>1. (0 * Count + (i - 1)) % Count = i - 1
        BY <1>1, <2>5, PlaceInRound
      <4>2. Count <= Attempts * Count
        BY <1>1
      <4> QED
        BY <1>1, <2>1, <4>1, <4>2
    <3> HIDE DEF order
    <3>3. [k \in 1 .. Stops |-> order(k)] \in Seq(1 .. Count)
      BY <2>3, <3>1, IsASeq
    <3>4. Len(Plan) = Stops
      BY <2>2, <2>3, <3>3, LenProperties
    <3> QED
      BY <1>1, <1>3, <2>2, <2>3, <3>1, <3>2, <3>4
  <2> QED
    BY <1>1, <2>4, <2>5
<1> QED
  BY <1>1, <1>2, <1>3

-----------------------------------------------------------------------------
(* What a step does                                                         *)

\* The endpoints stay; so does the order, unless the hint changes at the end.
LEMMA OrderStays ==
    ASSUME UNCHANGED <<slots, prefer>>
    PROVE  /\ Count' = Count /\ Stops' = Stops
           /\ hint' = hint => Plan' = Plan /\ Slot' = Plan[at']
           /\ \A i : Live(i)' = Live(i)
BY DEF Count, Stops, Plan, StartFirst, Start, Slot, Live

Advanced(e) ==
    /\ at' = at + 1 /\ attempt' = 1
    /\ elapsed' = e \/ (e < Budget /\ elapsed' = e + Delay)
    /\ (pc' = "visit" /\ result' = result) \/ (pc' = "done" /\ result' = "timeout")

Ended(r) == pc' = "done" /\ result' = r /\ UNCHANGED <<slots, prefer, at>> /\ attempt' = attempt

LEMMA AdvanceOutcomes == ASSUME NEW e \in Nat, Advance(e) PROVE Advanced(e)
BY TimesAssumption DEF Advance, Advanced, Done

\* The outcomes of a visit and of a request.
LEMMA VisitOutcomes ==
    ASSUME Types, InTime, Visit
    PROVE  /\ pc = "visit" /\ UNCHANGED <<slots, prefer, hint, asked>>
           /\ \/ Ended("permanent") /\ UNCHANGED <<elapsed, diag>>
              \/ Ended("failed") /\ at > Stops /\ UNCHANGED <<elapsed, diag>>
              \/ at <= Stops /\ Count > 0 /\ ~Live(Slot) /\ Advanced(elapsed) /\ diag' = diag
              \/ /\ Ended("permanent") /\ at <= Stops /\ Count > 0 /\ elapsed' = elapsed
                 /\ diag' = [diag EXCEPT ![Slot] = 401]
              \/ /\ at <= Stops /\ Live(Slot) /\ slots[Slot].health # "tokenless"
                 /\ pc' = "request" /\ UNCHANGED <<at, attempt, elapsed, diag, result>>
<1>1. Len(Plan) = Stops /\ Stops \in Nat /\ Count \in Nat /\ at \in Nat
  BY PlanReaches DEF Types
<1>2. CASE Count = 0 \/ at > Len(Plan)
  BY <1>1, <1>2 DEF Visit, Done, Ended
<1>3. CASE ~(Count = 0 \/ at > Len(Plan)) /\ ~Live(Slot)
  <2>1. Advance(elapsed) /\ diag' = diag
    BY <1>3 DEF Visit, Live
  <2>2. Advanced(elapsed)
    BY <2>1, TimesAssumption, AdvanceOutcomes DEF InTime
  <2> QED
    BY <1>1, <1>3, <2>1, <2>2 DEF Visit
<1>4. CASE ~(Count = 0 \/ at > Len(Plan)) /\ Live(Slot) /\ slots[Slot].health = "tokenless"
  BY <1>1, <1>4 DEF Visit, Done, Ended
<1>5. CASE ~(Count = 0 \/ at > Len(Plan)) /\ Live(Slot) /\ slots[Slot].health # "tokenless"
  BY <1>1, <1>5 DEF Visit
<1> QED
  BY <1>2, <1>3, <1>4, <1>5

\* A request ends within the budget.
LEMMA RequestTime ==
    ASSUME Types, Placed, InTime, pc = "request", Remaining(elapsed) >= Floor
    PROVE  elapsed + (IF slots[Slot].health = "hangs" THEN ProfileTimeout(Slot) ELSE 1) \in 0 .. Budget
BY TimesAssumption DEF InTime, Remaining, ProfileTimeout

LEMMA RequestOutcomes ==
    ASSUME Types, Placed, InTime,
           NEW a \in UNION {Answers(h) : h \in Healths \ {"off", "tokenless"}}, Request(a)
    PROVE  /\ pc = "request" /\ UNCHANGED <<slots, prefer>> /\ at \in 1 .. Stops
           /\ Slot \in 1 .. Count /\ asked' = [asked EXCEPT ![Slot] = @ + 1]
           /\ a.status \in {0, 200, 401} \union Errors /\ a.status # NoReason
           /\ \E e \in 0 .. Budget :
                  \/ Ended("ok") /\ hint' = Slot /\ elapsed' = e /\ diag' = diag
                  \/ /\ prefer /\ slots[Slot].health # "denies" /\ attempt < Attempts
                     /\ UNCHANGED <<hint, at, diag>>
                     /\ \/ Ended("timeout") /\ elapsed' = e
                        \/ /\ pc' = "request" /\ result' = result
                           /\ e < Budget /\ elapsed' = e + Delay /\ attempt' = attempt + 1
                  \/ /\ hint' = hint /\ diag' = [diag EXCEPT ![Slot] = a.status]
                     /\ Advanced(e)
<1> DEFINE e == elapsed + IF slots[Slot].health = "hangs" THEN ProfileTimeout(Slot) ELSE 1
<1>1. /\ pc = "request" /\ UNCHANGED <<slots, prefer>> /\ at \in 1 .. Stops
      /\ asked' = [asked EXCEPT ![Slot] = @ + 1] /\ a \in Answers(slots[Slot].health)
      /\ Remaining(elapsed) >= Floor /\ slots[Slot].health \notin {"off", "tokenless"}
  BY DEF Request, Placed
<1>2. Slot \in 1 .. Count
  BY <1>1, PlanReaches DEF Slot
<1>3. e \in 0 .. Budget
  BY <1>1, RequestTime
<1>4. slots[Slot].health \in {"well", "hangs", "denies", "errs"}
  <2>1. slots[Slot].health \in Healths
    BY <1>2 DEF Types, Endpoints
  <2> QED
    BY <1>1, <2>1, ChoicesAssumption
<1>5. /\ a.status \in {0, 200, 401} \union Errors /\ a.status # NoReason
      /\ slots[Slot].health = "denies" => a.status = 401
  BY <1>1, <1>4, ChoicesAssumption DEF Answers, NoReason
<1> HIDE DEF e
<1>6. CASE ~FetchFails(a)
  <2>1. Ended("ok") /\ hint' = Slot /\ elapsed' = e /\ diag' = diag
    BY <1>1, <1>6 DEF Request, Done, Ended, e
  <2> QED
    BY <1>1, <1>2, <1>3, <1>5, <2>1
<1>7. CASE FetchFails(a) /\ prefer /\ ShouldRetry(a.status) /\ attempt < Attempts
  <2>1. slots[Slot].health # "denies"
    BY <1>5, <1>7 DEF ShouldRetry
  <2>2. /\ UNCHANGED <<hint, at, diag>>
        /\ IF Remaining(e) = 0
           THEN elapsed' = e /\ Done("timeout") /\ UNCHANGED attempt
           ELSE elapsed' = e + Delay /\ attempt' = attempt + 1 /\ UNCHANGED <<pc, result>>
    BY <1>7 DEF Request, e
  <2>3. Remaining(e) # 0 => e < Budget
    BY <1>3, TimesAssumption DEF Remaining
  <2> QED
    BY <1>1, <1>2, <1>3, <1>5, <1>7, <2>1, <2>2, <2>3 DEF Done, Ended
<1>8. CASE FetchFails(a) /\ ~(prefer /\ ShouldRetry(a.status) /\ attempt < Attempts)
  <2>1. hint' = hint /\ diag' = [diag EXCEPT ![Slot] = a.status] /\ Advance(e)
    BY <1>8 DEF Request, ShouldFailOver, e
  <2>2. Advanced(e)
    BY <1>3, <2>1, AdvanceOutcomes
  <2> QED
    BY <1>1, <1>2, <1>3, <1>5, <2>1, <2>2
<1> QED
  BY <1>6, <1>7, <1>8

-----------------------------------------------------------------------------
(* Types, places and time                                                   *)

LEMMA BasicStep == ASSUME FetchInv, [Next]_vars PROVE Types' /\ Placed' /\ InTime'
<1>1. /\ Types /\ Placed /\ InTime /\ Stops \in Nat /\ Count \in Nat
      /\ at \in Nat \ {0} /\ attempt \in Nat \ {0} /\ Attempts \in Nat \ {0}
      /\ \A k \in 1 .. Stops : Plan[k] \in 1 .. Count
  BY PlanReaches, TimesAssumption DEF FetchInv, Types
<1>6. Budget \in Nat /\ Delay \in Nat
  BY TimesAssumption
<1>2. CASE UNCHANGED vars
  <2>1. UNCHANGED <<slots, prefer, hint, pc, at, attempt, elapsed, diag, asked, result>>
    BY <1>2 DEF vars
  <2>2. Count' = Count /\ Stops' = Stops /\ Slot' = Slot
    BY <2>1, OrderStays DEF Slot
  <2> QED
    BY <1>1, <2>1, <2>2 DEF Types, Placed, InTime
<1>3. CASE RequestRefused
  <2>1. Count' = Count /\ Stops' = Stops
    BY <1>3, OrderStays DEF RequestRefused
  <2> QED
    BY <1>1, <1>3, <2>1 DEF RequestRefused, Done, Types, Placed, InTime
<1>4. CASE Visit
  <2>1. pc = "visit" /\ UNCHANGED <<slots, prefer, hint, asked>> /\ attempt = 1
    BY <1>1, <1>4, VisitOutcomes DEF Placed
  <2>2. Count' = Count /\ Stops' = Stops /\ Plan' = Plan /\ Slot' = Plan[at']
    BY <2>1, OrderStays
  <2>3. at <= Stops => Slot \in 1 .. Count
    BY <1>1 DEF Slot
  <2>4. [diag EXCEPT ![Slot] = 401] \in [1 .. Count -> {NoReason, 0, 200, 401} \union Errors]
    BY <1>1 DEF Types
  <2>5. Types'
    <3>1. /\ at' \in 1 .. Stops + 1 /\ attempt' \in 1 .. Attempts
          /\ diag' = diag \/ diag' = [diag EXCEPT ![Slot] = 401]
          /\ \/ pc' \in {"visit", "request"} /\ result' = "none"
             \/ pc' = "done" /\ result' \in {"failed", "timeout", "permanent"}
      <4>1. at \in 1 .. Stops + 1 /\ attempt \in 1 .. Attempts /\ result = "none"
        BY <1>1, <2>1 DEF Types
      <4> QED
        BY <1>1, <1>4, <4>1, VisitOutcomes DEF Advanced, Ended
    <3>2. diag' \in [1 .. Count -> {NoReason, 0, 200, 401} \union Errors]
      BY <1>1, <2>4, <3>1 DEF Types
    <3>3. /\ pc' \in {"visit", "request", "done"} /\ (pc' = "done" <=> result' # "none")
          /\ result' \in {"none", "ok", "failed", "timeout", "permanent"}
      BY <3>1
    <3>4. /\ Count' \in 0 .. MaxSlots /\ slots' \in [1 .. Count' -> Endpoints] /\ prefer' \in BOOLEAN
          /\ hint' \in 0 .. MaxSlots /\ asked' \in [1 .. Count' -> Nat]
      BY <1>1, <2>1, <2>2 DEF Types
    <3> QED
      BY <2>2, <3>1, <3>2, <3>3, <3>4 DEF Types
  <2>6. Placed'
    BY <1>1, <1>4, <2>1, <2>2, VisitOutcomes DEF Placed, Advanced, Ended, Live, Slot
  <2>7. InTime'
    BY <1>1, <1>4, VisitOutcomes, TimesAssumption DEF InTime, Advanced
  <2> QED
    BY <2>5, <2>6, <2>7
<1>5. ASSUME NEW a \in UNION {Answers(h) : h \in Healths \ {"off", "tokenless"}}, Request(a)
      PROVE  Types' /\ Placed' /\ InTime'
  <2>1. /\ pc = "request" /\ UNCHANGED <<slots, prefer>> /\ at \in 1 .. Stops
        /\ Slot \in 1 .. Count /\ asked' = [asked EXCEPT ![Slot] = @ + 1]
        /\ a.status \in {0, 200, 401} \union Errors
    BY <1>1, <1>5, RequestOutcomes
  <2>2. /\ Count' = Count /\ Stops' = Stops
        /\ hint' = hint => Plan' = Plan /\ Slot' = Plan[at']
    BY <2>1, OrderStays
  <2>3. asked' \in [1 .. Count -> Nat]
    BY <1>1, <2>1 DEF Types
  <2>4. [diag EXCEPT ![Slot] = a.status] \in [1 .. Count -> {NoReason, 0, 200, 401} \union Errors]
    BY <1>1, <2>1 DEF Types
  <2>5. PICK e \in 0 .. Budget :
            \/ Ended("ok") /\ hint' = Slot /\ elapsed' = e /\ diag' = diag
            \/ /\ prefer /\ slots[Slot].health # "denies" /\ attempt < Attempts
               /\ UNCHANGED <<hint, at, diag>>
               /\ \/ Ended("timeout") /\ elapsed' = e
                  \/ /\ pc' = "request" /\ result' = result
                     /\ e < Budget /\ elapsed' = e + Delay /\ attempt' = attempt + 1
            \/ /\ hint' = hint /\ diag' = [diag EXCEPT ![Slot] = a.status]
               /\ Advanced(e)
    BY <1>1, <1>5, RequestOutcomes
  <2>6. CASE Ended("ok") /\ hint' = Slot /\ elapsed' = e /\ diag' = diag
    <3>1. Slot \in 0 .. MaxSlots
      BY <1>1, <2>1, ChoicesAssumption DEF Types
    <3> QED
      BY <1>1, <2>1, <2>2, <2>3, <2>6, <3>1, TimesAssumption DEF Types, Placed, InTime, Ended
  <2>7. CASE /\ prefer /\ slots[Slot].health # "denies" /\ attempt < Attempts
             /\ UNCHANGED <<hint, at, diag>>
             /\ \/ Ended("timeout") /\ elapsed' = e
                \/ /\ pc' = "request" /\ result' = result
                   /\ e < Budget /\ elapsed' = e + Delay /\ attempt' = attempt + 1
    <3>1. Slot' = Slot
      BY <2>2, <2>7 DEF Slot
    <3>2. Types'
      BY <1>1, <2>1, <2>2, <2>3, <2>7 DEF Types, Ended
    <3>3. Placed'
      BY <1>1, <2>1, <2>2, <2>7, <3>1 DEF Placed, Ended
    <3>4. InTime'
      BY <1>6, <2>7 DEF InTime
    <3> QED
      BY <3>2, <3>3, <3>4
  <2>8. CASE /\ hint' = hint /\ diag' = [diag EXCEPT ![Slot] = a.status]
             /\ Advanced(e)
    <3>1. Types'
      BY <1>1, <2>1, <2>2, <2>3, <2>4, <2>8 DEF Types, Advanced
    <3> QED
      BY <1>1, <2>1, <2>8, <3>1, TimesAssumption DEF Placed, InTime, Advanced
  <2> QED
    BY <2>5, <2>6, <2>7, <2>8
<1> QED
  BY <1>2, <1>3, <1>4, <1>5 DEF Next

-----------------------------------------------------------------------------
(* Reasons                                                                  *)

LEMMA ReasonsStep == ASSUME FetchInv, [Next]_vars PROVE ReasonsLeft' /\ PosterComplete'
<1> USE DEF FetchInv
<1>1. /\ Types /\ Placed /\ InTime /\ ReasonsLeft /\ PosterComplete /\ Stops \in Nat /\ Count \in Nat
      /\ \A k \in 1 .. Stops : Plan[k] \in 1 .. Count
      /\ \A i \in 1 .. Count : \E k \in 1 .. Stops : Plan[k] = i
  BY PlanReaches
<1>5. at \in Nat \ {0}
  BY <1>1 DEF Types
<1>2. CASE UNCHANGED vars \/ RequestRefused
  <2>1. /\ UNCHANGED <<slots, prefer, hint, at, diag>>
        /\ (pc' = pc /\ result' = result) \/ (pc' = "done" /\ result' = "timeout")
    BY <1>2 DEF vars, RequestRefused, Done
  <2>2. Count' = Count /\ Stops' = Stops /\ Plan' = Plan /\ \A i : Live(i)' = Live(i)
    BY <2>1, OrderStays
  <2> QED
    BY <1>1, <2>1, <2>2 DEF ReasonsLeft, PosterComplete
<1>3. CASE Visit
  <2>1. pc = "visit" /\ UNCHANGED <<slots, prefer, hint, asked>> /\ result = "none"
    BY <1>1, <1>3, VisitOutcomes DEF Types
  <2>2. Count' = Count /\ Stops' = Stops /\ Plan' = Plan /\ \A i : Live(i)' = Live(i)
    BY <2>1, OrderStays
  <2>3. ReasonsLeft'
    BY <1>1, <1>3, <1>5, <2>1, <2>2, VisitOutcomes DEF ReasonsLeft, Advanced, Ended, Slot
  <2>4. result' = "failed" => at > Stops /\ diag' = diag
    BY <1>1, <1>3, <2>1, VisitOutcomes DEF Advanced, Ended
  <2>5. at > Stops => \A i \in 1 .. Count : Live(i) => diag[i] # NoReason
    BY <1>1, <1>5, <2>1 DEF ReasonsLeft
  <2> QED
    BY <2>2, <2>3, <2>4, <2>5 DEF PosterComplete
<1>4. ASSUME NEW a \in UNION {Answers(h) : h \in Healths \ {"off", "tokenless"}}, Request(a)
      PROVE  ReasonsLeft' /\ PosterComplete'
  <2>1. /\ pc = "request" /\ UNCHANGED <<slots, prefer>> /\ at \in 1 .. Stops
        /\ Slot \in 1 .. Count /\ a.status # NoReason
        /\ result = "none" /\ result' # "failed"
        /\ pc' # "done" => /\ hint' = hint
                           /\ \/ at' = at /\ diag' = diag
                              \/ at' = at + 1 /\ diag' = [diag EXCEPT ![Slot] = a.status]
    BY <1>1, <1>4, RequestOutcomes DEF Types, Ended, Advanced
  <2>2. /\ Count' = Count /\ Stops' = Stops /\ \A i : Live(i)' = Live(i)
        /\ hint' = hint => Plan' = Plan
    BY <2>1, OrderStays
  <2>3. /\ [diag EXCEPT ![Slot] = a.status][Slot] = a.status
        /\ \A i \in 1 .. Count : i # Slot => [diag EXCEPT ![Slot] = a.status][i] = diag[i]
    BY <1>1, <2>1 DEF Types
  <2>4. CASE pc' = "done"
    BY <2>1, <2>4 DEF ReasonsLeft, PosterComplete
  <2>5. CASE pc' # "done" /\ UNCHANGED <<at, diag>>
    BY <1>1, <2>1, <2>2, <2>5 DEF ReasonsLeft, PosterComplete
  <2>6. CASE pc' # "done" /\ at' = at + 1 /\ diag' = [diag EXCEPT ![Slot] = a.status]
    <3>1. \A k \in 1 .. Stops : k < at + 1 /\ Live(Plan[k]) => diag'[Plan[k]] # NoReason
      BY <1>1, <1>5, <2>1, <2>3, <2>6 DEF ReasonsLeft, Slot
    <3> QED
      BY <2>1, <2>2, <2>6, <3>1 DEF ReasonsLeft, PosterComplete
  <2> QED
    BY <2>1, <2>4, <2>5, <2>6
<1> QED
  BY <1>2, <1>3, <1>4 DEF Next

-----------------------------------------------------------------------------
(* Requests                                                                 *)

\* Where the rounds are when the endpoint at its place is asked or passed over.
LEMMA InRound ==
    ASSUME Types, ~prefer, Count > 0, at <= Stops, NEW r \in Nat, NEW j \in 0 .. Count - 1,
           at = r * Count + j + 1
    PROVE  /\ Slot = j + 1 /\ r + 1 <= Attempts
           /\ \/ j + 1 < Count /\ at + 1 = r * Count + (j + 1) + 1
              \/ j + 1 = Count /\ at + 1 = (r + 1) * Count + 0 + 1
<1>1. Count \in Nat \ {0} /\ Attempts \in Nat /\ at \in 1 .. Stops
  BY PlanReaches, TimesAssumption DEF Types
<1>2. Slot = ((at - 1) % Count) + 1 /\ Stops = Attempts * Count
  BY <1>1 DEF Slot, Plan, Stops
<1>3. at - 1 = r * Count + j
  BY <1>1
<1>4. (r * Count + j) % Count = j
  BY <1>1, PlaceInRound
<1>5. r + 1 <= Attempts
  BY <1>1, <1>2, RoundsLeft
<1>6. (r + 1) * Count = r * Count + Count
  BY <1>1
<1>7. r * Count \in Nat
  BY <1>1
<1> QED
  BY <1>1, <1>2, <1>3, <1>4, <1>5, <1>6, <1>7

\* Passing an endpoint over, or leaving it after its attempts, keeps the account.
LEMMA RoundsStep ==
    ASSUME Types, AskedInRounds, ~prefer, Count > 0, at <= Stops, pc # "done", at' = at + 1,
           UNCHANGED <<slots, prefer>>, asked' \in {asked, [asked EXCEPT ![Slot] = @ + 1]}
    PROVE  AskedInRounds'
<1>1. Count \in Nat /\ asked \in [1 .. Count -> Nat] /\ Count' = Count
  BY PlanReaches, OrderStays DEF Types
<1>2. PICK r \in Nat, j \in 0 .. Count - 1 :
          /\ at = r * Count + j + 1
          /\ \A i \in 1 .. Count : asked[i] <= IF i <= j THEN r + 1 ELSE r
  BY DEF AskedInRounds
<1>3. Slot = j + 1
  BY <1>2, InRound
<1>4. \A i \in 1 .. Count : asked'[i] <= IF i <= j + 1 THEN r + 1 ELSE r
  BY <1>1, <1>2, <1>3
<1>5. CASE j + 1 < Count /\ at' = r * Count + (j + 1) + 1
  <2>1. j + 1 \in 0 .. Count' - 1
    BY <1>1, <1>5
  <2> QED
    BY <1>1, <1>4, <1>5, <2>1 DEF AskedInRounds
<1>6. CASE j + 1 = Count /\ at' = (r + 1) * Count + 0 + 1
  <2>1. 0 \in 0 .. Count' - 1 /\ r + 1 \in Nat
    BY <1>1, <1>6
  <2>2. \A i \in 1 .. Count' : asked'[i] <= IF i <= 0 THEN r + 1 + 1 ELSE r + 1
    BY <1>1, <1>4, <1>6
  <2> QED
    BY <1>1, <1>6, <2>1, <2>2 DEF AskedInRounds
<1> QED
  BY <1>2, <1>5, <1>6, InRound

LEMMA AskedStep == ASSUME FetchInv, [Next]_vars PROVE AskedInOrder' /\ AskedInRounds' /\ AskedSparingly'
<1> USE DEF FetchInv
<1>1. /\ Types /\ Placed /\ InTime /\ AskedInOrder /\ AskedInRounds /\ AskedSparingly
      /\ Stops \in Nat /\ Count \in Nat
      /\ \A k \in 1 .. Stops : Plan[k] \in 1 .. Count
      /\ prefer => \A i, j \in 1 .. Count : Plan[i] = Plan[j] => i = j
  BY PlanReaches
<1>2. /\ at \in Nat \ {0} /\ attempt \in Nat \ {0} /\ attempt <= Attempts /\ Attempts \in Nat \ {0}
      /\ prefer => Stops = Count
  BY <1>1, TimesAssumption DEF Types, Stops
<1>3. CASE /\ UNCHANGED <<slots, prefer, hint, asked>>
           /\ pc' = "done" \/ (UNCHANGED <<at, attempt>> /\ pc # "done")
  <2>1. Count' = Count /\ Plan' = Plan
    BY <1>3, OrderStays
  <2> QED
    BY <1>1, <1>3, <2>1 DEF AskedInOrder, AskedInRounds, AskedSparingly
<1>4. CASE UNCHANGED vars \/ RequestRefused
  <2>1. UNCHANGED <<slots, prefer, hint, asked, at, attempt>> /\ pc' \in {pc, "done"}
    BY <1>4 DEF vars, RequestRefused, Done
  <2> QED
    BY <1>1, <1>3, <2>1
<1>5. CASE Visit
  <2>1. pc = "visit" /\ UNCHANGED <<slots, prefer, hint, asked>> /\ attempt = 1
    BY <1>1, <1>5, VisitOutcomes DEF Placed
  <2>2. CASE at <= Stops /\ Count > 0 /\ pc' # "done" /\ at' = at + 1 /\ attempt' = 1
    <3>1. Count' = Count /\ Plan' = Plan
      BY <2>1, OrderStays
    <3>2. AskedInOrder'
      <4>1. prefer => \A k \in 1 .. Count : asked[Plan[k]] \in Nat
        BY <1>1, <1>2 DEF Types
      <4> QED
        BY <1>1, <1>2, <2>1, <2>2, <3>1, <4>1 DEF AskedInOrder
    <3>3. AskedInRounds'
      <4>1. CASE prefer
        BY <2>1, <4>1 DEF AskedInRounds
      <4>2. CASE ~prefer
        BY <1>1, <2>1, <2>2, <4>2, RoundsStep
      <4> QED
        BY <4>1, <4>2
    <3> QED
      BY <1>1, <2>1, <3>1, <3>2, <3>3 DEF AskedSparingly
  <2> QED
    BY <1>1, <1>3, <1>5, <2>1, <2>2, VisitOutcomes DEF Ended, Advanced
<1>6. ASSUME NEW a \in UNION {Answers(h) : h \in Healths \ {"off", "tokenless"}}, Request(a)
      PROVE  AskedInOrder' /\ AskedInRounds' /\ AskedSparingly'
  <2>1. /\ pc = "request" /\ UNCHANGED <<slots, prefer>> /\ at \in 1 .. Stops
        /\ Slot \in 1 .. Count /\ asked' = [asked EXCEPT ![Slot] = @ + 1]
        /\ \/ pc' = "done"
           \/ /\ hint' = hint /\ at' = at /\ attempt' = attempt + 1 /\ prefer
              /\ slots[Slot].health # "denies"
           \/ hint' = hint /\ at' = at + 1 /\ attempt' = 1
    BY <1>1, <1>6, RequestOutcomes DEF Ended, Advanced
  <2>2. /\ Count' = Count /\ hint' = hint => Plan' = Plan
    BY <2>1, OrderStays
  <2>3. /\ asked'[Slot] = asked[Slot] + 1 /\ asked[Slot] \in Nat
        /\ \A i \in 1 .. Count : i # Slot => asked'[i] = asked[i]
    BY <1>1, <2>1 DEF Types
  <2>4. asked'[Slot] <= Attempts /\ (prefer => asked'[Slot] <= attempt)
    <3>1. CASE prefer
      BY <1>1, <1>2, <2>1, <2>3, <3>1 DEF AskedInOrder, Slot
    <3>2. CASE ~prefer
      <4>1. Count > 0 /\ at <= Stops
        BY <1>1, <2>1
      <4>2. PICK r \in Nat, j \in 0 .. Count - 1 :
                /\ at = r * Count + j + 1
                /\ \A i \in 1 .. Count : asked[i] <= IF i <= j THEN r + 1 ELSE r
        BY <1>1, <2>1, <3>2, <4>1 DEF AskedInRounds
      <4>3. Slot = j + 1 /\ r + 1 <= Attempts
        BY <1>1, <3>2, <4>1, <4>2, InRound
      <4>4. asked[Slot] <= r
        BY <1>1, <2>1, <4>2, <4>3
      <4> QED
        BY <1>2, <2>3, <3>2, <4>3, <4>4
    <3> QED
      BY <3>1, <3>2
  <2>5. slots[Slot].health = "denies" => attempt = 1
    BY <1>1, <2>1 DEF Placed
  <2>6. AskedSparingly'
    <3>1. Count' = Count
      BY <2>1, OrderStays
    <3> QED
      BY <1>1, <2>1, <2>3, <2>4, <2>5, <3>1 DEF AskedSparingly
  <2>7. CASE pc' = "done"
    BY <2>6, <2>7 DEF AskedInOrder, AskedInRounds
  <2>8. CASE /\ pc' # "done" /\ hint' = hint /\ at' = at /\ attempt' = attempt + 1 /\ prefer
             /\ slots[Slot].health # "denies"
    <3>1. Count' = Count /\ Plan' = Plan
      BY <2>1, <2>8, OrderStays
    <3>2. AskedInOrder'
      BY <1>1, <1>2, <2>1, <2>3, <2>4, <2>8, <3>1 DEF AskedInOrder, Slot
    <3> QED
      BY <2>1, <2>6, <2>8, <3>2 DEF AskedInRounds
  <2>9. CASE pc' # "done" /\ hint' = hint /\ at' = at + 1 /\ attempt' = 1
    <3>1. Count' = Count /\ Plan' = Plan
      BY <2>1, <2>9, OrderStays
    <3>2. AskedInOrder'
      BY <1>1, <1>2, <2>1, <2>3, <2>4, <2>5, <2>9, <3>1 DEF AskedInOrder, Slot
    <3>3. AskedInRounds'
      <4>1. CASE prefer
        BY <2>1, <4>1 DEF AskedInRounds
      <4>2. CASE ~prefer
        <5>1. Count > 0 /\ at <= Stops
          BY <1>1, <2>1
        <5> QED
          BY <1>1, <2>1, <2>9, <4>2, <5>1, RoundsStep
      <4> QED
        BY <4>1, <4>2
    <3> QED
      BY <2>6, <3>2, <3>3
  <2> QED
    BY <2>1, <2>7, <2>8, <2>9
<1> QED
  BY <1>4, <1>5, <1>6 DEF Next

-----------------------------------------------------------------------------
(* The theorem                                                              *)

LEMMA FetchStart == Init => FetchInv
<1> SUFFICES ASSUME Init PROVE FetchInv
  OBVIOUS
<1>1. Count \in 0 .. MaxSlots /\ slots \in [1 .. Count -> Endpoints]
  <2>1. PICK n \in 0 .. MaxSlots : slots \in [1 .. n -> Endpoints]
    BY DEF Init
  <2>2. n \in Nat /\ slots \in Seq(Endpoints)
    BY <2>1, ChoicesAssumption, SeqDef
  <2>3. 1 .. Len(slots) = 1 .. n /\ Len(slots) \in Nat
    BY <2>1, <2>2, LenProperties
  <2>4. Len(slots) = n
    BY <2>2, <2>3
  <2> QED
    BY <2>1, <2>4 DEF Count
<1>2. Stops \in Nat /\ Attempts \in Nat \ {0} /\ Budget \in Nat /\ Delay \in Nat /\ Count \in Nat
  BY <1>1, ChoicesAssumption, TimesAssumption DEF Stops
<1>3. /\ prefer \in BOOLEAN /\ hint \in 0 .. MaxSlots /\ pc = "visit" /\ at = 1 /\ attempt = 1 /\ elapsed = 0
      /\ diag = [i \in 1 .. Count |-> NoReason] /\ asked = [i \in 1 .. Count |-> 0] /\ result = "none"
  BY ChoicesAssumption DEF Init
<1>4. Types
  BY <1>1, <1>2, <1>3 DEF Types
<1>5. Placed /\ InTime
  BY <1>2, <1>3 DEF Placed, InTime
<1>6. \A k \in 1 .. Stops : Plan[k] \in 1 .. Count
  BY <1>4, PlanReaches
<1>7. AskedInOrder
  <2>1. prefer => Stops = Count
    BY DEF Stops
  <2> QED
    BY <1>2, <1>3, <1>6, <2>1 DEF AskedInOrder
<1>8. AskedInRounds
  <2>1. Count > 0 => 0 \in 0 .. Count - 1 /\ at = 0 * Count + 0 + 1
    BY <1>2, <1>3
  <2>2. \A i \in 1 .. Count : asked[i] <= IF i <= 0 THEN 0 + 1 ELSE 0
    BY <1>2, <1>3
  <2> QED
    BY <2>1, <2>2 DEF AskedInRounds
<1>9. ReasonsLeft /\ AskedSparingly /\ PosterComplete
  BY <1>2, <1>3 DEF ReasonsLeft, AskedSparingly, PosterComplete
<1> QED
  BY <1>4, <1>5, <1>7, <1>8, <1>9 DEF FetchInv

\* Whatever the endpoints answer, for any number of them, in both orders and
\* from any hint: api_client_fetch_with_failover keeps to its budget, asks no
\* endpoint too often, and leaves a reason for each that it calls down.
THEOREM FetchIsSafe == Spec => []FetchSafety
<1>1. FetchInv /\ [Next]_vars => FetchInv'
  BY BasicStep, ReasonsStep, AskedStep DEF FetchInv
<1>2. FetchInv => FetchSafety
  <2> SUFFICES ASSUME FetchInv PROVE FetchSafety
    OBVIOUS
  <2>1. Types /\ Placed /\ InTime /\ AskedSparingly /\ PosterComplete
    BY DEF FetchInv
  <2>2. Len(Plan) = Stops
    BY <2>1, PlanReaches
  <2>3. BudgetHolds /\ elapsed \in Nat
    BY <2>1, TimesAssumption DEF InTime, BudgetHolds
  <2>4. TypeOK
    BY <2>1, <2>2, <2>3 DEF TypeOK, Types, Placed
  <2> QED
    BY <2>1, <2>3, <2>4 DEF FetchSafety
<1> QED
  BY <1>1, <1>2, FetchStart, PTL DEF Spec

-----------------------------------------------------------------------------
(* What the endpoints before a place can cost                               *)

\* Induction, for a set in place of a predicate.
LEMMA Induct ==
    ASSUME NEW T, 0 \in T, \A n \in Nat : n \in T => n + 1 \in T
    PROVE  Nat \subseteq T
<1> DEFINE bad == Nat \ T
<1> SUFFICES ASSUME bad # {} PROVE FALSE
  OBVIOUS
<1>1. PICK x \in bad : \A y \in bad : ~(<<y, x>> \in OpToRel(<, Nat))
  <2> HIDE DEF bad
  <2>1. bad \subseteq Nat
    BY DEF bad
  <2> QED
    BY <2>1, WFMin, NatLessThanWellFounded
<1>2. \A y \in bad : ~(y < x)
  BY <1>1 DEF OpToRel
<1>3. x # 0 /\ x - 1 \in Nat
  OBVIOUS
<1> QED
  BY <1>2, <1>3

\* The recursion of Cost has a solution for every list of costs.
LEMMA SumsExist ==
    ASSUME NEW n \in Nat, NEW p
    PROVE  \E f : f = [i \in 0 .. n |-> IF i = 0 THEN 0 ELSE f[i - 1] + p[i]]
<1> DEFINE T == {m \in Nat : \E f : f = [i \in 0 .. m |-> IF i = 0 THEN 0 ELSE f[i - 1] + p[i]]}
<1>1. 0 \in T
  <2> DEFINE f == [i \in 0 .. 0 |-> 0]
  <2>1. f = [i \in 0 .. 0 |-> IF i = 0 THEN 0 ELSE f[i - 1] + p[i]]
    OBVIOUS
  <2> QED
    BY <2>1
<1>2. ASSUME NEW m \in Nat, m \in T PROVE m + 1 \in T
  <2>1. PICK f : f = [i \in 0 .. m |-> IF i = 0 THEN 0 ELSE f[i - 1] + p[i]]
    BY <1>2
  <2> DEFINE g == [i \in 0 .. m + 1 |-> IF i <= m THEN f[i] ELSE f[m] + p[m + 1]]
  <2>2. \A i \in 0 .. m : f[i] = IF i = 0 THEN 0 ELSE f[i - 1] + p[i]
    BY <2>1
  <2>3. \A i \in 0 .. m : g[i] = f[i]
    OBVIOUS
  <2>4. g[m + 1] = f[m] + p[m + 1]
    OBVIOUS
  <2>5. \A i \in 0 .. m + 1 : g[i] = IF i = 0 THEN 0 ELSE g[i - 1] + p[i]
    <3> SUFFICES ASSUME NEW i \in 0 .. m + 1 PROVE g[i] = IF i = 0 THEN 0 ELSE g[i - 1] + p[i]
      OBVIOUS
    <3> HIDE DEF g
    <3>1. CASE i = m + 1
      <4>1. i # 0 /\ i - 1 = m /\ m \in 0 .. m
        BY <3>1
      <4> QED
        BY <2>3, <2>4, <3>1, <4>1
    <3>2. CASE i \in 0 .. m /\ i # 0
      <4>1. i - 1 \in 0 .. m
        BY <3>2
      <4> QED
        BY <2>2, <2>3, <3>2, <4>1
    <3>3. CASE i = 0
      <4>1. i \in 0 .. m
        BY <3>3
      <4> QED
        BY <2>2, <2>3, <3>3, <4>1
    <3> QED
      BY <3>1, <3>2, <3>3
  <2>6. g = [i \in 0 .. m + 1 |-> IF i = 0 THEN 0 ELSE g[i - 1] + p[i]]
    <3>1. g = [i \in 0 .. m + 1 |-> g[i]]
      OBVIOUS
    <3> HIDE DEF g
    <3> QED
      BY <2>5, <3>1
  <2>7. \E h : h = [i \in 0 .. m + 1 |-> IF i = 0 THEN 0 ELSE h[i - 1] + p[i]]
    <3> HIDE DEF g
    <3> QED
      BY <2>6
  <2> QED
    BY <2>7
<1>3. n \in T
  <2> HIDE DEF T
  <2> QED
    BY <1>1, <1>2, Induct
<1> QED
  BY <1>3

\* What one attempt and the delay after it cost.
Unit(i) ==
    Delay + IF slots[i].health # "hangs" THEN 1 ELSE IF slots[i].relay THEN RelayTimeout ELSE ApiTimeout

LEMMA UnitIsNat ==
    ASSUME NEW i, slots[i].relay \in BOOLEAN
    PROVE  Unit(i) \in Nat \ {0} /\ Unit(i) >= Delay
BY TimesAssumption DEF Unit

LEMMA PatienceIsNat ==
    ASSUME Types
    PROVE  \A i \in 1 .. Count :
              /\ Unit(i) \in Nat \ {0} /\ Unit(i) >= Delay /\ Patience(i) \in Nat
              /\ Live(i) => Patience(i) = IF prefer THEN Attempts * Unit(i) ELSE Unit(i)
<1> SUFFICES ASSUME NEW i \in 1 .. Count
             PROVE  /\ Unit(i) \in Nat \ {0} /\ Unit(i) >= Delay /\ Patience(i) \in Nat
                    /\ Live(i) => Patience(i) = IF prefer THEN Attempts * Unit(i) ELSE Unit(i)
  OBVIOUS
<1>1. slots[i].relay \in BOOLEAN
  BY ChoicesAssumption DEF Types, Endpoints
<1>2. Unit(i) \in Nat \ {0} /\ Unit(i) >= Delay
  BY <1>1, UnitIsNat
<1>3. Patience(i) = IF ~Live(i) THEN 0 ELSE (IF prefer THEN Attempts ELSE 1) * Unit(i)
  BY DEF Patience, Unit
<1>4. Attempts \in Nat /\ prefer \in BOOLEAN
  BY TimesAssumption DEF Types
<1> QED
  BY <1>2, <1>3, <1>4

LEMMA CostAdds ==
    ASSUME Types
    PROVE  /\ Cost[0] = 0
           /\ \A i \in 1 .. Count : Cost[i] = Cost[i - 1] + Patience(i)
           /\ \A i \in 0 .. Count : Cost[i] \in Nat
<1>1. Count \in Nat
  BY PlanReaches
<1> DEFINE p == [i \in 1 .. Count |-> Patience(i)]
<1>2. PICK f : f = [i \in 0 .. Count |-> IF i = 0 THEN 0 ELSE f[i - 1] + p[i]]
  BY <1>1, SumsExist
<1>3. f = [i \in 0 .. Count |-> IF i = 0 THEN 0 ELSE f[i - 1] + Patience(i)]
  <2>1. \A i \in 0 .. Count : i # 0 => i \in 1 .. Count
    BY <1>1
  <2>2. \A i \in 0 .. Count : (IF i = 0 THEN 0 ELSE f[i - 1] + p[i])
                               = IF i = 0 THEN 0 ELSE f[i - 1] + Patience(i)
    BY <2>1
  <2> QED
    BY <1>2, <2>2
<1>4. Cost = [i \in 0 .. Count |-> IF i = 0 THEN 0 ELSE Cost[i - 1] + Patience(i)]
  BY <1>3 DEF Cost
<1>5. Cost[0] = 0 /\ \A i \in 1 .. Count : Cost[i] = Cost[i - 1] + Patience(i)
  <2>1. 0 \in 0 .. Count /\ \A i \in 1 .. Count : i \in 0 .. Count /\ i # 0
    BY <1>1
  <2> QED
    BY <1>4, <2>1
<1> DEFINE T == {m \in Nat : m <= Count => Cost[m] \in Nat}
<1>6. 0 \in T
  BY <1>5
<1>7. ASSUME NEW m \in Nat, m \in T PROVE m + 1 \in T
  <2> SUFFICES ASSUME m + 1 <= Count PROVE Cost[m + 1] \in Nat
    OBVIOUS
  <2>1. m + 1 \in 1 .. Count /\ (m + 1) - 1 = m /\ Cost[m] \in Nat
    BY <1>1, <1>7
  <2>2. Cost[m + 1] = Cost[m] + Patience(m + 1) /\ Patience(m + 1) \in Nat
    BY <1>5, <2>1, PatienceIsNat
  <2> QED
    BY <2>1, <2>2
<1>8. Nat \subseteq T
  <2> HIDE DEF T
  <2> QED
    BY <1>6, <1>7, Induct
<1> QED
  BY <1>1, <1>5, <1>8

\* Along the order, what is spent before a place grows by what the endpoint of
\* the place before it can cost.
LEMMA CostInOrder ==
    ASSUME Types
    PROVE  /\ \A k \in 1 .. Count : /\ k <= Stops /\ Plan[k] \in 1 .. Count
                                    /\ CostBefore(Plan[k]) \in Nat /\ Patience(Plan[k]) \in Nat
           /\ Count > 0 => CostBefore(Plan[1]) = 0
           /\ \A k \in 1 .. Count : k < Count =>
                CostBefore(Plan[k + 1]) = CostBefore(Plan[k]) + Patience(Plan[k])
           /\ \A i \in 1 .. Count : \E k \in 1 .. Count : Plan[k] = i
<1>1. /\ Count \in Nat /\ Stops \in Nat /\ Attempts \in Nat \ {0} /\ prefer \in BOOLEAN
      /\ \A k \in 1 .. Stops : Plan[k] \in 1 .. Count
      /\ \A i \in 1 .. Count : \E k \in 1 .. Stops : Plan[k] = i
  BY PlanReaches, TimesAssumption DEF Types
<1>2. Count <= Stops
  <2>1. Count <= Attempts * Count
    BY <1>1
  <2> QED
    BY <1>1, <2>1 DEF Stops
<1>3. Start \in 0 .. Count /\ (~prefer => Start = 0)
  BY <1>1 DEF Start
<1>4. \A k \in 1 .. Count : Plan[k] = IF k > Start THEN k ELSE IF k = 1 THEN Start ELSE k - 1
  <2> SUFFICES ASSUME NEW k \in 1 .. Count
               PROVE  Plan[k] = IF k > Start THEN k ELSE IF k = 1 THEN Start ELSE k - 1
    OBVIOUS
  <2>1. CASE prefer
    BY <1>1, <2>1 DEF Plan, StartFirst
  <2>2. CASE ~prefer
    <3>1. k \in 1 .. Attempts * Count
      BY <1>1, <1>2, <2>2 DEF Stops
    <3>2. Plan[k] = ((k - 1) % Count) + 1
      BY <2>2, <3>1 DEF Plan
    <3>3. (0 * Count + (k - 1)) % Count = k - 1
      BY <1>1, PlaceInRound
    <3>4. 0 * Count + (k - 1) = k - 1
      BY <1>1
    <3> QED
      BY <1>1, <1>3, <2>2, <3>2, <3>3, <3>4
  <2> QED
    BY <1>1, <2>1, <2>2
<1>5. \A i \in 1 .. Count : Patience(i) \in Nat /\ Cost[i] = Cost[i - 1] + Patience(i)
  BY CostAdds, PatienceIsNat
<1>6. Cost[0] = 0 /\ \A i \in 0 .. Count : Cost[i] \in Nat
  BY CostAdds
<1>7. \A i \in 1 .. Count : CostBefore(i) \in Nat
  <2> SUFFICES ASSUME NEW i \in 1 .. Count PROVE CostBefore(i) \in Nat
    OBVIOUS
  <2>1. i - 1 \in 0 .. Count /\ (i < Start => Start \in 1 .. Count)
    BY <1>1, <1>3
  <2> QED
    BY <1>5, <1>6, <2>1 DEF CostBefore
<1>8. ASSUME Count > 0 PROVE CostBefore(Plan[1]) = 0
  <2>1. 1 \in 1 .. Count /\ 1 - 1 = 0
    BY <1>1, <1>8
  <2>2. Plan[1] = IF 1 > Start THEN 1 ELSE Start
    BY <1>4, <2>1
  <2>3. CASE Start = 0
    BY <1>6, <2>1, <2>2, <2>3 DEF CostBefore
  <2>4. CASE Start # 0
    BY <1>3, <2>2, <2>4 DEF CostBefore
  <2> QED
    BY <2>3, <2>4
<1>9. ASSUME NEW k \in 1 .. Count, k < Count
      PROVE  CostBefore(Plan[k + 1]) = CostBefore(Plan[k]) + Patience(Plan[k])
  <2>1. k \in Nat /\ k + 1 \in 1 .. Count /\ (k + 1) - 1 = k
    BY <1>1, <1>9
  <2>2. /\ Plan[k] = IF k > Start THEN k ELSE IF k = 1 THEN Start ELSE k - 1
        /\ Plan[k + 1] = IF k + 1 > Start THEN k + 1 ELSE k
    BY <1>4, <2>1
  <2>3. /\ Cost[k] = Cost[k - 1] + Patience(k)
        /\ Cost[k] \in Nat /\ Cost[k - 1] \in Nat /\ Patience(k) \in Nat
    <3>1. k \in 0 .. Count /\ k - 1 \in 0 .. Count
      BY <1>1, <2>1
    <3> QED
      BY <1>5, <1>6, <3>1
  <2>4. CASE k > Start
    <3>1. Plan[k] = k /\ Plan[k + 1] = k + 1
      BY <1>3, <2>1, <2>2, <2>4
    <3>2. CostBefore(k) = Cost[k - 1] /\ CostBefore(k + 1) = Cost[k]
      BY <1>3, <2>1, <2>3, <2>4 DEF CostBefore
    <3> QED
      BY <2>3, <3>1, <3>2
  <2>5. CASE k <= Start
    <3>1. Start \in 1 .. Count /\ Patience(Start) \in Nat
      BY <1>1, <1>3, <1>5, <2>1, <2>5
    <3>2. CostBefore(Plan[k + 1]) = IF k = Start THEN Cost[k] ELSE Cost[k - 1] + Patience(Start)
      BY <1>3, <2>1, <2>2, <2>3, <2>5, <3>1 DEF CostBefore
    <3>3. CASE k = 1
      <4>1. Plan[k] = Start /\ k - 1 = 0
        BY <1>3, <2>1, <2>2, <2>5, <3>3
      <4>2. CostBefore(Start) = 0
        BY DEF CostBefore
      <4> QED
        BY <1>6, <2>3, <3>1, <3>2, <3>3, <4>1, <4>2
    <3>4. CASE k # 1
      <4>1. k - 1 \in 1 .. Count /\ k - 1 < Start /\ Plan[k] = k - 1
        BY <1>1, <1>3, <2>1, <2>2, <2>5, <3>4
      <4>2. /\ Cost[k - 1] = Cost[(k - 1) - 1] + Patience(k - 1) /\ Patience(k - 1) \in Nat
            /\ Cost[(k - 1) - 1] \in Nat
        <5>1. (k - 1) - 1 \in 0 .. Count
          BY <1>1, <2>1, <4>1
        <5> QED
          BY <1>5, <1>6, <4>1, <5>1
      <4>3. CostBefore(k - 1) = Cost[(k - 1) - 1] + Patience(Start)
        BY <1>3, <2>1, <4>1 DEF CostBefore
      <4> QED
        BY <2>3, <3>1, <3>2, <4>1, <4>2, <4>3
    <3> QED
      BY <3>3, <3>4
  <2> QED
    BY <1>3, <2>1, <2>4, <2>5
<1>10. \A i \in 1 .. Count : \E k \in 1 .. Count : Plan[k] = i
  <2>1. CASE prefer
    BY <1>1, <2>1 DEF Stops
  <2>2. CASE ~prefer
    BY <1>1, <1>3, <1>4, <2>2
  <2> QED
    BY <1>1, <2>1, <2>2
<1> QED
  BY <1>1, <1>2, <1>5, <1>7, <1>8, <1>9, <1>10

\* What is spent before a place only grows along the order.
LEMMA CostRises ==
    ASSUME Types, NEW j \in 1 .. Count, NEW k \in 1 .. Count, j < k
    PROVE  CostBefore(Plan[j]) + Patience(Plan[j]) <= CostBefore(Plan[k])
<1>1. Count \in Nat /\ j \in Nat /\ k \in Nat
  BY PlanReaches
<1>2. /\ \A i \in 1 .. Count : CostBefore(Plan[i]) \in Nat /\ Patience(Plan[i]) \in Nat
      /\ \A i \in 1 .. Count : i < Count =>
            CostBefore(Plan[i + 1]) = CostBefore(Plan[i]) + Patience(Plan[i])
  BY CostInOrder
<1> DEFINE T == {m \in Nat : j + 1 + m <= Count =>
                    CostBefore(Plan[j]) + Patience(Plan[j]) <= CostBefore(Plan[j + 1 + m])}
<1>3. 0 \in T
  <2> SUFFICES ASSUME j + 1 + 0 <= Count
               PROVE  CostBefore(Plan[j]) + Patience(Plan[j]) <= CostBefore(Plan[j + 1 + 0])
    OBVIOUS
  <2>1. j + 1 + 0 = j + 1 /\ j < Count
    BY <1>1
  <2> QED
    BY <1>2, <2>1
<1>4. ASSUME NEW m \in Nat, m \in T PROVE m + 1 \in T
  <2> SUFFICES ASSUME j + 1 + (m + 1) <= Count
               PROVE  CostBefore(Plan[j]) + Patience(Plan[j]) <= CostBefore(Plan[j + 1 + (m + 1)])
    OBVIOUS
  <2> DEFINE i == j + 1 + m
  <2>1. i \in 1 .. Count /\ i < Count /\ i + 1 \in 1 .. Count /\ j + 1 + (m + 1) = i + 1
    BY <1>1
  <2>2. CostBefore(Plan[j]) + Patience(Plan[j]) <= CostBefore(Plan[i])
    BY <1>1, <1>4
  <2> HIDE DEF i
  <2>3. CostBefore(Plan[i + 1]) = CostBefore(Plan[i]) + Patience(Plan[i])
    BY <1>2, <2>1
  <2>4. /\ CostBefore(Plan[i]) \in Nat /\ Patience(Plan[i]) \in Nat
        /\ CostBefore(Plan[j]) \in Nat /\ Patience(Plan[j]) \in Nat
    BY <1>2, <2>1
  <2>5. CostBefore(Plan[j]) + Patience(Plan[j]) <= CostBefore(Plan[i + 1])
    BY <2>2, <2>3, <2>4
  <2> QED
    BY <2>1, <2>5
<1>5. k - j - 1 \in T
  <2>1. Nat \subseteq T
    <3> HIDE DEF T
    <3> QED
      BY <1>3, <1>4, Induct
  <2> QED
    BY <1>1, <2>1
<1>6. j + 1 + (k - j - 1) = k
  BY <1>1
<1> QED
  BY <1>1, <1>5, <1>6

-----------------------------------------------------------------------------
(* Reaching a good endpoint                                                 *)

\* A good endpoint answers at its first request: the call has passed none by.
WellAhead ==
    /\ pc # "done" => \A k \in 1 .. Stops : k < at => slots[Plan[k]].health # "well"
    /\ pc = "request" /\ slots[Slot].health = "well" => attempt = 1

\* While every endpoint is asked for the first time, or on the spot, no more time
\* has gone by than what those before can cost and the attempts at this one.
OnTime ==
    pc # "done" /\ at <= Count => elapsed <= CostBefore(Slot) + (attempt - 1) * Unit(Slot)

ReachInv == WellAhead /\ OnTime /\ HealthyReached

LEMMA CostsStay ==
    ASSUME UNCHANGED <<slots, prefer>>
    PROVE  /\ Count' = Count /\ \A i : Unit(i)' = Unit(i)
           /\ hint' = hint => Plan' = Plan /\ \A i : CostBefore(i)' = CostBefore(i)
<1>1. Count' = Count /\ \A i : Live(i)' = Live(i)
  BY OrderStays
<1>2. \A i : Patience(i)' = Patience(i) /\ Unit(i)' = Unit(i)
  BY <1>1 DEF Patience, Live, Unit
<1>3. Cost' = Cost
  BY <1>1, <1>2 DEF Cost
<1>4. hint' = hint => Start' = Start /\ Plan' = Plan
  BY <1>1, OrderStays DEF Start
<1> QED
  BY <1>1, <1>2, <1>3, <1>4 DEF CostBefore

\* Whoever still hopes for a good endpoint has the time to ask it, and the time
\* to leave the one before it.
LEMMA TimeIsLeft ==
    ASSUME FetchInv, ReachInv, pc # "done", NEW i \in 1 .. Count, slots[i].health = "well",
           CostBefore(i) + Floor <= Budget
    PROVE  /\ at \in 1 .. Count /\ at \in 1 .. Stops /\ elapsed + Floor <= Budget
           /\ pc = "request" => /\ slots[Slot].health = "well" => attempt = 1
           /\ slots[Slot].health # "well" => at < Count
           /\ pc = "request" /\ slots[Slot].health # "well" => elapsed + Unit(Slot) + Floor <= Budget
<1>0. /\ Types /\ Placed /\ InTime /\ Count \in Nat /\ Stops \in Nat
      /\ {Floor, Budget, Attempts} \subseteq Nat \ {0} /\ Delay \in Nat
  BY PlanReaches, TimesAssumption DEF FetchInv
<1>1. /\ Types /\ Placed /\ InTime /\ Count \in Nat /\ Stops \in Nat
      /\ at \in Nat \ {0} /\ attempt \in 1 .. Attempts /\ prefer \in BOOLEAN
      /\ elapsed \in Nat /\ Attempts \in Nat \ {0} /\ Floor \in Nat \ {0} /\ Budget \in Nat
  BY <1>0 DEF Types, InTime
<1>2. PICK k \in 1 .. Count : Plan[k] = i
  BY <1>1, CostInOrder
<1>3. k \in Nat /\ k <= Stops /\ at <= k
  <2>1. k <= Stops
    BY <1>1, CostInOrder
  <2> QED
    BY <1>1, <1>2, <2>1 DEF ReachInv, WellAhead
<1>4. at \in 1 .. Count /\ at \in 1 .. Stops
  BY <1>1, <1>3
<1>5. /\ Slot \in 1 .. Count /\ CostBefore(Slot) \in Nat /\ Patience(Slot) \in Nat
      /\ Unit(Slot) \in Nat \ {0}
      /\ Live(Slot) => Patience(Slot) = IF prefer THEN Attempts * Unit(Slot) ELSE Unit(Slot)
      /\ CostBefore(i) \in Nat
  BY <1>1, <1>2, <1>4, CostInOrder, PatienceIsNat DEF Slot
<1>6. at < k => CostBefore(Slot) + Patience(Slot) <= CostBefore(i)
  BY <1>1, <1>2, <1>4, CostRises DEF Slot
<1>7. at = k => Slot = i
  BY <1>2 DEF Slot
<1>8. elapsed <= CostBefore(Slot) + (attempt - 1) * Unit(Slot)
  BY <1>4 DEF ReachInv, OnTime
<1>9. pc = "visit" => attempt = 1
  BY <1>1 DEF Placed
<1>10. pc \in {"visit", "request"}
  BY <1>1 DEF Types
<1>11. pc = "request" => Live(Slot) /\ (~prefer => attempt = 1)
  BY <1>1 DEF Placed, Live
<1>12. (attempt - 1) * Unit(Slot) + Unit(Slot) <= Attempts * Unit(Slot) /\ (attempt - 1) * Unit(Slot) \in Nat
  <2>1. attempt * Unit(Slot) <= Attempts * Unit(Slot)
    BY <1>1, <1>5
  <2>2. (attempt - 1) * Unit(Slot) + Unit(Slot) = attempt * Unit(Slot)
    BY <1>1, <1>5
  <2>3. (attempt - 1) * Unit(Slot) \in Nat
    BY <1>1, <1>5
  <2> QED
    BY <2>1, <2>2, <2>3
<1>13. attempt = 1 => (attempt - 1) * Unit(Slot) = 0
  BY <1>5
<1>14. pc = "request" => (attempt - 1) * Unit(Slot) + Unit(Slot) <= Patience(Slot)
  BY <1>1, <1>5, <1>11, <1>12, <1>13
<1>15. slots[Slot].health = "well" /\ pc = "request" => attempt = 1
  BY DEF ReachInv, WellAhead
<1>16. slots[Slot].health # "well" => at < k /\ at < Count
  BY <1>1, <1>2, <1>3, <1>7
<1>17. pc = "request" /\ slots[Slot].health # "well" => elapsed + Unit(Slot) + Floor <= Budget
  <2> SUFFICES ASSUME pc = "request", slots[Slot].health # "well"
               PROVE  elapsed + Unit(Slot) + Floor <= Budget
    OBVIOUS
  <2> DEFINE u == (attempt - 1) * Unit(Slot)
  <2>1. u \in Nat /\ u + Unit(Slot) <= Patience(Slot) /\ elapsed <= CostBefore(Slot) + u
    BY <1>8, <1>12, <1>14
  <2>2. CostBefore(Slot) + Patience(Slot) <= CostBefore(i)
    BY <1>6, <1>16
  <2> HIDE DEF u
  <2> QED
    BY <1>1, <1>5, <2>1, <2>2
<1>18. elapsed + Floor <= Budget
  <2>1. CASE pc = "request" /\ slots[Slot].health # "well"
    BY <1>1, <1>5, <1>17, <2>1
  <2>2. CASE attempt = 1
    <3>1. elapsed <= CostBefore(Slot)
      BY <1>1, <1>5, <1>8, <1>13, <2>2
    <3>2. CostBefore(Slot) <= CostBefore(i)
      BY <1>1, <1>3, <1>5, <1>6, <1>7
    <3> QED
      BY <1>1, <1>5, <3>1, <3>2
  <2> QED
    BY <1>9, <1>10, <1>15, <2>1, <2>2
<1> QED
  BY <1>4, <1>15, <1>16, <1>17, <1>18

\* No round ends before the last endpoint.
LEMMA AdvanceInRound ==
    ASSUME NEW e \in Nat, Advance(e), at \in Nat \ {0}, Count \in Nat, at < Count
    PROVE  at' = at + 1 /\ attempt' = 1 /\ elapsed' = e /\ pc' = "visit" /\ result' = result
<1>1. (0 * Count + at) % Count = at
  BY PlaceInRound
<1>2. at % Count # 0
  BY <1>1
<1> QED
  BY <1>2 DEF Advance

\* A request, with the time it takes.
LEMMA RequestInTime ==
    ASSUME Types, Placed, InTime,
           NEW a \in UNION {Answers(h) : h \in Healths \ {"off", "tokenless"}}, Request(a)
    PROVE  /\ pc = "request" /\ UNCHANGED <<slots, prefer>> /\ Slot \in 1 .. Count
           /\ slots[Slot].health = "well" => pc' = "done" /\ result' = "ok"
           /\ \E e \in Nat :
                 /\ e + Delay <= elapsed + Unit(Slot)
                 /\ \/ pc' = "done" /\ result' = "ok"
                    \/ pc' = "done" /\ e >= Budget
                    \/ /\ UNCHANGED <<hint, at>> /\ pc' = "request" /\ attempt' = attempt + 1
                       /\ elapsed' = e + Delay
                    \/ hint' = hint /\ Advance(e)
<1> DEFINE e == elapsed + IF slots[Slot].health = "hangs" THEN ProfileTimeout(Slot) ELSE 1
<1>1. /\ pc = "request" /\ UNCHANGED <<slots, prefer>> /\ at \in 1 .. Stops
      /\ a \in Answers(slots[Slot].health)
  BY DEF Request, Placed
<1>2. Slot \in 1 .. Count
  BY <1>1, PlanReaches DEF Slot
<1>3. e \in 0 .. Budget /\ Budget \in Nat /\ elapsed \in Nat /\ Delay \in Nat
  BY RequestTime, TimesAssumption DEF Request, InTime
<1>4. e + Delay <= elapsed + Unit(Slot)
  <2>1. ProfileTimeout(Slot) <= IF slots[Slot].relay THEN RelayTimeout ELSE ApiTimeout
    <3>1. Remaining(elapsed) \in Int
      BY <1>3 DEF Remaining
    <3> QED
      BY <3>1, TimesAssumption DEF ProfileTimeout
  <2>2. ProfileTimeout(Slot) \in Int
    <3>1. Remaining(elapsed) \in Int
      BY <1>3 DEF Remaining
    <3> QED
      BY <3>1, TimesAssumption DEF ProfileTimeout
  <2> QED
    BY <1>3, <2>1, <2>2, TimesAssumption DEF Unit
<1> HIDE DEF e
<1>5. slots[Slot].health = "well" => ~FetchFails(a)
  BY <1>1 DEF Answers, FetchFails
<1>6. CASE ~FetchFails(a)
  <2>1. pc' = "done" /\ result' = "ok"
    BY <1>6 DEF Request, Done
  <2> QED
    BY <1>1, <1>2, <1>3, <1>4, <2>1
<1>7. CASE FetchFails(a) /\ prefer /\ ShouldRetry(a.status) /\ attempt < Attempts
  <2>1. /\ UNCHANGED <<hint, at, diag>>
        /\ IF Remaining(e) = 0
           THEN elapsed' = e /\ Done("timeout") /\ UNCHANGED attempt
           ELSE elapsed' = e + Delay /\ attempt' = attempt + 1 /\ UNCHANGED <<pc, result>>
    BY <1>7 DEF Request, e
  <2>2. Remaining(e) = 0 => e >= Budget
    BY <1>3 DEF Remaining
  <2> QED
    BY <1>1, <1>2, <1>3, <1>4, <1>5, <1>7, <2>1, <2>2 DEF Done
<1>8. CASE FetchFails(a) /\ ~(prefer /\ ShouldRetry(a.status) /\ attempt < Attempts)
  <2>1. hint' = hint /\ Advance(e)
    BY <1>8 DEF Request, ShouldFailOver, e
  <2> QED
    BY <1>1, <1>2, <1>3, <1>4, <1>5, <1>8, <2>1
<1> QED
  BY <1>6, <1>7, <1>8

LEMMA ReachStep == ASSUME FetchInv, ReachInv, [Next]_vars PROVE ReachInv'
<1>1. /\ Types /\ Placed /\ InTime /\ Count \in Nat /\ Stops \in Nat
      /\ WellAhead /\ OnTime /\ HealthyReached
      /\ {Floor, Budget, Attempts} \subseteq Nat \ {0} /\ Delay \in Nat
  BY PlanReaches, TimesAssumption DEF FetchInv, ReachInv
<1>2. at \in 1 .. Stops + 1 /\ attempt \in 1 .. Attempts /\ elapsed \in Nat
  BY <1>1 DEF Types, InTime
<1>3. CASE UNCHANGED vars
  <2>1. UNCHANGED <<slots, prefer, hint, pc, at, attempt, elapsed, result>>
    BY <1>3 DEF vars
  <2>2. /\ Count' = Count /\ Stops' = Stops /\ Plan' = Plan /\ Slot' = Slot
        /\ \A i : CostBefore(i)' = CostBefore(i) /\ Unit(i)' = Unit(i)
    BY <2>1, OrderStays, CostsStay DEF Slot
  <2> QED
    BY <1>1, <2>1, <2>2 DEF ReachInv, WellAhead, OnTime, HealthyReached
\* A call that ends well, or without a good endpoint in reach.
<1>4. ASSUME pc # "done", pc' = "done", UNCHANGED <<slots, prefer>>,
             result' = "ok" \/ hint' = hint,
             \A i \in 1 .. Count : /\ slots[i].health = "well" /\ CostBefore(i) + Floor <= Budget
                                   /\ \A j \in 1 .. Count : slots[j].health # "tokenless"
                                   => result' = "ok"
      PROVE  ReachInv'
  <2>1. Count' = Count /\ (hint' = hint => \A i : CostBefore(i)' = CostBefore(i))
    BY <1>4, CostsStay
  <2> QED
    BY <1>4, <2>1 DEF ReachInv, WellAhead, OnTime, HealthyReached
\* A call that goes on from an endpoint without a good answer to the next.
<1>5. ASSUME pc # "done", pc' = "visit", UNCHANGED <<slots, prefer, hint>>, at \in 1 .. Stops,
             slots[Slot].health # "well", at' = at + 1, attempt' = 1,
             at < Count => elapsed' \in Nat /\ elapsed' <= CostBefore(Slot) + Patience(Slot)
      PROVE  ReachInv'
  <2>1. /\ Count' = Count /\ Stops' = Stops /\ Plan' = Plan /\ Slot' = Plan[at']
        /\ \A i : CostBefore(i)' = CostBefore(i) /\ Unit(i)' = Unit(i)
    BY <1>5, OrderStays, CostsStay
  <2>2. WellAhead'
    BY <1>1, <1>5, <2>1 DEF WellAhead, Slot
  <2>3. OnTime'
    <3> SUFFICES ASSUME at + 1 <= Count
                 PROVE  elapsed' <= CostBefore(Plan[at + 1]) + (1 - 1) * Unit(Plan[at + 1])
      BY <1>5, <2>1 DEF OnTime
    <3>1. at \in 1 .. Count /\ at < Count /\ at + 1 \in 1 .. Count
      BY <1>1, <1>5
    <3>2. CostBefore(Plan[at + 1]) = CostBefore(Slot) + Patience(Slot)
      BY <1>1, <3>1, CostInOrder DEF Slot
    <3>3. Plan[at + 1] \in 1 .. Count /\ CostBefore(Plan[at + 1]) \in Nat
      BY <1>1, <3>1, CostInOrder
    <3>4. Unit(Plan[at + 1]) \in Nat
      BY <1>1, <3>3, PatienceIsNat
    <3>5. (1 - 1) * Unit(Plan[at + 1]) = 0
      BY <3>4
    <3> QED
      BY <1>5, <3>1, <3>2, <3>3, <3>5
  <2> QED
    BY <1>5, <2>2, <2>3 DEF ReachInv, HealthyReached
<1>6. CASE RequestRefused
  <2>1. /\ pc = "request" /\ pc' = "done" /\ UNCHANGED <<slots, prefer, hint>>
        /\ Remaining(elapsed) < Floor
    BY <1>6 DEF RequestRefused, Done
  <2>2. elapsed + Floor > Budget
    BY <1>1, <1>2, <2>1 DEF Remaining
  <2>3. ASSUME NEW i \in 1 .. Count, slots[i].health = "well", CostBefore(i) + Floor <= Budget
        PROVE  FALSE
    <3>1. elapsed + Floor <= Budget
      BY <2>1, <2>3, TimeIsLeft
    <3> QED
      BY <1>1, <1>2, <2>2, <3>1
  <2> QED
    BY <1>4, <2>1, <2>3
<1>7. CASE Visit
  <2>1. pc = "visit" /\ UNCHANGED <<slots, prefer, hint>> /\ attempt = 1
    BY <1>1, <1>7, VisitOutcomes DEF Placed
  <2>2. CASE pc' = "done" /\ ~(at <= Stops /\ Count > 0 /\ ~Live(Slot))
    <3>1. at > Stops \/ Count = 0 \/ slots[Slot].health = "tokenless"
      <4>1. Len(Plan) = Stops
        BY <1>1, PlanReaches
      <4>2. SUFFICES ASSUME ~(Count = 0 \/ at > Len(Plan)), slots[Slot].health # "tokenless"
                     PROVE  FALSE
        BY <1>1, <1>2, <4>1
      <4>3. Live(Slot)
        BY <1>1, <1>2, <2>2, <4>1, <4>2
      <4> QED
        BY <1>7, <2>2, <4>2, <4>3 DEF Visit
    <3>2. ASSUME NEW i \in 1 .. Count, slots[i].health = "well", CostBefore(i) + Floor <= Budget,
                 \A j \in 1 .. Count : slots[j].health # "tokenless"
          PROVE  FALSE
      <4>1. at \in 1 .. Count /\ at \in 1 .. Stops
        BY <2>1, <3>2, TimeIsLeft
      <4>2. Slot \in 1 .. Count
        BY <1>1, <4>1, PlanReaches DEF Slot
      <4> QED
        BY <1>1, <3>1, <3>2, <4>1, <4>2
    <3> QED
      BY <1>4, <2>1, <2>2, <3>2
  <2>3. CASE at <= Stops /\ Count > 0 /\ ~Live(Slot)
    <3>1. Advance(elapsed)
      <4>1. Len(Plan) = Stops
        BY <1>1, PlanReaches
      <4> QED
        BY <1>1, <1>2, <1>7, <2>3, <4>1 DEF Visit, Live
    <3>2. slots[Slot].health # "well" /\ at \in 1 .. Stops
      BY <1>1, <1>2, <2>3 DEF Live
    <3>3. CASE pc' = "done"
      <4>1. ASSUME NEW i \in 1 .. Count, slots[i].health = "well", CostBefore(i) + Floor <= Budget
            PROVE  FALSE
        <5>1. at < Count
          BY <2>1, <3>2, <4>1, TimeIsLeft
        <5> QED
          BY <1>1, <1>2, <3>1, <3>2, <3>3, <5>1, AdvanceInRound
      <4> QED
        BY <1>4, <2>1, <3>3, <4>1
    <3>4. CASE pc' # "done"
      <4>1. pc' = "visit" /\ at' = at + 1 /\ attempt' = 1
        BY <1>2, <3>1, <3>4, AdvanceOutcomes DEF Advanced
      <4>2. at < Count => elapsed' = elapsed
        BY <1>1, <1>2, <3>1, <3>2, AdvanceInRound
      <4>3. at < Count => elapsed <= CostBefore(Slot) + Patience(Slot)
        <5> SUFFICES ASSUME at < Count PROVE elapsed <= CostBefore(Slot) + Patience(Slot)
          OBVIOUS
        <5>1. at \in 1 .. Count
          BY <1>1, <1>2
        <5>2. Slot \in 1 .. Count /\ CostBefore(Slot) \in Nat /\ Patience(Slot) \in Nat
          BY <1>1, <5>1, CostInOrder DEF Slot
        <5>3. Unit(Slot) \in Nat /\ (1 - 1) * Unit(Slot) = 0
          BY <1>1, <5>2, PatienceIsNat
        <5>4. elapsed <= CostBefore(Slot) + (1 - 1) * Unit(Slot)
          BY <1>1, <2>1, <5>1 DEF OnTime
        <5> QED
          BY <1>2, <5>2, <5>3, <5>4
      <4> QED
        BY <1>2, <1>5, <2>1, <3>2, <4>1, <4>2, <4>3
    <3> QED
      BY <3>3, <3>4
  <2>4. CASE pc' # "done" /\ ~(at <= Stops /\ Count > 0 /\ ~Live(Slot))
    <3>1. pc' = "request" /\ UNCHANGED <<at, attempt, elapsed>>
      BY <1>1, <1>7, <2>4, VisitOutcomes DEF Ended
    <3>2. /\ Count' = Count /\ Stops' = Stops /\ Plan' = Plan /\ Slot' = Slot
          /\ \A i : CostBefore(i)' = CostBefore(i) /\ Unit(i)' = Unit(i)
      BY <2>1, <3>1, OrderStays, CostsStay DEF Slot
    <3> QED
      BY <1>1, <2>1, <3>1, <3>2 DEF ReachInv, WellAhead, OnTime, HealthyReached
  <2> QED
    BY <2>2, <2>3, <2>4
<1>8. ASSUME NEW a \in UNION {Answers(h) : h \in Healths \ {"off", "tokenless"}}, Request(a)
      PROVE  ReachInv'
  <2>1. /\ pc = "request" /\ UNCHANGED <<slots, prefer>> /\ Slot \in 1 .. Count /\ at \in 1 .. Stops
        /\ slots[Slot].health = "well" => pc' = "done" /\ result' = "ok"
        /\ slots[Slot].health \notin {"off", "tokenless"}
    BY <1>1, <1>8, RequestInTime DEF Placed
  <2>2. PICK e \in Nat :
            /\ e + Delay <= elapsed + Unit(Slot)
            /\ \/ pc' = "done" /\ result' = "ok"
               \/ pc' = "done" /\ e >= Budget
               \/ /\ UNCHANGED <<hint, at>> /\ pc' = "request" /\ attempt' = attempt + 1
                  /\ elapsed' = e + Delay
               \/ hint' = hint /\ Advance(e)
    BY <1>1, <1>8, RequestInTime
  <2>3. /\ Unit(Slot) \in Nat \ {0} /\ Patience(Slot) \in Nat
        /\ Patience(Slot) = IF prefer THEN Attempts * Unit(Slot) ELSE Unit(Slot)
    BY <1>1, <2>1, PatienceIsNat DEF Live
  <2>4. CASE pc' = "done" /\ result' = "ok"
    BY <1>4, <2>1, <2>4
  <2>5. CASE pc' = "done" /\ result' # "ok"
    <3>1. hint' = hint
      BY <1>1, <1>8, <2>5, RequestOutcomes DEF Ended
    <3>2. ASSUME NEW i \in 1 .. Count, slots[i].health = "well", CostBefore(i) + Floor <= Budget
          PROVE  FALSE
      <4>1. slots[Slot].health # "well"
        BY <2>1, <2>5
      <4>2. at < Count /\ elapsed + Unit(Slot) + Floor <= Budget
        BY <2>1, <3>2, <4>1, TimeIsLeft
      <4>3. e < Budget
        BY <1>1, <1>2, <2>2, <2>3, <4>2
      <4>4. Advance(e)
        BY <1>1, <2>2, <2>5, <4>3
      <4> QED
        BY <1>1, <1>2, <2>5, <4>2, <4>4, AdvanceInRound
    <3> QED
      BY <1>4, <2>1, <2>5, <3>1, <3>2
  <2>6. CASE UNCHANGED <<hint, at>> /\ pc' = "request" /\ attempt' = attempt + 1 /\ elapsed' = e + Delay
    <3>1. /\ Count' = Count /\ Stops' = Stops /\ Plan' = Plan /\ Slot' = Slot
          /\ \A i : CostBefore(i)' = CostBefore(i) /\ Unit(i)' = Unit(i)
      BY <2>1, <2>6, OrderStays, CostsStay DEF Slot
    <3>2. WellAhead'
      BY <1>1, <2>1, <2>6, <3>1 DEF WellAhead
    <3>3. OnTime'
      <4> SUFFICES ASSUME at <= Count
                   PROVE  e + Delay <= CostBefore(Slot) + ((attempt + 1) - 1) * Unit(Slot)
        BY <2>6, <3>1 DEF OnTime
      <4>1. elapsed <= CostBefore(Slot) + (attempt - 1) * Unit(Slot)
        BY <1>1, <2>1 DEF OnTime
      <4>2. CostBefore(Slot) \in Nat
        <5>1. at \in 1 .. Count
          BY <1>1, <2>1
        <5> QED
          BY <1>1, <5>1, CostInOrder DEF Slot
      <4>3. /\ ((attempt + 1) - 1) * Unit(Slot) = (attempt - 1) * Unit(Slot) + Unit(Slot)
            /\ (attempt - 1) * Unit(Slot) \in Nat
        BY <1>1, <1>2, <2>3
      <4> DEFINE u == (attempt - 1) * Unit(Slot)
      <4>4. u \in Nat /\ elapsed <= CostBefore(Slot) + u /\ ((attempt + 1) - 1) * Unit(Slot) = u + Unit(Slot)
        BY <4>1, <4>3
      <4> HIDE DEF u
      <4>5. e + Delay <= CostBefore(Slot) + (u + Unit(Slot))
        BY <1>1, <1>2, <2>2, <2>3, <4>2, <4>4
      <4> QED
        BY <4>4, <4>5
    <3> QED
      BY <2>6, <3>2, <3>3 DEF ReachInv, HealthyReached
  <2>7. CASE pc' # "done" /\ hint' = hint /\ Advance(e)
    <3>1. pc' = "visit" /\ at' = at + 1 /\ attempt' = 1
      BY <2>7, AdvanceOutcomes DEF Advanced
    <3>2. slots[Slot].health # "well"
      BY <2>1, <2>7
    <3>3. at < Count => elapsed' \in Nat /\ elapsed' <= CostBefore(Slot) + Patience(Slot)
      <4> SUFFICES ASSUME at < Count
                   PROVE  elapsed' \in Nat /\ elapsed' <= CostBefore(Slot) + Patience(Slot)
        OBVIOUS
      <4>1. elapsed' = e
        BY <1>1, <1>2, <2>7, AdvanceInRound
      <4>2. at \in 1 .. Count
        BY <1>1, <1>2
      <4>3. CostBefore(Slot) \in Nat
        BY <1>1, <4>2, CostInOrder DEF Slot
      <4> DEFINE u == (attempt - 1) * Unit(Slot)
      <4>4. elapsed <= CostBefore(Slot) + u
        BY <1>1, <2>1, <4>2 DEF OnTime
      <4>5. u \in Nat /\ u + Unit(Slot) <= Patience(Slot)
        <5>1. CASE prefer
          <6>1. attempt * Unit(Slot) <= Attempts * Unit(Slot)
            BY <1>1, <1>2, <2>3
          <6>2. (attempt - 1) * Unit(Slot) + Unit(Slot) = attempt * Unit(Slot) /\ (attempt - 1) * Unit(Slot) \in Nat
            BY <1>1, <1>2, <2>3
          <6> QED
            BY <2>3, <5>1, <6>1, <6>2
        <5>2. CASE ~prefer
          <6>1. attempt = 1
            BY <1>1, <2>1, <5>2 DEF Placed
          <6>2. (1 - 1) * Unit(Slot) = 0
            BY <2>3
          <6> QED
            BY <2>3, <5>2, <6>1, <6>2
        <5> QED
          BY <5>1, <5>2
      <4> HIDE DEF u
      <4> QED
        BY <1>1, <1>2, <2>2, <2>3, <4>1, <4>3, <4>4, <4>5
    <3> QED
      BY <1>5, <2>1, <2>7, <3>1, <3>2, <3>3
  <2> QED
    BY <2>2, <2>4, <2>5, <2>6, <2>7
<1> QED
  BY <1>3, <1>6, <1>7, <1>8 DEF Next

LEMMA ReachStart == Init => ReachInv
<1> SUFFICES ASSUME Init PROVE ReachInv
  OBVIOUS
<1>1. Types /\ Count \in Nat /\ Stops \in Nat /\ pc = "visit" /\ at = 1 /\ attempt = 1 /\ elapsed = 0
  BY FetchStart, PlanReaches DEF FetchInv, Init
<1>2. WellAhead /\ HealthyReached
  BY <1>1 DEF WellAhead, HealthyReached
<1>3. OnTime
  <2> SUFFICES ASSUME 1 <= Count PROVE 0 <= CostBefore(Plan[1]) + (1 - 1) * Unit(Plan[1])
    BY <1>1 DEF OnTime, Slot
  <2>1. 1 \in 1 .. Count /\ Plan[1] \in 1 .. Count /\ CostBefore(Plan[1]) = 0
    BY <1>1, CostInOrder
  <2>2. Unit(Plan[1]) \in Nat
    BY <1>1, <2>1, PatienceIsNat
  <2> QED
    BY <2>1, <2>2
<1> QED
  BY <1>2, <1>3 DEF ReachInv

\* For any number of endpoints, attempts, lengths of the time-outs and budget: a
\* good endpoint is reached if the budget allows for those before it, wherever
\* it stands and whichever was good last (api_client_fetch_with_failover).
THEOREM GoodEndpointsAreReached == Spec => []HealthyReached
<1>1. FetchInv /\ [Next]_vars => FetchInv'
  BY BasicStep, ReasonsStep, AskedStep DEF FetchInv
<1>2. FetchInv /\ ReachInv /\ [Next]_vars => ReachInv'
  BY ReachStep
<1>3. ReachInv => HealthyReached
  BY DEF ReachInv
<1> QED
  BY <1>1, <1>2, <1>3, FetchStart, ReachStart, PTL DEF Spec

=============================================================================
