------------------------------ MODULE ApiFailover ------------------------------
(***************************************************************************)
(* One call of api_client_fetch_with_failover: the endpoints of the joined *)
(* network, in rounds or from the last good one on, with retries, under    *)
(* one time budget.  Time is counted in quarters of a second; a request    *)
(* takes a moment or its whole timeout.                                    *)
(***************************************************************************)
EXTENDS Integers, Sequences

CONSTANTS
    MaxSlots,      \* bound: endpoints of the network, MAX_APIS_PER_NETWORK
    Healths,       \* how endpoints may be, see Answers
    Errors,        \* what failing endpoints answer
    Relays,        \* whether endpoints may be relays
    Prefers,       \* prefer_last_success_api
    ApiTimeout,    \* cfg->api_timeout_s, clamped
    RelayTimeout,  \* RELAY_HTTP_TIMEOUT_MS
    Budget,        \* DASHBOARD_FETCH_CYCLE_BUDGET_MS
    Floor,         \* DASHBOARD_FETCH_MIN_REQUEST_MS
    Delay,         \* DASHBOARD_HTTP_RETRY_DELAY_MS
    Attempts       \* DASHBOARD_HTTP_ATTEMPTS

ASSUME TimesAssumption ==
    {ApiTimeout, RelayTimeout, Floor, Budget, Attempts} \subseteq Nat \ {0} /\ Delay \in Nat
ASSUME ChoicesAssumption ==
    /\ Healths \subseteq {"off", "tokenless", "well", "hangs", "denies", "errs"}
    /\ MaxSlots \in Nat /\ Errors \subseteq Nat
    /\ Relays \subseteq BOOLEAN /\ Prefers \subseteq BOOLEAN

VARIABLES
    slots,    \* the endpoints, with their health
    prefer,   \* start with the last good one
    hint,     \* last_success_api_idx, 0 for none; it may be another network's
    pc,       \* "visit", "request" or "done"
    at,       \* place in Plan
    attempt,  \* at this endpoint, when it is retried on the spot
    elapsed,  \* since the call
    diag,     \* the reason of each endpoint's failure
    asked,    \* history: requests to each endpoint
    result
vars == <<slots, prefer, hint, pc, at, attempt, elapsed, diag, asked, result>>

NoReason == -1
Count == Len(slots)
Live(i) == slots[i].health # "off"

Start == IF prefer /\ hint \in 1 .. Count THEN hint ELSE 0

\* The endpoints in the order of the two loops: Start comes before the others
StartFirst == [k \in 1 .. Count |-> IF k > Start THEN k ELSE IF k = 1 THEN Start ELSE k - 1]
PlanShort == IF prefer THEN StartFirst ELSE [k \in 1 .. Attempts * (Count - 1) |-> ((k - 1) % (Count - 1)) + 1] \* mutant
Plan == IF prefer THEN StartFirst ELSE [k \in 1 .. Attempts * Count |-> ((k - 1) % Count) + 1]

Slot == Plan[at]

Done(r) == pc' = "done" /\ result' = r

\* On to the next endpoint; rounds are a delay apart.
Advance(e) ==
    /\ at' = at + 1 /\ attempt' = 1
    /\ IF ~prefer /\ at % Count = 0 /\ at < Len(Plan)
       THEN IF e >= Budget
            THEN elapsed' = e /\ Done("timeout")
            ELSE elapsed' = e + Delay /\ pc' = "visit" /\ UNCHANGED result
       ELSE elapsed' = e /\ pc' = "visit" /\ UNCHANGED result

Visit ==
    /\ pc = "visit"
    /\ IF Count = 0 \/ at > Len(Plan)
       THEN /\ Done(IF Count = 0 THEN "permanent" ELSE "failed")
            /\ UNCHANGED <<at, attempt, elapsed, diag>>
       ELSE CASE ~Live(Slot) -> Advance(elapsed) /\ UNCHANGED diag
              [] slots[Slot].health = "tokenless" ->
                    /\ Done("permanent")
                    /\ diag' = [diag EXCEPT ![Slot] = 401]
                    /\ UNCHANGED <<at, attempt, elapsed>>
              [] OTHER -> pc' = "request" /\ UNCHANGED <<at, attempt, elapsed, diag, result>>
    /\ UNCHANGED <<slots, prefer, hint, asked>>
----------------------------------------------------------------------------
\* Requests.

\* Status and body of what comes back; status 0 when nothing does.
Answers(h) ==
    CASE h = "well" -> {[status |-> 200, sound |-> TRUE]}
      [] h = "hangs" -> {[status |-> 0, sound |-> FALSE]}
      [] h = "denies" -> {[status |-> 401, sound |-> FALSE]}
      [] h = "errs" -> {[status |-> s, sound |-> FALSE] : s \in Errors}

\* fetch_one: also a bad status, a truncated body and bad JSON are errors
FetchFails(a) == a.status \notin 200 .. 299 \/ ~a.sound

ShouldFailOver(status, failed) ==
    failed \/ (status \notin {401, 403} /\ (status \in {404, 429} \/ status \in 500 .. 599))

ShouldRetry(status) == status = 0 \/ status \in {408, 429} \/ status \in 500 .. 599

Remaining(e) == IF e >= Budget THEN 0 ELSE Budget - e

ProfileTimeoutWhole(i) == IF slots[i].relay THEN RelayTimeout ELSE ApiTimeout \* mutant
ProfileTimeout(i) ==
    LET t == IF slots[i].relay THEN RelayTimeout ELSE ApiTimeout
    IN IF t < Remaining(elapsed) THEN t ELSE Remaining(elapsed)

RequestRefused ==
    /\ pc = "request" /\ Remaining(elapsed) < Floor
    /\ Done("timeout")
    /\ UNCHANGED <<slots, prefer, hint, at, attempt, elapsed, diag, asked>>

Request(a) ==
    /\ pc = "request" /\ Remaining(elapsed) >= Floor
    /\ a \in Answers(slots[Slot].health)
    /\ asked' = [asked EXCEPT ![Slot] = @ + 1]
    /\ LET e == elapsed + IF slots[Slot].health = "hangs" THEN ProfileTimeout(Slot) ELSE 1
       IN CASE ~FetchFails(a) ->
                /\ hint' = Slot /\ Done("ok") /\ elapsed' = e
                /\ UNCHANGED <<at, attempt, diag>>
            [] FetchFails(a) /\ prefer /\ ShouldRetry(a.status) /\ attempt < Attempts ->
                /\ UNCHANGED <<hint, at, diag>>
                /\ IF Remaining(e) = 0
                   THEN elapsed' = e /\ Done("timeout") /\ UNCHANGED attempt
                   ELSE elapsed' = e + Delay /\ attempt' = attempt + 1 /\ UNCHANGED <<pc, result>>
            [] OTHER ->
                /\ diag' = [diag EXCEPT ![Slot] = a.status]
                /\ UNCHANGED hint
                /\ IF ShouldFailOver(a.status, TRUE) THEN Advance(e)
                   ELSE Done("failed") /\ elapsed' = e /\ UNCHANGED <<at, attempt>>
    /\ UNCHANGED <<slots, prefer>>
----------------------------------------------------------------------------
Endpoints == [health : Healths, relay : Relays]

Init ==
    /\ slots \in UNION {[1 .. n -> Endpoints] : n \in 0 .. MaxSlots}
    /\ prefer \in Prefers /\ hint \in 0 .. MaxSlots
    /\ pc = "visit" /\ at = 1 /\ attempt = 1 /\ elapsed = 0
    /\ diag = [i \in 1 .. Count |-> NoReason] /\ asked = [i \in 1 .. Count |-> 0]
    /\ result = "none"

Next ==
    \/ Visit \/ RequestRefused
    \/ \E a \in UNION {Answers(h) : h \in Healths \ {"off", "tokenless"}} : Request(a)

Spec == Init /\ [][Next]_vars
----------------------------------------------------------------------------
\* Properties.

TypeOK ==
    /\ pc \in {"visit", "request", "done"}
    /\ result \in {"none", "ok", "failed", "timeout", "permanent"} /\ (pc = "done" <=> result # "none")
    /\ hint \in 0 .. MaxSlots /\ attempt \in 1 .. Attempts /\ elapsed \in Nat
    /\ at \in 1 .. Len(Plan) + 1
    /\ pc = "request" => at \in 1 .. Len(Plan) /\ slots[Slot].health \notin {"off", "tokenless"}
    /\ diag \in [1 .. Count -> {NoReason, 0, 200, 401} \union Errors]

\* Whatever mixture of hanging and failing endpoints, the call keeps the device
\* awake no longer than its budget and a last short delay.
BudgetHolds == elapsed <= Budget + Delay

\* No endpoint is asked more often than the number of attempts, in rounds or on
\* the spot, whichever endpoint was the last good one; and one whose answer
\* cannot get better is asked once when it is not in rounds.
AskedSparingly ==
    \A i \in 1 .. Count :
        /\ asked[i] <= Attempts
        /\ prefer /\ slots[i].health = "denies" => asked[i] <= 1

\* When all endpoints are said to be down, the poster has a reason for each.
PosterComplete ==
    result = "failed" => \A i \in 1 .. Count : Live(i) => diag[i] # NoReason

\* A call that fails is short, thrifty and has something to say.
FetchSafety == TypeOK /\ BudgetHolds /\ AskedSparingly /\ PosterComplete

\* What an endpoint can cost before the one after it is asked
Patience(i) ==
    IF ~Live(i) THEN 0
    ELSE (IF prefer THEN Attempts ELSE 1) *
         (Delay + IF slots[i].health # "hangs" THEN 1 ELSE IF slots[i].relay THEN RelayTimeout ELSE ApiTimeout)

\* What the first i endpoints can cost, and what can be spent before endpoint i
\* is asked: the last good one comes before all others.
Cost[i \in 0 .. Count] == IF i = 0 THEN 0 ELSE Cost[i - 1] + Patience(i)
CostBefore(i) == IF i = Start THEN 0 ELSE Cost[i - 1] + IF i < Start THEN Patience(Start) ELSE 0

\* A good endpoint is found behind any that are not, wherever it stands and
\* whichever was good last, as long as the budget allows for the time that those
\* before it can take; a missing token is the user's to repair first.
HealthyReached ==
    /\ pc = "done" /\ \A i \in 1 .. Count : slots[i].health # "tokenless"
    /\ \E i \in 1 .. Count : slots[i].health = "well" /\ CostBefore(i) + Floor <= Budget
    => result = "ok"
=============================================================================
