------------------------------- MODULE WifiRoam -------------------------------
(***************************************************************************)
(* How the main task gets onto one of its networks: ensure_wifi_connected, *)
(* the scan, the attempts in order of strength and the fallback of         *)
(* wifi_roam_connect, and the wait of connect_one, against the driver and  *)
(* its events, which another task delivers late.                           *)
(*                                                                         *)
(* The driver, DHCP and the netif are modelled from how this code uses     *)
(* them: the address belongs to the netif, which learns of a lost link     *)
(* only by the event.                                                      *)
(***************************************************************************)
EXTENDS Integers, Sequences, FiniteSets, SequencesExt

CONSTANTS
    N,          \* networks of the configuration
    Strengths,  \* how strong an access point may be
    MaxScans,   \* WIFI_SCAN_MAX_TRIES
    MaxEvents   \* bound: events on their way

ASSUME NetsAssumption == N \in Nat \ {0} /\ Strengths \subseteq Nat
ASSUME BoundsAssumption == MaxScans \in Nat \ {0} /\ MaxEvents \in Nat \ {0}

VARIABLES
    enabled,  \* networks that are enabled and named
    rssi,     \* strength of each network's best access point
    keep,     \* keep_wifi_connected
    hint,     \* last_success_network_idx, 0 for none
    cur,      \* network_idx of app_main, 0 for none
    pc,       \* "idle", "scan", "pick", "settle" or "wait"
    scans,    \* scan_try
    cands,    \* candidates
    at,       \* the candidate in turn; one past the last for the fallback
    diag,     \* the reason noted for each network
    state,    \* connect_state_t of the attempt, when its handler is registered
    driver,   \* what the driver does, and for which network
    netif,    \* the network the netif is up on, and whether it has an address
    events,   \* posted by the driver, not delivered yet
    tried,    \* history: attempts of this call
    denied    \* history: networks whose access point refused in this call
vars == <<enabled, rssi, keep, hint, cur, pc, scans, cands, at, diag, state, driver, netif, events,
          tried, denied>>

Nets == 1 .. N
Reasons == {"no-ap", "auth-err", "timeout"}

Idle == [does |-> "idle", net |-> 0]
NetifDown == [net |-> 0, ip |-> FALSE]
NoHandler == [on |-> FALSE, down |-> FALSE, auth |-> FALSE, reason |-> "none"]
Fresh == [NoHandler EXCEPT !.on = TRUE]

Said(d, i, reason) == [d EXCEPT ![i] = reason]
----------------------------------------------------------------------------
\* The driver and the event task.

Post(kind, reason) == events' = Append(events, [kind |-> kind, net |-> driver.net, reason |-> reason])

Associate ==
    /\ driver.does = "connecting" /\ Len(events) < MaxEvents
    /\ driver' = [driver EXCEPT !.does = "up"]
    /\ Post("connected", "none")
    /\ UNCHANGED <<enabled, rssi, keep, hint, cur, pc, scans, cands, at, diag, state, netif, tried, denied>>

\* After its own retries: no access point, a refusal, or something else; a lost
\* packet looks like a refusal too.
LinkFails(reason) ==
    /\ driver.does # "idle" /\ Len(events) < MaxEvents
    /\ reason = "other" \/ driver.does = "connecting"
    /\ driver' = [driver EXCEPT !.does = "idle"]
    /\ Post("disconnected", reason)
    /\ denied' = IF reason = "auth" THEN denied \union {driver.net} ELSE denied
    /\ UNCHANGED <<enabled, rssi, keep, hint, cur, pc, scans, cands, at, diag, state, netif, tried>>

GetAddress ==
    /\ driver.does = "up" /\ netif.net = driver.net /\ ~netif.ip
    /\ netif' = [netif EXCEPT !.ip = TRUE]
    /\ UNCHANGED <<enabled, rssi, keep, hint, cur, pc, scans, cands, at, diag, state, driver, events,
                   tried, denied>>

\* wifi_event_handler, when registered
Handled(e) ==
    CASE ~state.on -> state
      [] e.kind = "connected" -> [state EXCEPT !.down = FALSE]
      [] OTHER -> [state EXCEPT !.down = TRUE, !.reason = e.reason, !.auth = @ \/ e.reason = "auth"]

Deliver ==
    /\ events # <<>> /\ events' = Tail(events)
    /\ LET e == Head(events)
       IN /\ state' = Handled(e)
          /\ netif' = IF e.kind = "connected" THEN [net |-> e.net, ip |-> FALSE] ELSE NetifDown
    /\ UNCHANGED <<enabled, rssi, keep, hint, cur, pc, scans, cands, at, diag, driver, tried, denied>>
----------------------------------------------------------------------------
\* ensure_wifi_connected and the scan.

\* wifi_net_is_connected asks the driver, not the netif.
Reuses == keep /\ driver.does = "up" /\ cur # 0

Begin ==
    /\ pc = "idle" /\ ~Reuses /\ (keep \/ driver.does = "idle")
    /\ pc' = "scan" /\ cur' = 0 /\ scans' = 0 /\ cands' = <<>> /\ at' = 1
    /\ diag' = [i \in Nets |-> "none"]
    /\ tried' = <<>> /\ denied' = {}
    /\ UNCHANGED <<enabled, rssi, keep, hint, state, driver, netif, events>>

\* wifi_net_stop, before the next call unless the link is kept
Stop ==
    /\ pc = "idle" /\ ~keep /\ driver.does # "idle" /\ Len(events) < MaxEvents
    /\ driver' = Idle /\ Post("disconnected", "other")
    /\ UNCHANGED <<enabled, rssi, keep, hint, cur, pc, scans, cands, at, diag, state, netif, tried, denied>>

\* sort_candidates
Stronger(i, j) == rssi[i] > rssi[j] \/ (rssi[i] = rssi[j] /\ i < j)
Place(seen, i) == Cardinality({j \in seen : Stronger(j, i)}) + 1
Sorted(seen) == [k \in 1 .. Cardinality(seen) |-> CHOOSE i \in seen : Place(seen, i) = k]

ScansAlways == TRUE \* mutant
ScansAgain == scans + 1 < MaxScans

Scan(seen) ==
    /\ pc = "scan" /\ seen \subseteq enabled
    /\ diag' = [i \in Nets |-> IF i \in enabled \ seen THEN "no-ap" ELSE diag[i]]
    /\ IF seen = {} /\ ScansAgain
       THEN scans' = (scans + 1) % MaxScans /\ UNCHANGED <<pc, cands>>
       ELSE /\ cands' = Sorted(seen)
            /\ pc' = "pick" /\ UNCHANGED scans
    /\ UNCHANGED <<enabled, rssi, keep, hint, cur, at, state, driver, netif, events, tried, denied>>

\* The driver does not scan, or memory is short: the call ends, also in a second scan.
ScanFails ==
    /\ pc = "scan" /\ pc' = "idle"
    /\ UNCHANGED <<enabled, rssi, keep, hint, cur, scans, cands, at, diag, state, driver, netif, events,
                   tried, denied>>
----------------------------------------------------------------------------
\* Attempts.

FallbackAny == at = Len(cands) + 1 /\ hint # 0 \* mutant
Fallback == at = Len(cands) + 1 /\ hint # 0 /\ ~Contains(cands, hint)

Target == IF at <= Len(cands) THEN cands[at] ELSE hint

\* esp_wifi_disconnect, which posts an event when there was something to end
CancelNone == UNCHANGED <<driver, events>> \* mutant
Cancel ==
    /\ driver' = Idle
    /\ IF driver.does = "idle" THEN UNCHANGED events ELSE Post("disconnected", "other")

Pick ==
    /\ pc = "pick" /\ (at <= Len(cands) \/ Fallback)
    /\ IF Target \in enabled
       THEN pc' = "settle" /\ Cancel /\ tried' = Append(tried, Target) /\ UNCHANGED <<diag, at>>
       ELSE /\ diag' = Said(diag, Target, "no-ap") /\ at' = at + 1
            /\ UNCHANGED <<pc, driver, events, tried>>
    /\ UNCHANGED <<enabled, rssi, keep, hint, cur, scans, cands, state, netif, denied>>

GiveUp ==
    /\ pc = "pick" /\ at > Len(cands) /\ ~Fallback
    /\ pc' = "idle"
    /\ UNCHANGED <<enabled, rssi, keep, hint, cur, scans, cands, at, diag, state, driver, netif, events,
                   tried, denied>>

\* The settle delay is long enough for what was posted.
SettledAtOnce == TRUE \* mutant
Settled == events = <<>>

\* The handler is registered and the driver asked to connect.
Connect ==
    /\ pc = "settle" /\ Settled
    /\ state' = Fresh /\ driver' = [does |-> "connecting", net |-> Target]
    /\ pc' = "wait"
    /\ UNCHANGED <<enabled, rssi, keep, hint, cur, scans, cands, at, diag, netif, events, tried, denied>>

\* wait_for_ip_with_retries: connect again some time after the link went down
Retry ==
    /\ pc = "wait" /\ ~netif.ip /\ state.down
    /\ state' = [state EXCEPT !.down = FALSE]
    /\ driver' = IF driver.does = "idle" THEN [driver EXCEPT !.does = "connecting"] ELSE driver
    /\ UNCHANGED <<enabled, rssi, keep, hint, cur, pc, scans, cands, at, diag, netif, events, tried, denied>>

Joined ==
    /\ pc = "wait" /\ netif.ip
    /\ cur' = Target /\ pc' = "idle" /\ state' = NoHandler
    /\ hint' = IF at <= Len(cands) THEN Target ELSE hint
    /\ UNCHANGED <<enabled, rssi, keep, scans, cands, at, diag, driver, netif, events, tried, denied>>

\* connect_failure_reason
FailureReason ==
    IF at > Len(cands) \/ state.reason = "no-ap" THEN "no-ap"
    ELSE IF state.auth THEN "auth-err" ELSE "timeout"

\* The time is over, also when an address arrives just now, or a connect failed.
Expire ==
    /\ pc = "wait"
    /\ diag' = Said(diag, Target, FailureReason)
    /\ Cancel
    /\ state' = NoHandler /\ at' = at + 1 /\ pc' = "pick"
    /\ UNCHANGED <<enabled, rssi, keep, hint, cur, scans, cands, netif, tried, denied>>
----------------------------------------------------------------------------
Init ==
    /\ enabled \in SUBSET Nets /\ rssi \in [Nets -> Strengths] /\ keep \in BOOLEAN
    /\ hint \in 0 .. N /\ cur = hint
    /\ pc = "idle" /\ scans = 0 /\ cands = <<>> /\ at = 1
    /\ diag = [i \in Nets |-> "none"] /\ state = NoHandler
    /\ driver = Idle /\ netif = NetifDown /\ events = <<>>
    /\ tried = <<>> /\ denied = {}

Main ==
    \/ Begin \/ Stop \/ (\E seen \in SUBSET Nets : Scan(seen)) \/ ScanFails
    \/ Pick \/ GiveUp \/ Connect \/ Retry \/ Joined \/ Expire

Driver == Associate \/ (\E r \in {"no-ap", "auth", "other"} : LinkFails(r)) \/ GetAddress \/ Deliver

Next == Main \/ Driver
Spec == Init /\ [][Next]_vars

\* The main task runs, its time-outs end, and posted events are delivered.
LiveSpec == Spec /\ WF_vars(Main) /\ WF_vars(Expire) /\ WF_vars(Deliver)
----------------------------------------------------------------------------
\* Properties.

TypeOK ==
    /\ enabled \subseteq Nets /\ hint \in 0 .. N /\ cur \in 0 .. N
    /\ pc \in {"idle", "scan", "pick", "settle", "wait"} /\ scans \in 0 .. MaxScans - 1
    /\ cands \in Seq(enabled) /\ at \in 1 .. Len(cands) + 2
    /\ diag \in [Nets -> Reasons \union {"none"}]
    /\ state.on <=> pc = "wait"
    /\ driver.does \in {"idle", "connecting", "up"} /\ driver.net \in 0 .. N
    /\ netif.net \in 0 .. N /\ (netif.ip => netif.net # 0)
    /\ \A k \in DOMAIN events : events[k].net \in Nets

\* The network that the main task believes to have joined is the one the
\* address is from, however late a former attempt's address or events come in.
AddressIsJoined == [][Joined => netif.net = Target]_vars

\* A link that is kept is one of the network the endpoints are taken from.
ReusedIsCurrent == pc = "idle" /\ Reuses => driver.net = cur

\* The poster blames a password only where an access point refused in this call.
BlameDeserved == \A i \in Nets : diag[i] = "auth-err" => i \in denied

\* What the rest of the cycle takes from here is true: the network and the blame.
RoamSafety == TypeOK /\ ReusedIsCurrent /\ BlameDeserved

\* A call that gives up has tried each network it saw and the last good one,
\* none of them twice, and says of each enabled network why it failed.
GaveUpProperly ==
    [][GiveUp =>
        /\ \A i \in enabled : diag[i] # "none"
        /\ IsInjective(tried)
        /\ {tried[k] : k \in DOMAIN tried} =
               enabled \intersect ({cands[k] : k \in DOMAIN cands} \union ({hint} \ {0}))]_vars

\* Every call comes to an end.
CallEnds == (pc # "idle") ~> (pc = "idle")
=============================================================================
