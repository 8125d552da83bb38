--------------------------- MODULE WifiRoamProofs ---------------------------
(***************************************************************************)
(* Theorems about WifiRoam, for every number of networks, every strength   *)
(* and every number of scans and of events on their way.                   *)
(***************************************************************************)
EXTENDS WifiRoam, SequenceTheorems, FunctionTheorems, FiniteSetTheorems, TLAPS

Causes == {"none", "no-ap", "auth", "other"}
State == [on : BOOLEAN, down : BOOLEAN, auth : BOOLEAN, reason : Causes]
Event == [kind : {"connected", "disconnected"}, net : Nets, reason : Causes]
InCall == pc \in {"pick", "settle", "wait"}
Trying == pc \in {"settle", "wait"}

Types ==
    /\ enabled \subseteq Nets /\ hint \in 0 .. N /\ cur \in 0 .. N
    /\ rssi \in [Nets -> Strengths]
    /\ pc \in {"idle", "scan", "pick", "settle", "wait"} /\ scans \in 0 .. MaxScans - 1
    /\ cands \in Seq(enabled) /\ at \in 1 .. Len(cands) + 2
    /\ diag \in [Nets -> Reasons \union {"none"}] /\ state \in State
    /\ driver \in [does : {"idle", "connecting", "up"}, net : 0 .. N]
    /\ netif \in [net : 0 .. N, ip : BOOLEAN]
    /\ events \in Seq(Event) /\ tried \in Seq(Nets)

\* The driver works for a network, and of a link that it has not, the netif
\* knows already or learns by the last event on its way.
LinkKnown ==
    /\ driver.does # "idle" => driver.net \in Nets
    /\ netif.ip => netif.net # 0
    /\ driver.does # "up" =>
           IF events = <<>> THEN netif.net = 0 ELSE events[Len(events)].kind = "disconnected"

\* What an attempt waits for is of its own network: the driver's work, the
\* netif, the events and a refusal that its handler has noted.
WaitIsForTarget ==
    /\ state.on <=> pc = "wait"
    /\ pc = "wait" =>
           /\ driver.net = Target /\ netif.net \in {0, Target}
           /\ \A k \in 1 .. Len(events) :
                  events[k].net = Target /\ (events[k].reason = "auth" => Target \in denied)
           /\ state.auth => Target \in denied

\* Where the call stands: an attempt is of an enabled network, a candidate or
\* the fallback, and begins with an idle driver; the network that was joined is
\* forgotten from the scan on, and else the one the driver is on.
CallStands ==
    /\ Trying => Target \in enabled /\ (at <= Len(cands) \/ Fallback)
    /\ pc = "pick" /\ at = Len(cands) + 2 => hint # 0 /\ ~Contains(cands, hint)
    /\ pc = "settle" => driver.does = "idle"
    /\ pc = "scan" => cands = <<>> /\ at = 1 /\ tried = <<>>
    /\ pc # "idle" => cur = 0
    /\ pc = "idle" /\ cur # 0 /\ driver.does # "idle" => driver.net = cur

\* The reasons noted so far.
ReasonsNoted ==
    /\ BlameDeserved
    /\ InCall =>
           \A i \in enabled :
               (\A k \in 1 .. Len(cands) : cands[k] = i => k < at) => diag[i] # "none"

Planned(k) == IF k <= Len(cands) THEN cands[k] ELSE hint

\* The attempts so far: the candidates in turn, then the fallback.
TriedInTurn ==
    InCall =>
        /\ \A i, j \in 1 .. Len(cands) : cands[i] = cands[j] => i = j
        /\ Len(tried) = IF Trying THEN at
                        ELSE IF at = Len(cands) + 2 /\ hint \notin enabled THEN at - 2 ELSE at - 1
        /\ \A k \in 1 .. Len(tried) : tried[k] = Planned(k)

RoamInv == Types /\ LinkKnown /\ WaitIsForTarget /\ CallStands /\ ReasonsNoted /\ TriedInTurn

-----------------------------------------------------------------------------
(* Sorting                                                                  *)

\* The places of the networks seen are 1, 2, ... without a gap.
LEMMA PlacesOnto ==
    ASSUME Types, NEW S \in SUBSET Nets
    PROVE  /\ IsFiniteSet(S) /\ Cardinality(S) \in Nat
           /\ \A i \in S : Place(S, i) \in 1 .. Cardinality(S)
           /\ \A k \in 1 .. Cardinality(S) : \E i \in S : Place(S, i) = k
<1> DEFINE n == Cardinality(S)
           above(i) == {j \in S : Stronger(j, i)}
           place == [i \in S |-> Place(S, i)]
<1>1. IsFiniteSet(S) /\ n \in Nat
  <2>1. IsFiniteSet(1 .. N)
    BY NetsAssumption, FS_Interval
  <2> QED
    BY <2>1, FS_Subset, FS_CardinalityType DEF Nets
<1>2. \A i \in S : i \in Nat /\ rssi[i] \in Nat
  <2>1. \A i \in S : i \in Nets /\ rssi[i] \in Strengths
    BY DEF Types
  <2>2. Nets \subseteq Nat
    BY NetsAssumption DEF Nets
  <2> QED
    BY <2>1, <2>2, NetsAssumption
<1>3. ASSUME NEW i \in S, NEW T \in SUBSET S, above(i) \subseteq T \ {i}, i \in T
      PROVE  /\ IsFiniteSet(T) /\ Cardinality(above(i)) \in Nat
             /\ Cardinality(above(i)) < Cardinality(T) /\ Cardinality(T) \in Nat
  <2>1. IsFiniteSet(T) /\ Cardinality(T) \in Nat
    BY <1>1, FS_Subset, FS_CardinalityType
  <2>2. IsFiniteSet(T \ {i}) /\ Cardinality(T \ {i}) = Cardinality(T) - 1
    BY <1>3, <2>1, FS_RemoveElement
  <2>3. Cardinality(above(i)) \in Nat /\ Cardinality(above(i)) <= Cardinality(T) - 1
    BY <1>3, <2>2, FS_Subset, FS_CardinalityType
  <2> QED
    BY <2>1, <2>3
<1>4. \A i \in S : Place(S, i) \in 1 .. n
  <2> SUFFICES ASSUME NEW i \in S PROVE Place(S, i) \in 1 .. n
    OBVIOUS
  <2>1. above(i) \subseteq S \ {i}
    BY <1>2 DEF Stronger
  <2> QED
    BY <1>1, <1>3, <2>1 DEF Place
<1>5. \A i, j \in S : i # j => Place(S, i) # Place(S, j)
  <2>1. ASSUME NEW i \in S, NEW j \in S, Stronger(i, j) PROVE Place(S, i) < Place(S, j)
    <3>1. \A x \in S : Stronger(x, i) => Stronger(x, j) /\ x # i
      BY <1>2, <2>1 DEF Stronger
    <3>2. above(i) \subseteq above(j) \ {i} /\ i \in above(j) /\ above(j) \in SUBSET S
      BY <2>1, <3>1
    <3>3. Cardinality(above(i)) \in Nat /\ Cardinality(above(i)) < Cardinality(above(j))
          /\ Cardinality(above(j)) \in Nat
      BY <1>3, <3>2
    <3> QED
      BY <3>3 DEF Place
  <2>2. \A i, j \in S : i # j => Stronger(i, j) \/ Stronger(j, i)
    BY <1>2 DEF Stronger
  <2>3. \A i \in S : Place(S, i) \in Int
    BY <1>4
  <2> QED
    BY <2>1, <2>2, <2>3
<1>6. place \in Injection(S, 1 .. n)
  BY <1>4, <1>5 DEF Injection, IsInjective
<1>7. IsFiniteSet(1 .. n) /\ Cardinality(1 .. n) = n
  BY <1>1, FS_Interval
<1>8. place \in Surjection(S, 1 .. n)
  BY <1>1, <1>6, <1>7, FS_Injection
<1>9. \A k \in 1 .. n : \E i \in S : Place(S, i) = k
  BY <1>8 DEF Surjection
<1> QED
  BY <1>1, <1>4, <1>9

\* sort_candidates keeps each network that was seen, once.
LEMMA SortedHasAll ==
    ASSUME Types, NEW S \in SUBSET Nets
    PROVE  /\ Sorted(S) \in Seq(S)
           /\ \A i \in S : \E k \in 1 .. Len(Sorted(S)) : Sorted(S)[k] = i
           /\ \A i, j \in 1 .. Len(Sorted(S)) : Sorted(S)[i] = Sorted(S)[j] => i = j
<1> DEFINE n == Cardinality(S)
           net(k) == CHOOSE i \in S : Place(S, i) = k
<1>1. n \in Nat /\ \A i \in S : Place(S, i) \in 1 .. n
  BY PlacesOnto
<1>2. \A k \in 1 .. n : net(k) \in S /\ Place(S, net(k)) = k
  BY PlacesOnto
<1>3. Sorted(S) = [k \in 1 .. n |-> net(k)]
  BY DEF Sorted
<1> HIDE DEF net, n
<1>4. [k \in 1 .. n |-> net(k)] \in Seq(S) /\ Len([k \in 1 .. n |-> net(k)]) = n
  <2>1. [k \in 1 .. n |-> net(k)] \in Seq(S)
    BY <1>1, <1>2, IsASeq
  <2> QED
    BY <1>1, <2>1, LenProperties
<1>5. \A i, j \in S : Place(S, i) = Place(S, j) => i = j
  <2> DEFINE place == [i \in S |-> Place(S, i)]
  <2>1. place \in Surjection(S, 1 .. n)
    BY PlacesOnto DEF n, Surjection
  <2>2. IsFiniteSet(S) /\ IsFiniteSet(1 .. n) /\ Cardinality(1 .. n) = Cardinality(S)
    BY <1>1, PlacesOnto, FS_Interval DEF n
  <2>3. place \in Injection(S, 1 .. n)
    BY <2>1, <2>2, FS_Surjection
  <2> QED
    BY <2>3 DEF Injection, IsInjective
<1>6. \A i \in S : net(Place(S, i)) = i
  BY <1>1, <1>2, <1>5
<1> QED
  BY <1>1, <1>2, <1>3, <1>4, <1>6

-----------------------------------------------------------------------------
(* Sequences                                                                *)

LEMMA Pushed ==
    ASSUME NEW S, NEW s \in Seq(S), NEW e \in S
    PROVE  /\ Append(s, e) \in Seq(S) /\ Append(s, e) # <<>>
           /\ Len(Append(s, e)) = Len(s) + 1 /\ Len(s) \in Nat
           /\ Append(s, e)[Len(s) + 1] = e
           /\ \A k \in 1 .. Len(s) : Append(s, e)[k] = s[k]
BY AppendProperties, LenProperties, EmptySeq

LEMMA Popped ==
    ASSUME NEW S, NEW s \in Seq(S), s # <<>>
    PROVE  /\ Head(s) = s[1] /\ Head(s) \in S
           /\ Tail(s) \in Seq(S) /\ Len(s) \in Nat \ {0} /\ Len(Tail(s)) = Len(s) - 1
           /\ \A k \in 1 .. Len(Tail(s)) : Tail(s)[k] = s[k + 1]
           /\ Tail(s) = <<>> => s[Len(s)] = Head(s)
           /\ Tail(s) # <<>> => Tail(s)[Len(Tail(s))] = s[Len(s)]
<1>1. /\ Head(s) = s[1] /\ Head(s) \in S
      /\ Tail(s) \in Seq(S) /\ Len(s) \in Nat \ {0} /\ Len(Tail(s)) = Len(s) - 1
      /\ \A k \in 1 .. Len(Tail(s)) : Tail(s)[k] = s[k + 1]
  BY HeadTailProperties, EmptySeq
<1>2. Tail(s) = <<>> => Len(Tail(s)) = 0
  BY EmptySeq
<1>3. Tail(s) # <<>> => Len(Tail(s)) \in Nat \ {0}
  BY <1>1, EmptySeq
<1> QED
  BY <1>1, <1>2, <1>3

\* The candidate in turn or the fallback is one of the networks.
LEMMA Places ==
    ASSUME Types
    PROVE  /\ Len(cands) \in Nat /\ at \in Nat \ {0}
           /\ \A k \in 1 .. Len(cands) : cands[k] \in enabled /\ cands[k] \in Nets
           /\ Target \in 0 .. N
<1>1. Len(cands) \in Nat /\ at \in Nat \ {0}
  BY LenProperties DEF Types
<1>2. \A k \in 1 .. Len(cands) : cands[k] \in enabled /\ cands[k] \in Nets
  BY ElementOfSeq DEF Types
<1> QED
  BY <1>1, <1>2, NetsAssumption DEF Target, Types, Nets

-----------------------------------------------------------------------------
(* Types and links                                                          *)

\* What the driver posts, and leaves alone.
LEMMA PostTyped ==
    ASSUME Types, driver.net \in Nets, NEW kind \in {"connected", "disconnected"},
           NEW reason \in Causes, Post(kind, reason)
    PROVE  /\ events' \in Seq(Event) /\ events' # <<>> /\ Len(events') = Len(events) + 1
           /\ Len(events) \in Nat
           /\ events'[Len(events')] = [kind |-> kind, net |-> driver.net, reason |-> reason]
           /\ \A k \in 1 .. Len(events) : events'[k] = events[k]
<1> DEFINE e == [kind |-> kind, net |-> driver.net, reason |-> reason]
<1>1. e \in Event /\ events' = Append(events, e)
  BY DEF Post, Event
<1> QED
  BY <1>1, Pushed DEF Types

LEMMA CancelTyped ==
    ASSUME Types, LinkKnown, Cancel
    PROVE  /\ events' \in Seq(Event) /\ driver' = Idle
           /\ IF driver.does = "idle" THEN events' = events
              ELSE events' # <<>> /\ events'[Len(events')].kind = "disconnected"
BY PostTyped DEF Cancel, LinkKnown, Types, Causes

LEMMA TypesStep == ASSUME RoamInv, [Next]_vars PROVE Types'
<1> USE DEF RoamInv
<1>1. /\ Types /\ LinkKnown /\ Len(cands) \in Nat /\ at \in Nat \ {0}
      /\ Target \in 0 .. N
  BY Places
<1>2. CASE UNCHANGED vars
  BY <1>1, <1>2 DEF vars, Types
<1>3. CASE Begin
  <2>1. cands' \in Seq(enabled') /\ Len(cands') = 0 /\ tried' \in Seq(Nets)
    BY <1>3, EmptySeq DEF Begin
  <2> QED
    BY <1>1, <1>3, <2>1, NetsAssumption, BoundsAssumption DEF Begin, Types, Nets
<1>4. CASE Stop
  <2>1. driver.net \in Nets
    BY <1>1, <1>4 DEF Stop, LinkKnown
  <2>2. events' \in Seq(Event)
    BY <1>1, <1>4, <2>1, PostTyped DEF Stop, Causes
  <2> QED
    BY <1>1, <1>4, <2>2, NetsAssumption DEF Stop, Types, Idle
<1>5. ASSUME NEW seen \in SUBSET Nets, Scan(seen) PROVE Types'
  <2>1. seen \in SUBSET enabled /\ enabled' = enabled
    BY <1>5 DEF Scan
  <2>2. Sorted(seen) \in Seq(enabled)
    BY <1>1, <2>1, SortedHasAll, SeqMonotonic
  <2>3. cands' \in Seq(enabled') /\ at' \in 1 .. Len(cands') + 2
    <3>1. CASE cands' = cands
      BY <1>1, <1>5, <2>1, <3>1 DEF Scan, Types
    <3>2. CASE cands' = Sorted(seen)
      <4>1. at = 1
        BY <1>5 DEF Scan, CallStands
      <4> QED
        BY <1>5, <2>1, <2>2, <3>2, <4>1, LenProperties DEF Scan
    <3> QED
      BY <1>5, <3>1, <3>2 DEF Scan
  <2>4. diag' \in [Nets -> Reasons \union {"none"}]
    BY <1>1, <1>5 DEF Scan, Types, Reasons
  <2>5. scans' \in 0 .. MaxScans - 1
    BY <1>1, <1>5, BoundsAssumption DEF Scan, Types, ScansAgain
  <2> QED
    BY <1>1, <1>5, <2>3, <2>4, <2>5 DEF Scan, Types
<1>6. CASE ScanFails
  BY <1>1, <1>6 DEF ScanFails, Types
<1>7. CASE Pick
  <2>1. CASE Target \in enabled
    <3>1. events' \in Seq(Event) /\ driver' = Idle
      BY <1>1, <1>7, <2>1, CancelTyped DEF Pick
    <3>2. tried' \in Seq(Nets)
      <4>1. Target \in Nets /\ tried' = Append(tried, Target)
        BY <1>1, <1>7, <2>1 DEF Pick, Types
      <4> QED
        BY <1>1, <4>1, AppendProperties DEF Types
    <3> QED
      BY <1>1, <1>7, <2>1, <3>1, <3>2, NetsAssumption DEF Pick, Types, Idle
  <2>2. CASE Target \notin enabled
    <3>1. diag' \in [Nets -> Reasons \union {"none"}]
      BY <1>1, <1>7, <2>2 DEF Pick, Types, Said, Reasons
    <3>2. at' \in 1 .. Len(cands') + 2
      BY <1>1, <1>7, <2>2 DEF Pick, Types, Fallback
    <3> QED
      BY <1>1, <1>7, <2>2, <3>1, <3>2 DEF Pick, Types
  <2> QED
    BY <2>1, <2>2
<1>8. CASE GiveUp
  BY <1>1, <1>8 DEF GiveUp, Types
<1>9. CASE Connect
  BY <1>1, <1>9 DEF Connect, Types, State, Causes, Fresh, NoHandler
<1>10. CASE Retry
  BY <1>1, <1>10 DEF Retry, Types, State
<1>11. CASE Joined
  BY <1>1, <1>11 DEF Joined, Types, State, Causes, NoHandler
<1>12. CASE Expire
  <2>1. events' \in Seq(Event) /\ driver' = Idle
    BY <1>1, <1>12, CancelTyped DEF Expire
  <2>2. diag' \in [Nets -> Reasons \union {"none"}]
    BY <1>1, <1>12 DEF Expire, Types, Said, Reasons, FailureReason
  <2>3. at' \in 1 .. Len(cands') + 2
    BY <1>1, <1>12 DEF Expire, Types, Fallback, CallStands, Trying
  <2> QED
    BY <1>1, <1>12, <2>1, <2>2, <2>3, NetsAssumption
    DEF Expire, Types, Idle, State, Causes, NoHandler
<1>13. CASE Associate
  <2>1. driver.net \in Nets
    BY <1>1, <1>13 DEF Associate, LinkKnown
  <2>2. events' \in Seq(Event)
    BY <1>1, <1>13, <2>1, PostTyped DEF Associate, Causes
  <2> QED
    BY <1>1, <1>13, <2>2 DEF Associate, Types
<1>14. ASSUME NEW r \in {"no-ap", "auth", "other"}, LinkFails(r) PROVE Types'
  <2>1. driver.net \in Nets
    BY <1>1, <1>14 DEF LinkFails, LinkKnown
  <2>2. events' \in Seq(Event)
    BY <1>1, <1>14, <2>1, PostTyped DEF LinkFails, Causes
  <2> QED
    BY <1>1, <1>14, <2>2 DEF LinkFails, Types
<1>15. CASE GetAddress
  BY <1>1, <1>15 DEF GetAddress, Types
<1>16. CASE Deliver
  <2>1. Head(events) \in Event /\ events' \in Seq(Event)
    BY <1>1, <1>16, Popped DEF Deliver, Types
  <2>2. state' \in State
    BY <1>1, <1>16, <2>1 DEF Deliver, Types, Handled, State, Event
  <2>3. netif' \in [net : 0 .. N, ip : BOOLEAN]
    BY <1>16, <2>1, NetsAssumption DEF Deliver, Event, NetifDown, Nets
  <2> QED
    BY <1>1, <1>16, <2>1, <2>2, <2>3 DEF Deliver, Types
<1> QED
  BY <1>2, <1>3, <1>4, <1>5, <1>6, <1>7, <1>8, <1>9, <1>10, <1>11, <1>12, <1>13, <1>14, <1>15, <1>16
  DEF Next, Main, Driver

LEMMA LinkStep == ASSUME RoamInv, [Next]_vars PROVE LinkKnown'
<1>1. Types /\ LinkKnown
  BY DEF RoamInv
<1>2. CASE UNCHANGED <<driver, netif, events>>
  BY <1>1, <1>2 DEF LinkKnown
<1>3. CASE Stop \/ Associate \/ \E r \in {"no-ap", "auth", "other"} : LinkFails(r)
  <2>1. PICK kind \in {"connected", "disconnected"}, reason \in Causes :
            /\ Post(kind, reason) /\ (driver'.does # "up" => kind = "disconnected")
            /\ driver.does # "idle" /\ netif' = netif
            /\ driver'.does # "idle" => driver'.net = driver.net
    BY <1>1, <1>3 DEF Stop, Associate, LinkFails, Causes, Idle, Types
  <2>2. /\ events' # <<>>
        /\ events'[Len(events')] = [kind |-> kind, net |-> driver.net, reason |-> reason]
    BY <1>1, <2>1, PostTyped DEF LinkKnown
  <2> QED
    BY <1>1, <2>1, <2>2 DEF LinkKnown
<1>4. CASE Cancel /\ netif' = netif
  BY <1>1, <1>4, CancelTyped DEF LinkKnown, Idle
<1>5. CASE Connect
  <2>1. Target \in Nets
    BY <1>1, <1>5 DEF Connect, RoamInv, CallStands, Trying, Types
  <2> QED
    BY <1>1, <1>5, <2>1 DEF Connect, RoamInv, CallStands, LinkKnown
<1>6. CASE Retry
  <2>1. Target \in Nets /\ driver.net = Target
    BY <1>1, <1>6 DEF Retry, RoamInv, CallStands, Trying, Types, WaitIsForTarget
  <2> QED
    BY <1>1, <1>6, <2>1 DEF Retry, LinkKnown, Types
<1>7. CASE GetAddress
  BY <1>1, <1>7, NetsAssumption DEF GetAddress, LinkKnown, Types, Nets
<1>8. CASE Deliver
  <2>1. /\ Head(events) \in Event /\ events' = Tail(events)
        /\ Tail(events) = <<>> => events[Len(events)] = Head(events)
        /\ Tail(events) # <<>> => Tail(events)[Len(Tail(events))] = events[Len(events)]
    BY <1>1, <1>8, Popped DEF Deliver, Types
  <2> QED
    BY <1>1, <1>8, <2>1 DEF Deliver, LinkKnown, NetifDown
<1>9. Begin \/ ScanFails \/ GiveUp \/ Joined \/ (\E seen \in SUBSET Nets : Scan(seen)) \/ UNCHANGED vars
      => UNCHANGED <<driver, netif, events>>
  BY DEF Begin, ScanFails, GiveUp, Joined, Scan, vars
<1>10. Pick \/ Expire => (Cancel \/ UNCHANGED <<driver, events>>) /\ netif' = netif
  BY DEF Pick, Expire
<1> QED
  BY <1>2, <1>3, <1>4, <1>5, <1>6, <1>7, <1>8, <1>9, <1>10 DEF Next, Main, Driver

-----------------------------------------------------------------------------
(* An attempt and its network                                               *)

\* Between calls and attempts nothing is waited for.
LEMMA WaitStep == ASSUME RoamInv, [Next]_vars PROVE WaitIsForTarget'
<1>1. Types /\ LinkKnown /\ WaitIsForTarget /\ CallStands
  BY DEF RoamInv
<1>2. CASE pc' # "wait" /\ ((state' = state /\ pc # "wait") \/ state' = NoHandler)
  BY <1>1, <1>2 DEF WaitIsForTarget, NoHandler
<1>3. CASE UNCHANGED <<pc, at, cands, hint, state, driver, netif, events, denied>>
  BY <1>1, <1>3 DEF WaitIsForTarget, Target
<1>4. Begin \/ Stop \/ ScanFails \/ GiveUp \/ Joined \/ Expire \/ Pick \/ (\E seen \in SUBSET Nets : Scan(seen))
      => pc' # "wait" /\ ((state' = state /\ pc # "wait") \/ state' = NoHandler)
  BY DEF Begin, Stop, ScanFails, GiveUp, Joined, Expire, Pick, Scan
<1>5. CASE Connect
  <2>1. netif.net = 0 /\ events = <<>> /\ Target' = Target
    BY <1>1, <1>5 DEF Connect, Settled, LinkKnown, CallStands, Target
  <2>2. Len(events) = 0
    BY <2>1, EmptySeq
  <2> QED
    BY <1>5, <2>1, <2>2 DEF Connect, WaitIsForTarget, Fresh, NoHandler
<1>6. CASE Retry
  BY <1>1, <1>6 DEF Retry, WaitIsForTarget, Target, Types, State
<1>7. CASE Associate \/ \E r \in {"no-ap", "auth", "other"} : LinkFails(r)
  <2>1. PICK kind \in {"connected", "disconnected"}, reason \in Causes :
            /\ Post(kind, reason) /\ driver.does # "idle" /\ driver'.net = driver.net
            /\ reason = "auth" => driver.net \in denied'
            /\ denied \subseteq denied' /\ UNCHANGED <<pc, at, cands, hint, state, netif>>
    BY <1>1, <1>7 DEF Associate, LinkFails, Causes, Types
  <2>2. /\ Len(events') = Len(events) + 1 /\ Len(events) \in Nat
        /\ events'[Len(events')] = [kind |-> kind, net |-> driver.net, reason |-> reason]
        /\ \A k \in 1 .. Len(events) : events'[k] = events[k]
    BY <1>1, <2>1, PostTyped DEF LinkKnown
  <2>3. Target' = Target
    BY <2>1 DEF Target
  <2>4. CASE pc = "wait"
    <3>1. driver.net = Target
      BY <1>1, <2>4 DEF WaitIsForTarget
    <3>2. \A k \in 1 .. Len(events') :
              events'[k].net = Target /\ (events'[k].reason = "auth" => Target \in denied')
      BY <1>1, <2>1, <2>2, <2>4, <3>1 DEF WaitIsForTarget
    <3> QED
      BY <1>1, <2>1, <2>3, <2>4, <3>1, <3>2 DEF WaitIsForTarget
  <2> QED
    BY <1>1, <2>1, <2>4 DEF WaitIsForTarget
<1>8. CASE GetAddress
  BY <1>1, <1>8 DEF GetAddress, WaitIsForTarget, Target, Types
<1>9. CASE Deliver
  <2>1. /\ Head(events) \in Event /\ Head(events) = events[1] /\ events' = Tail(events)
        /\ Len(events) \in Nat \ {0} /\ Len(Tail(events)) = Len(events) - 1
        /\ \A k \in 1 .. Len(Tail(events)) : Tail(events)[k] = events[k + 1]
    BY <1>1, <1>9, Popped DEF Deliver, Types
  <2>2. /\ state'.on = state.on
        /\ state'.auth => state.auth \/ Head(events).reason = "auth"
    BY <1>1, <1>9, <2>1 DEF Deliver, Handled, Types, State
  <2>3. UNCHANGED <<pc, driver, denied>> /\ Target' = Target /\ netif'.net \in {0, Head(events).net}
    BY <1>9 DEF Deliver, Target, NetifDown
  <2>4. CASE pc = "wait"
    <3>1. Head(events).net = Target /\ (Head(events).reason = "auth" => Target \in denied)
      BY <1>1, <2>1, <2>4 DEF WaitIsForTarget
    <3>2. \A k \in 1 .. Len(events') :
              events'[k].net = Target /\ (events'[k].reason = "auth" => Target \in denied)
      BY <1>1, <2>1, <2>4 DEF WaitIsForTarget
    <3> QED
      BY <1>1, <2>2, <2>3, <2>4, <3>1, <3>2 DEF WaitIsForTarget
  <2> QED
    BY <1>1, <2>2, <2>3, <2>4 DEF WaitIsForTarget
<1>10. UNCHANGED vars => UNCHANGED <<pc, at, cands, hint, state, driver, netif, events, denied>>
  BY DEF vars
<1> QED
  BY <1>2, <1>3, <1>4, <1>5, <1>6, <1>7, <1>8, <1>9, <1>10 DEF Next, Main, Driver

LEMMA CallStep == ASSUME RoamInv, [Next]_vars PROVE CallStands'
<1>1. /\ Types /\ LinkKnown /\ WaitIsForTarget /\ CallStands
      /\ Len(cands) \in Nat /\ at \in Nat \ {0} /\ Target \in 0 .. N
  BY Places DEF RoamInv
<1>2. CASE /\ UNCHANGED <<enabled, hint, cur, pc, cands, at, tried>>
           /\ driver' \in {driver, Idle} \/ (driver'.net = driver.net /\ driver.does # "idle") \/ pc = "wait"
  BY <1>1, <1>2 DEF CallStands, Trying, Target, Fallback, Idle
<1>3. Stop \/ Retry \/ Driver \/ UNCHANGED vars
      => /\ UNCHANGED <<enabled, hint, cur, pc, cands, at, tried>>
         /\ driver' \in {driver, Idle} \/ (driver'.net = driver.net /\ driver.does # "idle") \/ pc = "wait"
  <2>1. Stop \/ Retry
        => UNCHANGED <<enabled, hint, cur, pc, cands, at, tried>>
           /\ (driver' = Idle \/ pc = "wait")
    BY DEF Stop, Retry
  <2>2. Associate \/ (\E r \in {"no-ap", "auth", "other"} : LinkFails(r))
        => UNCHANGED <<enabled, hint, cur, pc, cands, at, tried>>
           /\ driver'.net = driver.net /\ driver.does # "idle"
    BY <1>1 DEF Associate, LinkFails, Types
  <2>3. GetAddress \/ Deliver \/ UNCHANGED vars
        => UNCHANGED <<enabled, hint, cur, pc, cands, at, tried>> /\ driver' = driver
    BY DEF GetAddress, Deliver, vars
  <2> QED
    BY <2>1, <2>2, <2>3 DEF Driver
<1>4. CASE Begin
  BY <1>4 DEF Begin, CallStands, Trying
<1>5. ASSUME NEW seen \in SUBSET Nets, Scan(seen) PROVE CallStands'
  <2>1. cands' \in Seq(enabled)
    <3>1. seen \in SUBSET enabled
      BY <1>5 DEF Scan
    <3> QED
      BY <1>1, <1>5, <3>1, SortedHasAll, SeqMonotonic DEF Scan, Types
  <2>2. Len(cands') \in Nat /\ at' = 1 /\ cur' = 0 /\ tried' = <<>>
    BY <1>1, <1>5, <2>1, LenProperties DEF Scan, CallStands
  <2> QED
    BY <1>1, <1>5, <2>2 DEF Scan, CallStands, Trying
<1>6. CASE ScanFails \/ GiveUp
  BY <1>1, <1>6 DEF ScanFails, GiveUp, CallStands, Trying
<1>7. CASE Pick
  BY <1>1, <1>7 DEF Pick, Cancel, CallStands, Trying, Target, Fallback, Idle, Types
<1>8. CASE Connect
  BY <1>1, <1>8 DEF Connect, CallStands, Trying, Target, Fallback
<1>9. CASE Joined
  BY <1>1, <1>9 DEF Joined, CallStands, Trying, WaitIsForTarget
<1>10. CASE Expire
  BY <1>1, <1>10 DEF Expire, CallStands, Trying, Fallback
<1> QED
  BY <1>2, <1>3, <1>4, <1>5, <1>6, <1>7, <1>8, <1>9, <1>10 DEF Next, Main

-----------------------------------------------------------------------------
(* Reasons and attempts                                                     *)

\* A reason that is noted stays, and a refusal blamed is one that happened.
LEMMA ReasonsStep == ASSUME RoamInv, [Next]_vars PROVE ReasonsNoted'
<1>1. /\ Types /\ WaitIsForTarget /\ CallStands /\ ReasonsNoted
      /\ Len(cands) \in Nat /\ at \in Nat \ {0} /\ Target \in 0 .. N
      /\ \A k \in 1 .. Len(cands) : cands[k] \in enabled /\ cands[k] \in Nets
  BY Places DEF RoamInv
<1>2. CASE /\ UNCHANGED <<enabled, cands, at, diag>> /\ denied \subseteq denied'
           /\ InCall' => InCall
  BY <1>1, <1>2 DEF ReasonsNoted, BlameDeserved
<1>3. /\ Stop \/ ScanFails \/ GiveUp \/ Connect \/ Retry \/ Joined \/ Driver \/ UNCHANGED vars
         => UNCHANGED <<enabled, cands, at, diag>> /\ denied \subseteq denied'
      /\ Stop \/ ScanFails \/ GiveUp \/ Connect \/ Retry \/ Joined \/ Driver \/ UNCHANGED vars
         => (InCall' => InCall)
  <2>1. Stop \/ ScanFails \/ GiveUp \/ Connect \/ Retry \/ Joined
        => UNCHANGED <<enabled, cands, at, diag>> /\ denied \subseteq denied' /\ (InCall' => InCall)
    BY DEF Stop, ScanFails, GiveUp, Connect, Retry, Joined, InCall
  <2>2. Associate \/ (\E r \in {"no-ap", "auth", "other"} : LinkFails(r)) \/ GetAddress \/ Deliver
        => UNCHANGED <<enabled, cands, at, diag>> /\ denied \subseteq denied' /\ (InCall' => InCall)
    BY DEF Associate, LinkFails, GetAddress, Deliver, InCall
  <2>3. UNCHANGED vars
        => UNCHANGED <<enabled, cands, at, diag>> /\ denied \subseteq denied' /\ (InCall' => InCall)
    BY DEF vars, InCall
  <2> QED
    BY <2>1, <2>2, <2>3 DEF Driver
<1>4. CASE Begin
  BY <1>4 DEF Begin, ReasonsNoted, BlameDeserved, InCall
<1>5. ASSUME NEW seen \in SUBSET Nets, Scan(seen) PROVE ReasonsNoted'
  <2>1. BlameDeserved'
    BY <1>1, <1>5 DEF Scan, ReasonsNoted, BlameDeserved
  <2>2. CASE cands' = Sorted(seen) /\ at = 1
    <3>1. /\ \A i \in seen : \E k \in 1 .. Len(Sorted(seen)) : Sorted(seen)[k] = i
          /\ Sorted(seen) \in Seq(seen)
      BY <1>1, SortedHasAll
    <3>2. /\ \A i \in enabled \ seen : i \in Nets /\ diag'[i] = "no-ap"
          /\ enabled' = enabled /\ at' = at
      BY <1>1, <1>5 DEF Scan, Types
    <3>3. \A k \in 1 .. Len(Sorted(seen)) : k >= 1
      BY <3>1, LenProperties
    <3> QED
      BY <2>1, <2>2, <3>1, <3>2, <3>3 DEF ReasonsNoted
  <2>3. at = 1 /\ (pc' = "scan" \/ cands' = Sorted(seen))
    BY <1>1, <1>5 DEF Scan, CallStands
  <2> QED
    BY <2>1, <2>2, <2>3 DEF ReasonsNoted, InCall
<1>6. CASE Pick \/ Expire
  <2>1. /\ UNCHANGED <<enabled, cands, denied>> /\ Target \in Nets
        /\ \/ UNCHANGED <<diag, at>>
           \/ /\ at' = at + 1
              /\ \E reason \in Reasons : diag' = Said(diag, Target, reason) /\
                                         (reason = "auth-err" => state.auth /\ pc = "wait")
        /\ InCall
    <3>1. hint \in 0 .. N /\ (Fallback => Target = hint /\ hint # 0)
          /\ (at <= Len(cands) => Target \in Nets)
      BY <1>1 DEF Fallback, Target, Types
    <3>2. at <= Len(cands) \/ Fallback
      BY <1>1, <1>6 DEF Pick, Expire, CallStands, Trying
    <3>3. Target \in Nets
      BY <3>1, <3>2, NetsAssumption DEF Nets
    <3>4. FailureReason \in Reasons /\ (FailureReason = "auth-err" => state.auth)
      BY DEF FailureReason, Reasons
    <3> QED
      BY <1>6, <3>3, <3>4 DEF Pick, Expire, InCall, Reasons
  <2>2. CASE UNCHANGED <<diag, at>>
    BY <1>1, <2>1, <2>2 DEF ReasonsNoted, BlameDeserved
  <2>3. ASSUME at' = at + 1, NEW reason \in Reasons, diag' = Said(diag, Target, reason),
               reason = "auth-err" => state.auth /\ pc = "wait"
        PROVE  ReasonsNoted'
    <3>1. /\ diag'[Target] = reason
          /\ \A i \in Nets : i # Target => diag'[i] = diag[i]
      BY <1>1, <2>1, <2>3 DEF Said, Types
    <3>2. BlameDeserved'
      BY <1>1, <2>1, <2>3, <3>1 DEF BlameDeserved, ReasonsNoted, WaitIsForTarget
    <3>3. ASSUME NEW i \in enabled, \A k \in 1 .. Len(cands) : cands[k] = i => k < at + 1
          PROVE  diag'[i] # "none"
      <4>1. i \in Nets
        BY <1>1 DEF Types
      <4>2. CASE i = Target
        BY <3>1, <4>2 DEF Reasons
      <4>3. CASE i # Target
        <5>1. \A k \in 1 .. Len(cands) : cands[k] = i => k < at
          BY <1>1, <3>3, <4>3 DEF Target
        <5> QED
          BY <1>1, <2>1, <3>1, <4>1, <4>3, <5>1 DEF ReasonsNoted
      <4> QED
        BY <4>2, <4>3
    <3> QED
      BY <2>1, <2>3, <3>2, <3>3 DEF ReasonsNoted
  <2> QED
    BY <2>1, <2>2, <2>3
<1> QED
  BY <1>2, <1>3, <1>4, <1>5, <1>6 DEF Next, Main

LEMMA TriedStep == ASSUME RoamInv, [Next]_vars PROVE TriedInTurn'
<1>1. /\ Types /\ CallStands /\ TriedInTurn
      /\ Len(cands) \in Nat /\ at \in Nat \ {0} /\ Target \in 0 .. N
  BY Places DEF RoamInv
<1>2. CASE /\ UNCHANGED <<enabled, hint, cands, at, tried>>
           /\ InCall' => InCall
           /\ InCall' => (Trying' <=> Trying)
  BY <1>1, <1>2 DEF TriedInTurn, Planned
<1>3. CASE ~InCall'
  BY <1>3 DEF TriedInTurn
<1>4. Stop \/ Connect \/ Retry \/ Driver \/ UNCHANGED vars
      => /\ UNCHANGED <<enabled, hint, cands, at, tried>>
         /\ InCall' => InCall
         /\ InCall' => (Trying' <=> Trying)
  <2>1. Stop \/ Connect \/ Retry
        => UNCHANGED <<enabled, hint, cands, at, tried>> /\ (InCall' => InCall) /\ (InCall' => (Trying' <=> Trying))
    BY DEF Stop, Connect, Retry, InCall, Trying
  <2>2. Associate \/ (\E r \in {"no-ap", "auth", "other"} : LinkFails(r)) \/ GetAddress \/ Deliver
        => UNCHANGED <<enabled, hint, cands, at, tried>> /\ (InCall' => InCall) /\ (InCall' => (Trying' <=> Trying))
    BY DEF Associate, LinkFails, GetAddress, Deliver, InCall, Trying
  <2>3. UNCHANGED vars
        => UNCHANGED <<enabled, hint, cands, at, tried>> /\ (InCall' => InCall) /\ (InCall' => (Trying' <=> Trying))
    BY DEF vars, InCall, Trying
  <2> QED
    BY <2>1, <2>2, <2>3 DEF Driver
<1>5. Begin \/ ScanFails \/ GiveUp \/ Joined => ~InCall'
  BY DEF Begin, ScanFails, GiveUp, Joined, InCall
<1>6. ASSUME NEW seen \in SUBSET Nets, Scan(seen) PROVE TriedInTurn'
  <2>1. /\ Sorted(seen) \in Seq(seen)
        /\ \A i, j \in 1 .. Len(Sorted(seen)) : Sorted(seen)[i] = Sorted(seen)[j] => i = j
    BY <1>1, SortedHasAll
  <2>2. Len(Sorted(seen)) \in Nat /\ Len(<<>>) = 0
    BY <2>1, LenProperties, EmptySeq
  <2>3. at' = 1 /\ tried' = <<>> /\ (InCall' => cands' = Sorted(seen)) /\ ~Trying'
    BY <1>1, <1>6 DEF Scan, CallStands, InCall, Trying
  <2> QED
    BY <2>1, <2>2, <2>3 DEF TriedInTurn
<1>7. CASE Pick
  <2>1. InCall /\ InCall' /\ ~Trying /\ UNCHANGED <<enabled, hint, cands>>
        /\ (at <= Len(cands) \/ Fallback)
    BY <1>7 DEF Pick, InCall, Trying
  <2>2. CASE Target \in enabled
    <3>1. Trying' /\ at' = at /\ tried' = Append(tried, Target) /\ Target \in Nets
      BY <1>1, <1>7, <2>2 DEF Pick, Trying, Types
    <3>2. /\ Len(tried') = Len(tried) + 1 /\ tried'[Len(tried) + 1] = Target
          /\ \A k \in 1 .. Len(tried) : tried'[k] = tried[k]
      BY <1>1, <3>1, Pushed DEF Types
    <3>3. Len(tried) = at - 1 /\ Target = Planned(at)
      BY <1>1, <2>1 DEF TriedInTurn, Fallback, Target, Planned
    <3> QED
      BY <1>1, <2>1, <3>1, <3>2, <3>3 DEF TriedInTurn, Planned
  <2>3. CASE Target \notin enabled
    <3>1. ~Trying' /\ at' = at + 1 /\ tried' = tried
      BY <1>7, <2>3 DEF Pick, Trying
    <3>2. at = Len(cands) + 1 /\ Target = hint
      BY <1>1, <2>1, <2>3, Places DEF Fallback, Target
    <3> QED
      BY <1>1, <2>1, <2>3, <3>1, <3>2 DEF TriedInTurn, Planned
  <2> QED
    BY <2>2, <2>3
<1>8. CASE Expire
  <2>1. InCall /\ InCall' /\ Trying /\ ~Trying' /\ UNCHANGED <<enabled, hint, cands, tried>> /\ at' = at + 1
    BY <1>8 DEF Expire, InCall, Trying
  <2>2. at + 1 = Len(cands) + 2 => hint \in enabled
    BY <1>1, <2>1 DEF CallStands, Target
  <2> QED
    BY <1>1, <2>1, <2>2 DEF TriedInTurn, Planned
<1> QED
  BY <1>2, <1>3, <1>4, <1>5, <1>6, <1>7, <1>8 DEF Next, Main

-----------------------------------------------------------------------------
(* The theorems                                                             *)

LEMMA RoamStart == Init => RoamInv
<1> SUFFICES ASSUME Init PROVE RoamInv
  OBVIOUS
<1>1. /\ <<>> \in Seq(enabled) /\ <<>> \in Seq(Event) /\ <<>> \in Seq(Nets)
      /\ Len(<<>>) = 0 /\ 0 \in 0 .. N /\ 0 \in 0 .. MaxScans - 1
  BY EmptySeq, NetsAssumption, BoundsAssumption
<1>2. Types
  BY <1>1 DEF Init, Types, State, Causes, NoHandler, Idle, NetifDown
<1>3. LinkKnown /\ WaitIsForTarget
  BY DEF Init, LinkKnown, WaitIsForTarget, Idle, NetifDown, NoHandler
<1>4. CallStands /\ ReasonsNoted /\ TriedInTurn
  BY DEF Init, CallStands, ReasonsNoted, BlameDeserved, TriedInTurn, InCall, Trying, Idle
<1> QED
  BY <1>2, <1>3, <1>4 DEF RoamInv

LEMMA RoamStep == RoamInv /\ [Next]_vars => RoamInv'
BY TypesStep, LinkStep, WaitStep, CallStep, ReasonsStep, TriedStep DEF RoamInv

LEMMA RoamAlways == Spec => []RoamInv
BY RoamStart, RoamStep, PTL DEF Spec

\* What the rest of the cycle takes from wifi_roam_connect is true for any
\* number of networks: the network the device is on, and the password blamed.
THEOREM RoamIsSafe == Spec => []RoamSafety
<1>1. RoamInv => TypeOK
  <2> SUFFICES ASSUME RoamInv PROVE TypeOK
    OBVIOUS
  <2>1. Types /\ LinkKnown /\ (state.on <=> pc = "wait")
    BY DEF RoamInv, WaitIsForTarget
  <2>2. \A k \in DOMAIN events : events[k].net \in Nets
    <3>1. \A k \in DOMAIN events : events[k] \in Event
      BY <2>1, LenProperties DEF Types
    <3> QED
      BY <3>1 DEF Event
  <2> QED
    BY <2>1, <2>2 DEF TypeOK, Types, LinkKnown
<1>2. RoamInv => ReusedIsCurrent /\ BlameDeserved
  BY DEF RoamInv, CallStands, ReusedIsCurrent, Reuses, ReasonsNoted
<1> QED
  BY <1>1, <1>2, RoamAlways, PTL DEF RoamSafety

\* The address that ends an attempt is of the network that was tried.
THEOREM JoinedIsAddressed == Spec => AddressIsJoined
<1>1. RoamInv /\ [Next]_vars => [Joined => netif.net = Target]_vars
  BY DEF RoamInv, Joined, LinkKnown, WaitIsForTarget
<1> QED
  BY <1>1, RoamAlways, PTL DEF Spec, AddressIsJoined

\* A call that fails has tried all it could, each network once, and has a
\* reason for each that is enabled.
THEOREM EveryNetworkIsTried == Spec => GaveUpProperly
<1> DEFINE Account ==
        /\ \A i \in enabled : diag[i] # "none"
        /\ IsInjective(tried)
        /\ {tried[k] : k \in DOMAIN tried} =
               enabled \intersect ({cands[k] : k \in DOMAIN cands} \union ({hint} \ {0}))
<1>1. ASSUME RoamInv, GiveUp PROVE Account
  <2>1. /\ Types /\ CallStands /\ ReasonsNoted /\ TriedInTurn /\ InCall /\ ~Trying
        /\ Len(cands) \in Nat /\ at \in Nat \ {0}
        /\ \A k \in 1 .. Len(cands) : cands[k] \in enabled /\ cands[k] \in Nets
    BY <1>1, Places DEF RoamInv, GiveUp, InCall, Trying
  <2>2. at > Len(cands) /\ ~Fallback /\ at \in 1 .. Len(cands) + 2
    BY <1>1 DEF GiveUp, RoamInv, Types
  <2>3. \A i \in enabled : diag[i] # "none"
    BY <2>1, <2>2 DEF ReasonsNoted
  <2>4. /\ DOMAIN tried = 1 .. Len(tried) /\ DOMAIN cands = 1 .. Len(cands)
        /\ \A k \in 1 .. Len(tried) : tried[k] = Planned(k)
        /\ \A i, j \in 1 .. Len(cands) : cands[i] = cands[j] => i = j
    BY <2>1, LenProperties DEF Types, TriedInTurn
  <2>5. CASE Len(tried) = Len(cands)
    <3>1. hint \notin enabled \/ hint = 0 \/ Contains(cands, hint)
      BY <2>1, <2>2, <2>5 DEF TriedInTurn, Fallback
    <3> QED
      BY <2>1, <2>3, <2>4, <2>5, <3>1 DEF IsInjective, Planned, Contains
  <2>6. CASE Len(tried) = Len(cands) + 1 /\ at = Len(cands) + 2 /\ hint \in enabled
    <3>1. hint # 0 /\ ~Contains(cands, hint)
      BY <1>1, <2>1, <2>6 DEF CallStands, GiveUp
    <3>2. IsInjective(tried)
      BY <2>1, <2>4, <2>6, <3>1 DEF IsInjective, Planned, Contains
    <3>3. {tried[k] : k \in DOMAIN tried} = {cands[k] : k \in DOMAIN cands} \union {hint}
      BY <2>1, <2>4, <2>6 DEF Planned
    <3>4. {cands[k] : k \in DOMAIN cands} \subseteq enabled
      BY <2>1, <2>4
    <3>5. {tried[k] : k \in DOMAIN tried} =
              enabled \intersect ({cands[k] : k \in DOMAIN cands} \union ({hint} \ {0}))
      BY <2>6, <3>1, <3>3, <3>4
    <3> QED
      BY <2>3, <3>2, <3>5
  <2> QED
    BY <2>1, <2>2, <2>5, <2>6 DEF TriedInTurn
<1>2. RoamInv /\ [Next]_vars => [GiveUp => Account]_vars
  BY <1>1
<1> HIDE DEF Account
<1> QED
  BY <1>2, RoamAlways, PTL DEF Spec, GaveUpProperly, Account
=============================================================================
