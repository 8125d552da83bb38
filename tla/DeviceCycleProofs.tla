-------------------------- MODULE DeviceCycleProofs --------------------------
(***************************************************************************)
(* Theorems about DeviceCycle, for every set of builds, every number of    *)
(* attempts and every throttle.                                            *)
(***************************************************************************)
EXTENDS DeviceCycle, TLAPS

-----------------------------------------------------------------------------
(* The inductive invariant                                                  *)

\* What is on the panel outlives the RTC memory that tells what it says.  A
\* boot that lost that memory draws before it goes on.
Forgot == pc = "boot" /\ wake = "reset"

\* Between a fetch and its dashboard the panel still shows what was before.
Stale == pc \in {"update", "render"}

\* The portal and the dashboard have replaced whatever was on the panel.
Drawn ==
    /\ pc = "portal" => screen = Setup
    /\ pc = "rendered" => screen = Dashboard /\ proven

\* A poster names the latest failure, and a footer is known to be painted,
\* wherever the panel's past is not forgotten or about to be replaced.
PosterKnown ==
    screen.kind = "offline" /\ ~Forgot /\ ~Stale => screen.reason = rtc.episode.reason
FooterKnown == screen = Footer /\ ~Forgot /\ ~Stale => rtc.footer

\* A flag that is kept was set beside the footer, and only posters hid it since.
FooterHeld ==
    /\ rtc.footer => screen.kind \in {"footer", "setup", "offline"}
    /\ Forgot \/ Stale \/ pc = "rendered" => ~rtc.footer

\* The bring-up build leaves a poster only to draw another or a dashboard.
PosterKept ==
    ram.poster # "none" =>
        build.forever /\ (pc = "boot" \/ (pc = "try" /\ screen = Offline(ram.poster)))

CycleInv == TypeOK /\ Drawn /\ PosterKept /\ PosterKnown /\ FooterKnown /\ FooterHeld /\ ValidIsProven

-----------------------------------------------------------------------------
(* Lemmas                                                                   *)

\* The kinds of screens are told apart.
LEMMA Screens ==
    /\ \A r \in Reasons : /\ Offline(r).kind = "offline" /\ Offline(r).reason = r
                          /\ Offline(r) # Footer
    /\ \A s \in {Blank, Dashboard, Footer, Setup, Updating} : s.kind # "offline"
    /\ Footer \notin {Blank, Dashboard, Setup, Updating}
    /\ Footer.kind = "footer" /\ Setup.kind = "setup"
<1>1. /\ Blank.kind = "connecting" /\ Dashboard.kind = "dashboard" /\ Footer.kind = "footer"
      /\ Setup.kind = "setup" /\ Updating.kind = "ota"
  BY DEF Blank, Dashboard, Footer, Setup, Updating
<1>2. \A r \in Reasons : Offline(r).kind = "offline" /\ Offline(r).reason = r
  BY DEF Offline
<1> QED
  BY <1>1, <1>2

LEMMA RtcStartType ==
    /\ RtcStart \in RtcType
    /\ ~RtcStart.footer /\ RtcStart.episode = NoEpisode
BY CountAssumption DEF RtcStart, NoEpisode, RtcType, EpisodeType

\* The bootloader keeps what was confirmed and confirms nothing itself.
LEMMA BootedType ==
    ASSUME NEW i \in Images
    PROVE  Booted(i) \in Images /\ (Booted(i) = "valid" <=> i = "valid")
BY DEF Booted, Images

\* Every kind of boot keeps the invariant: it is forgotten what the panel shows,
\* or the RTC memory still tells.
LEMMA BootAsInv ==
    ASSUME CycleInv, UNCHANGED build, NEW w \in {"timer", "button", "reset"}, BootAs(w, image),
           w = "reset" \/ pc = "asleep",
           latch' \in BOOLEAN, clock' \in BOOLEAN, troubles' \in 0 .. MaxTroubles
    PROVE  CycleInv'
<1> USE DEF CycleInv, BootAs
<1>1. Booted(image) \in Images /\ (Booted(image) = "valid" <=> image = "valid")
  BY BootedType DEF TypeOK
<1>2. rtc' = IF w = "reset" THEN RtcStart ELSE rtc
  BY DEF RtcAfter
<1>3. TypeOK'
  BY <1>1, <1>2, RtcStartType DEF TypeOK
<1>4. Drawn' /\ PosterKept' /\ ValidIsProven'
  BY <1>1 DEF Drawn, PosterKept, ValidIsProven, TypeOK
<1>5. PosterKnown' /\ FooterKnown' /\ FooterHeld'
  BY <1>2, RtcStartType DEF PosterKnown, FooterKnown, FooterHeld, Forgot, Stale
<1> QED
  BY <1>3, <1>4, <1>5

\* A reset by the device itself, when a form was saved or an image installed.
LEMMA RestartInv ==
    ASSUME CycleInv, UNCHANGED build, pc' = "boot", wake' = "reset", rtc' = RtcStart,
           latch' \in BOOLEAN, cfg' \in Configs, image' \in Images,
           screen' \in {screen, Updating}, image' = "valid" => proven', proven' \in BOOLEAN,
           UNCHANGED <<ram, clock, quiet, troubles>>
    PROVE  CycleInv'
<1>1. TypeOK'
  BY RtcStartType DEF CycleInv, TypeOK
<1> QED
  BY <1>1, RtcStartType
  DEF CycleInv, Drawn, PosterKept, PosterKnown, FooterKnown, FooterHeld, ValidIsProven, Forgot

\* An episode counts on or starts again.
LEMMA NextEpisodeType ==
    ASSUME TypeOK, NEW r \in Reasons
    PROVE  /\ NextEpisode(r) \in EpisodeType
           /\ NextEpisode(r).reason = r
<1>1. rtc.episode \in EpisodeType
  BY DEF TypeOK, RtcType, RamType, EpisodeType
<1>2. NextEpisode(r).reason = r
  BY DEF NextEpisode
<1>3. NextEpisode(r).attempt \in 0 .. MaxCount
  BY <1>1, CountAssumption DEF NextEpisode, RtcType, RamType, EpisodeType
<1> QED
  BY <1>1, <1>2, <1>3 DEF NextEpisode, RtcType, RamType, EpisodeType

LEMMA TroublesType ==
    ASSUME TypeOK, Trouble \/ Outage \/ UNCHANGED troubles
    PROVE  troubles' \in 0 .. MaxTroubles
BY CountAssumption DEF TypeOK, Trouble, Outage

-----------------------------------------------------------------------------
(* The invariant holds in every state                                       *)

LEMMA InitCycle == Init => CycleInv
<1> SUFFICES ASSUME Init PROVE CycleInv
  OBVIOUS
<1>1. ram \in RamType
  BY CountAssumption DEF Init, RtcType, RamType, EpisodeType
<1>2. TypeOK
  <2>1. rtc \in RtcType /\ troubles \in 0 .. MaxTroubles
    BY RtcStartType, CountAssumption DEF Init
  <2>2. {latch, clock, proven, quiet} \subseteq BOOLEAN /\ image \in Images
    BY DEF Init, Images
  <2> QED
    BY <1>1, <2>1, <2>2 DEF Init, TypeOK
<1> QED
  BY <1>2, Screens, RtcStartType
  DEF Init, CycleInv, Drawn, PosterKept, PosterKnown, FooterKnown, FooterHeld, ValidIsProven, Forgot, Stale

\* Every action but those that restart the device.
LEMMA AwakeCycle ==
    ASSUME CycleInv, UNCHANGED build,
           \/ \E long, misread \in BOOLEAN : Boot(long, misread)
           \/ PortalEnds \/ Quiet \/ StartCycle \/ Tick
           \/ \E r \in Reasons, permanent, late \in BOOLEAN : Try(r, permanent, late)
           \/ \E r \in Reasons, due \in BOOLEAN : TryForever(r, due)
           \/ \E stale \in BOOLEAN : Fetched(stale)
           \/ UpdateSkipped \/ UpdateCurrent
           \/ \E download \in BOOLEAN : UpdateFails(download)
           \/ Render \/ WaitEnds
           \/ \E fails \in BOOLEAN : MarkAndRest(fails)
    PROVE  CycleInv'
<1> USE Screens
    DEF CycleInv, Drawn, PosterKept, PosterKnown, FooterKnown, FooterHeld, ValidIsProven, Forgot, Stale
<1>1. ASSUME NEW long \in BOOLEAN, NEW misread \in BOOLEAN, Boot(long, misread) PROVE CycleInv'
  <2>1. ram' \in RamType
    BY <1>1, CountAssumption DEF Boot, TypeOK, RtcType, RamType, EpisodeType
  <2>2. screen' \in {Setup, Blank, screen} /\ latch' \in BOOLEAN /\ pc' \in {"portal", "loop"}
    BY <1>1 DEF Boot, TypeOK
  <2>3. troubles' \in 0 .. MaxTroubles
    BY <1>1, TroublesType DEF Boot
  <2>4. TypeOK'
    BY <1>1, <2>1, <2>2, <2>3 DEF Boot, TypeOK
  <2> QED
    BY <1>1, <2>4 DEF Boot, TypeOK
<1>2. CASE PortalEnds
  <2>1. TypeOK'
    BY <1>2 DEF PortalEnds, TypeOK
  <2> QED
    BY <1>2, <2>1 DEF PortalEnds
<1>3. CASE Quiet
  <2>1. /\ pc' \in {"asleep", "wait"} /\ pc = "loop"
        /\ \/ rtc.footer /\ UNCHANGED <<screen, rtc>>
           \/ screen' = Footer /\ rtc' = [rtc EXCEPT !.footer = TRUE]
    BY <1>3 DEF Quiet, ShowSleeping
  <2>2. rtc' \in RtcType
        /\ rtc'.episode = rtc.episode /\ (screen' = Footer => rtc'.footer)
    <3>1. rtc \in RtcType
      BY DEF TypeOK
    <3> QED
      BY <2>1, <3>1 DEF RtcType
  <2>3. TypeOK'
    BY <1>3, <2>1, <2>2 DEF Quiet, TypeOK, RtcType
  <2> QED
    BY <1>3, <2>1, <2>2, <2>3 DEF Quiet
<1>4. CASE StartCycle
  <2>1. TypeOK'
    BY <1>4, CountAssumption DEF StartCycle, TypeOK, RtcType, RamType, EpisodeType
  <2> QED
    BY <1>4, <2>1 DEF StartCycle
<1>5. CASE Tick
  <2>1. TypeOK'
    BY <1>5, TroublesType DEF Tick, TypeOK
  <2> QED
    BY <1>5, <2>1 DEF Tick
<1>6. ASSUME NEW r \in Reasons, NEW permanent \in BOOLEAN, NEW late \in BOOLEAN,
             Try(r, permanent, late)
      PROVE  CycleInv'
  <2>1. troubles' \in 0 .. MaxTroubles
    BY <1>6, TroublesType DEF Try
  <2>2. CASE Again(ram.attempt + 1, permanent, late)
    <3>1. /\ ram' = [ram EXCEPT !.attempt = (ram.attempt + 1) % (MaxAttempts + 1)]
          /\ rtc' = [rtc EXCEPT !.network = rtc.network \/ r = "api"]
          /\ UNCHANGED <<pc, screen>>
      BY <1>6, <2>2 DEF Try, Noted
    <3>2. (ram.attempt + 1) % (MaxAttempts + 1) \in 0 .. MaxAttempts
      BY CountAssumption DEF TypeOK, RtcType, RamType, EpisodeType
    <3>3. TypeOK' /\ rtc'.episode = rtc.episode /\ rtc'.footer = rtc.footer
      BY <1>6, <2>1, <3>1, <3>2 DEF Try, TypeOK, RtcType, RamType, EpisodeType
    <3> QED
      BY <1>6, <3>1, <3>3 DEF Try
  <2>3. CASE ~Again(ram.attempt + 1, permanent, late)
    <3>1. /\ ram' = [ram EXCEPT !.eligible = TRUE]
          /\ rtc' = [rtc EXCEPT !.network = rtc.network \/ r = "api", !.episode = NextEpisode(r)]
          /\ screen' = Offline(r) /\ pc' \in {"wait", "asleep"}
      BY <1>6, <2>3 DEF Try, Noted
    <3>2. rtc' \in RtcType /\ rtc'.episode.reason = r
      BY <3>1, NextEpisodeType DEF TypeOK, RtcType
    <3>3. ram' \in RamType
      BY <3>1 DEF TypeOK, RtcType, RamType, EpisodeType
    <3>4. TypeOK'
      BY <1>6, <2>1, <3>1, <3>2, <3>3 DEF Try, TypeOK, RtcType
    <3> QED
      BY <1>6, <3>1, <3>2, <3>4 DEF Try
  <2> QED
    BY <2>2, <2>3
<1>7. ASSUME NEW r \in Reasons, NEW due \in BOOLEAN, TryForever(r, due) PROVE CycleInv'
  <2>1. troubles' \in 0 .. MaxTroubles
    BY <1>7, TroublesType DEF TryForever
  <2>2. /\ rtc' = [rtc EXCEPT !.network = rtc.network \/ r = "api", !.episode = NextEpisode(r)]
        /\ \/ screen' = Offline(r) /\ ram' = [ram EXCEPT !.poster = r]
           \/ ram.poster = r /\ UNCHANGED <<screen, ram>>
    BY <1>7 DEF TryForever, Noted, DisplayDue
  <2>3. rtc' \in RtcType /\ rtc'.episode.reason = r /\ rtc'.footer = rtc.footer
    BY <2>2, NextEpisodeType DEF TypeOK, RtcType
  <2>4. ram' \in RamType
    BY <2>2 DEF TypeOK, RtcType, RamType, EpisodeType
  <2>5. TypeOK'
    BY <1>7, <2>1, <2>2, <2>3, <2>4 DEF TryForever, TypeOK, RtcType
  <2>6. PosterKnown' /\ FooterKnown'
    <3>1. pc = "try" /\ pc' = "try"
      BY <1>7 DEF TryForever
    <3>2. CASE screen' = Offline(r)
      BY <2>3, <3>2
    <3>3. CASE ram.poster = r /\ UNCHANGED <<screen, ram>>
      BY <2>3, <3>1, <3>3 DEF Reasons
    <3> QED
      BY <2>2, <3>2, <3>3
  <2>7. PosterKept'
    <3>1. CASE screen' = Offline(r) /\ ram' = [ram EXCEPT !.poster = r]
      BY <1>7, <3>1 DEF TryForever, TypeOK, RamType
    <3>2. CASE UNCHANGED <<screen, ram>>
      BY <1>7, <3>2 DEF TryForever
    <3> QED
      BY <2>2, <3>1, <3>2
  <2>8. FooterHeld'
    BY <1>7, <2>2, <2>3 DEF TryForever
  <2> QED
    BY <1>7, <2>5, <2>6, <2>7, <2>8 DEF TryForever
<1>8. ASSUME NEW stale \in BOOLEAN, Fetched(stale) PROVE CycleInv'
  <2>1. rtc' \in RtcType /\ clock' \in BOOLEAN
    <3>1. rtc \in RtcType /\ clock \in BOOLEAN /\ NoEpisode \in EpisodeType
      BY CountAssumption DEF TypeOK, NoEpisode, EpisodeType
    <3>2. rtc' \in RtcType
      BY <1>8, <3>1 DEF Fetched, RtcType
    <3> QED
      BY <1>8, <3>1, <3>2 DEF Fetched, ClockSet
  <2>2. ram' \in RamType
    BY <1>8 DEF Fetched, TypeOK, RtcType, RamType, EpisodeType
  <2>3. TypeOK'
    BY <1>8, <2>1, <2>2 DEF Fetched, TypeOK, RtcType
  <2> QED
    BY <1>8, <2>3 DEF Fetched
<1>9. CASE UpdateSkipped
  <2>1. TypeOK'
    BY <1>9, CountAssumption DEF UpdateSkipped, TypeOK, RtcType, RamType, EpisodeType
  <2> QED
    BY <1>9, <2>1 DEF UpdateSkipped
<1>10. CASE UpdateCurrent
  <2>1. TypeOK'
    BY <1>10 DEF UpdateCurrent, TypeOK
  <2> QED
    BY <1>10, <2>1 DEF UpdateCurrent
<1>11. ASSUME NEW download \in BOOLEAN, UpdateFails(download) PROVE CycleInv'
  <2>1. TypeOK'
    BY <1>11, TroublesType, CountAssumption DEF UpdateFails, TypeOK, RtcType, RamType, EpisodeType
  <2> QED
    BY <1>11, <2>1 DEF UpdateFails
<1>12. CASE Render
  <2>1. TypeOK'
    BY <1>12 DEF Render, TypeOK
  <2> QED
    BY <1>12, <2>1 DEF Render
<1>13. ASSUME NEW fails \in BOOLEAN, MarkAndRest(fails) PROVE CycleInv'
  <2>1. troubles' \in 0 .. MaxTroubles
    BY <1>13, TroublesType DEF MarkAndRest
  <2>2. image' \in Images
    BY <1>13 DEF MarkAndRest, Marked, Images, TypeOK
  <2>3. TypeOK'
    BY <1>13, <2>1, <2>2 DEF MarkAndRest, TypeOK
  <2> QED
    BY <1>13, <2>3 DEF MarkAndRest, Marked
<1>14. CASE WaitEnds
  <2>1. TypeOK'
    BY <1>14 DEF WaitEnds, TypeOK
  <2> QED
    BY <1>14, <2>1 DEF WaitEnds
<1> QED
  BY <1>1, <1>2, <1>3, <1>4, <1>5, <1>6, <1>7, <1>8, <1>9, <1>10, <1>11, <1>12, <1>13, <1>14

\* Every action that restarts the device or wakes it.
LEMMA RestartCycle ==
    ASSUME CycleInv, UNCHANGED build,
           \/ Reset \/ PowerCut \/ LongPress \/ Crash \/ Install
           \/ \E w \in {"timer", "button"} : Wake(w)
           \/ \E c \in Configs : PortalSaves(c)
    PROVE  CycleInv'
<1>0. TypeOK /\ {latch, clock} \subseteq BOOLEAN
  BY DEF CycleInv, TypeOK
<1>1. CASE Reset \/ PowerCut \/ LongPress \/ Crash
  <2>1. troubles' \in 0 .. MaxTroubles
    BY <1>0, <1>1, TroublesType DEF Reset, PowerCut, LongPress, Crash
  <2>2. BootAs("reset", image) /\ latch' \in BOOLEAN /\ clock' \in BOOLEAN
    BY <1>0, <1>1 DEF Reset, PowerCut, LongPress, Crash
  <2> QED
    BY <2>1, <2>2, BootAsInv
<1>2. ASSUME NEW w \in {"timer", "button"}, Wake(w) PROVE CycleInv'
  <2>1. troubles' \in 0 .. MaxTroubles
    BY <1>0, <1>2, TroublesType DEF Wake
  <2>2. BootAs(w, image) /\ pc = "asleep" /\ latch' \in BOOLEAN /\ clock' \in BOOLEAN
    BY <1>0, <1>2 DEF Wake
  <2> QED
    BY <2>1, <2>2, BootAsInv
<1>3. CASE Install
  <2>1. image' \in Images /\ image' # "valid"
    BY <1>3 DEF Install, Booted, Images
  <2> QED
    BY <1>0, <1>3, <2>1, RestartInv DEF Install, TypeOK
<1>4. ASSUME NEW c \in Configs, PortalSaves(c) PROVE CycleInv'
  <2>1. image' \in Images /\ (image' = "valid" => proven') /\ proven' \in BOOLEAN
    BY <1>0, <1>4, BootedType DEF CycleInv, PortalSaves, ValidIsProven, TypeOK
  <2> QED
    BY <1>0, <1>4, <2>1, RestartInv DEF PortalSaves
<1> QED
  BY <1>1, <1>2, <1>3, <1>4

LEMMA NextCycle == CycleInv /\ [Next]_vars => CycleInv'
<1> SUFFICES ASSUME CycleInv, [Next]_vars PROVE CycleInv'
  OBVIOUS
<1>1. CASE UNCHANGED vars
  BY <1>1
  DEF vars, CycleInv, TypeOK, Drawn, PosterKept, PosterKnown, FooterKnown, FooterHeld, ValidIsProven,
      Forgot, Stale
<1>2. CASE Next
  BY <1>2, AwakeCycle, RestartCycle DEF Next, Progress, Failure, User, WindowPasses
<1> QED
  BY <1>1, <1>2

LEMMA AlwaysCycle == Spec => []CycleInv
BY InitCycle, NextCycle, PTL DEF Spec

-----------------------------------------------------------------------------
(* Theorems                                                                 *)

\* In every state the poster that a device without a dashboard shows names the
\* reason of its latest failure, and the image that the bootloader will not give
\* up any more has fetched and drawn a dashboard itself, whenever the device is
\* reset, loses power, is woken or installs a release that crashes.
THEOREM CycleIsSafe == Spec => []CycleSafety
<1>1. CycleInv => CycleSafety
  BY DEF CycleInv, CycleSafety, PosterTellsReason, PosterKnown, Forgot, Stale
<1> QED
  BY <1>1, AlwaysCycle, PTL

\* The wake cycle never paints the sleeping footer over itself, although the
\* flag that tells so is in RTC memory and the footer is not; and a flag that
\* keeps it from painting never stands beside a dashboard.
THEOREM FooterIsPaintedOnce == Spec => FooterOnce
<1>1. CycleInv /\ Quiet =>
          IF rtc.footer THEN screen.kind \in {"footer", "setup", "offline"} ELSE screen # Footer
  BY DEF CycleInv, FooterKnown, FooterHeld, Forgot, Stale, Quiet
<1>2. CycleInv /\ [Next]_vars =>
          [Quiet => IF rtc.footer THEN screen.kind \in {"footer", "setup", "offline"}
                    ELSE screen # Footer]_vars
  BY <1>1
<1> QED
  BY <1>2, AlwaysCycle, PTL DEF Spec, FooterOnce
=============================================================================
