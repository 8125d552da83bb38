------------------------------ MODULE DeviceCycle ------------------------------
(***************************************************************************)
(* What a device does after it booted: the wake cycle of app_main (quiet   *)
(* hours, join and fetch with their retries, clock, update, rendering,     *)
(* sleep or an idle wait), the update client, the bootloader's rollback,   *)
(* and what the panel shows.                                               *)
(*                                                                         *)
(* A deep sleep ends in a boot like a reset does; they differ in what the  *)
(* RTC memory keeps.  Joining and fetching are a choice of outcomes here;  *)
(* WifiRoam and ApiFailover show what they are made of.  So is the portal, *)
(* which is Provisioning's.                                                *)
(***************************************************************************)
EXTENDS Integers

CONSTANTS
    Builds,        \* forever: CONFIG_DEVDASH_RETRY_FOREVER_WHEN_OFFLINE
                   \* release: what the manifest offers, "none", "good" or "bad"
                   \* window: CONFIG_DEVDASH_PROV_TIMEOUT_S > 0, which is not the default
                   \* endless: outages and failed updates may go on for ever
    MaxAttempts,   \* DASH_WAKE_RETRY_MAX_ATTEMPTS
    Throttle,      \* CONFIG_DEVDASH_OTA_THROTTLE_CYCLES
    MaxTroubles,   \* bound: resets, presses, misreads and quiet hours, and outages unless endless
    MaxCount       \* bound: the attempt number, UINT32_MAX in the code

ASSUME BuildAssumption ==
    Builds \subseteq [forever: BOOLEAN, release: {"none", "good", "bad"},
                      window: BOOLEAN, endless: BOOLEAN]
ASSUME CountAssumption ==
    MaxAttempts \in Nat \ {0} /\ Throttle \in Nat /\ MaxTroubles \in Nat /\ MaxCount \in Nat \ {0}

VARIABLES
    pc,        \* where app_main is, or "asleep"
    ram,       \* its locals
    rtc,       \* the RTC_DATA_ATTR variables
    latch,     \* the portal request of boot_button.c, in RTC_NOINIT memory
    clock,     \* timekeep_time_is_valid
    cfg,       \* always connected, and connected through quiet hours
    quiet,     \* local time is in the quiet hours
    wake,      \* what this boot is: a timer wake, a button wake or a reset
    image,     \* the partition that an update writes
    screen,    \* what the panel was last asked to show
    proven,    \* history: this image has rendered a dashboard it fetched
    troubles,  \* what the bound MaxTroubles counts
    build      \* one of Builds
vars == <<pc, ram, rtc, latch, clock, cfg, quiet, wake, image, screen, proven, troubles, build>>

Reasons == {"wifi", "api"}
Images == {"none", "fresh", "pending", "valid", "aborted"}

Blank == [kind |-> "connecting"]
Dashboard == [kind |-> "dashboard"]
Footer == [kind |-> "footer"]
Setup == [kind |-> "setup"] \* the portal's page, its timeout and its failure
Updating == [kind |-> "ota"]
Offline(r) == [kind |-> "offline", reason |-> r]

NoEpisode == [reason |-> "none", attempt |-> 0]
RtcStart == [footer |-> FALSE, throttle |-> 0, network |-> FALSE,
             episode |-> NoEpisode]

\* No more of them than the bound; an outage counts only when outages are bounded.
Trouble == troubles < MaxTroubles /\ troubles' = troubles + 1
Outage == IF build.endless THEN troubles' = troubles ELSE Trouble
----------------------------------------------------------------------------
\* Boots.

\* The bootloader: an image found unverified is given up, a fresh one is tried.
Booted(i) == CASE i = "fresh" -> "pending" [] i = "pending" -> "aborted" [] OTHER -> i

Updated == image \in {"pending", "valid"}

\* RTC_DATA_ATTR keeps its contents through a deep sleep only.
RtcAfter(w, r) == IF w = "reset" THEN RtcStart ELSE r

BootAs(w, i) ==
    /\ pc' = "boot" /\ wake' = w
    /\ rtc' = RtcAfter(w, rtc)
    /\ image' = Booted(i)
    /\ proven' = (proven /\ Booted(i) = "valid")
    /\ UNCHANGED <<ram, cfg, quiet, screen>>

\* esp_restart, a panic, a watchdog or USB reset; the clock goes on
Reset == BootAs("reset", image) /\ UNCHANGED <<latch, clock>> /\ Trouble

PowerCut == BootAs("reset", image) /\ latch' \in BOOLEAN /\ clock' = FALSE /\ Trouble

Wake(w) ==
    /\ pc = "asleep"
    /\ BootAs(w, image)
    /\ IF w = "button" THEN Trouble ELSE UNCHANGED troubles
    /\ UNCHANGED <<latch, clock>>

\* boot_button_monitor_task, started before the loop
LongPress ==
    /\ pc \notin {"asleep", "boot", "portal"}
    /\ BootAs("reset", image)
    /\ latch' = TRUE
    /\ UNCHANGED clock /\ Trouble

\* A bad release does not get through its boot.
Crash ==
    /\ pc = "boot" /\ Updated /\ build.release = "bad"
    /\ BootAs("reset", image) /\ UNCHANGED <<latch, clock, troubles>>

\* A load that an NVS error makes empty opens the portal, or sets the latch on
\* the way to the restart that does (Provisioning).
Boot(long, misread) ==
    /\ pc = "boot" /\ ~(Updated /\ build.release = "bad")
    /\ (long => wake = "button")
    /\ IF misread THEN Trouble ELSE UNCHANGED troubles
    /\ IF long \/ latch \/ misread
       THEN pc' = "portal" /\ screen' = Setup /\ latch' = TRUE
       ELSE /\ pc' = "loop" /\ UNCHANGED latch
            /\ screen' = IF wake = "reset" THEN Blank ELSE screen
    /\ ram' = [eligible |-> wake = "timer", attempt |-> 0, poster |-> "none"]
    /\ UNCHANGED <<rtc, clock, cfg, quiet, wake, image, proven>>

\* The portal ends in a restart after a save, or goes to sleep after an error:
\* its window has passed, in a build that has one, or it did not come up.
PortalSaves(c) ==
    /\ pc = "portal"
    /\ latch' = FALSE /\ cfg' = c
    /\ pc' = "boot" /\ wake' = "reset" /\ rtc' = RtcStart /\ image' = Booted(image)
    /\ proven' = (proven /\ image' = "valid")
    /\ UNCHANGED <<ram, clock, quiet, screen, troubles>>

PortalEnds ==
    /\ pc = "portal"
    /\ latch' = FALSE /\ pc' = "asleep"
    /\ UNCHANGED <<ram, rtc, clock, cfg, quiet, wake, image, screen, proven, troubles>>

WindowPasses == build.window /\ PortalEnds
----------------------------------------------------------------------------
\* Quiet hours.

\* timekeep_now_minute_of_day, timekeep_minute_in_window
Inside == clock /\ quiet

\* dashboard_quiet_action
InsideAction == IF cfg.keep /\ cfg.quietKeep THEN "pause" ELSE "sleep"

QuietActionLatched == \* mutant: goes by the flag, not the time
    IF ram.eligible /\ rtc.network /\ (rtc.footer \/ Inside) THEN InsideAction ELSE "inactive"
QuietAction ==
    IF ram.eligible /\ rtc.network /\ Inside THEN InsideAction ELSE "inactive"

ShowSleepingUnlatched == \* mutant
    IF rtc.footer THEN UNCHANGED <<screen, rtc>> ELSE screen' = Footer /\ rtc' = rtc
ShowSleeping ==
    IF rtc.footer
    THEN UNCHANGED <<screen, rtc>>
    ELSE screen' = Footer /\ rtc' = [rtc EXCEPT !.footer = TRUE]

Quiet ==
    /\ pc = "loop" /\ QuietAction # "inactive"
    /\ ShowSleeping
    /\ pc' = IF QuietAction = "sleep" THEN "asleep" ELSE "wait"
    /\ UNCHANGED <<ram, latch, clock, cfg, quiet, wake, image, proven, troubles>>

StartCycle ==
    /\ pc = "loop" /\ QuietAction = "inactive"
    /\ pc' = "try" /\ ram' = [ram EXCEPT !.attempt = 0]
    /\ UNCHANGED <<rtc, latch, clock, cfg, quiet, wake, image, screen, proven, troubles>>

\* Local time goes on; quiet hours begin and end.
Tick ==
    /\ pc \in {"asleep", "wait"}
    /\ quiet' = ~quiet
    /\ IF quiet THEN UNCHANGED troubles ELSE Trouble
    /\ UNCHANGED <<pc, ram, rtc, latch, clock, cfg, wake, image, screen, proven>>
----------------------------------------------------------------------------
\* Join and fetch.

\* offline_attempt_next
NextEpisode(r) ==
    IF rtc.episode.reason # r THEN [reason |-> r, attempt |-> 1]
    ELSE [reason |-> r, attempt |-> IF rtc.episode.attempt < MaxCount
                                    THEN rtc.episode.attempt + 1 ELSE MaxCount]

\* A joined network is noted, also when the fetch then fails.
Noted(r) == [rtc EXCEPT !.network = @ \/ r = "api"]

\* Another attempt within this wake
AgainAlways(n, permanent, late) == ~permanent \* mutant
Again(n, permanent, late) == ~permanent /\ n < MaxAttempts /\ ~late

Try(r, permanent, late) ==
    /\ pc = "try" /\ ~build.forever /\ (permanent => r = "api")
    /\ Outage
    /\ IF Again(ram.attempt + 1, permanent, late)
       THEN /\ ram' = [ram EXCEPT !.attempt = (@ + 1) % (MaxAttempts + 1)]
            /\ rtc' = Noted(r)
            /\ UNCHANGED <<pc, screen>>
       ELSE /\ rtc' = [Noted(r) EXCEPT !.episode = NextEpisode(r)]
            /\ screen' = Offline(r)
            /\ pc' = IF cfg.keep THEN "wait" ELSE "asleep"
            /\ ram' = [ram EXCEPT !.eligible = TRUE]
    /\ UNCHANGED <<latch, clock, cfg, quiet, wake, image, proven>>

\* The bring-up build stays in this loop, and draws the poster again only when
\* its reason changes or a refresh interval has passed.
DisplayDueOnce(r, due) == ram.poster = "none" \/ due \* mutant
DisplayDue(r, due) == ram.poster \notin {r} \/ due

TryForever(r, due) ==
    /\ pc = "try" /\ build.forever
    /\ Outage
    /\ rtc' = [Noted(r) EXCEPT !.episode = NextEpisode(r)]
    /\ IF DisplayDue(r, due)
       THEN screen' = Offline(r) /\ ram' = [ram EXCEPT !.poster = r]
       ELSE UNCHANGED <<screen, ram>>
    /\ UNCHANGED <<pc, latch, clock, cfg, quiet, wake, image, proven>>

\* clock_should_apply, timekeep_set_from_iso: a payload that is not stale sets it.
ClockSet(stale) == clock \/ ~stale

Fetched(stale) ==
    /\ pc = "try"
    /\ pc' = "update"
    /\ clock' = ClockSet(stale)
    /\ rtc' = [rtc EXCEPT !.footer = FALSE, !.episode = NoEpisode, !.network = TRUE]
    /\ ram' = [ram EXCEPT !.eligible = TRUE, !.poster = "none"]
    /\ UNCHANGED <<latch, cfg, quiet, wake, image, screen, proven, troubles>>
----------------------------------------------------------------------------
\* ota_client_maybe_update, ota_client_mark_image_valid.

Newer == build.release # "none" /\ ~Updated

\* Nothing asked: the image runs on trial, or a failure was not long ago.
UpdateSkipped ==
    /\ pc = "update" /\ (image = "pending" \/ rtc.throttle > 0)
    /\ rtc' = IF image = "pending" THEN rtc ELSE [rtc EXCEPT !.throttle = @ - 1]
    /\ pc' = "render"
    /\ UNCHANGED <<ram, latch, clock, cfg, quiet, wake, image, screen, proven, troubles>>

\* No manifest here, updates disabled, or nothing newer or canonical offered.
UpdateCurrent ==
    /\ pc = "update" /\ image # "pending" /\ rtc.throttle = 0
    /\ ~Newer
    /\ pc' = "render"
    /\ UNCHANGED <<ram, rtc, latch, clock, cfg, quiet, wake, image, screen, proven, troubles>>

\* The manifest or the download fails; the latter after its poster was drawn.
UpdateFails(download) ==
    /\ pc = "update" /\ image # "pending" /\ rtc.throttle = 0
    /\ (download => Newer)
    /\ Outage
    /\ rtc' = [rtc EXCEPT !.throttle = Throttle]
    /\ screen' = IF download THEN Updating ELSE screen
    /\ pc' = "render"
    /\ UNCHANGED <<ram, latch, clock, cfg, quiet, wake, image, proven>>

Install ==
    /\ pc = "update" /\ image # "pending" /\ rtc.throttle = 0 /\ Newer
    /\ pc' = "boot" /\ wake' = "reset" /\ rtc' = RtcStart
    /\ image' = Booted("fresh")
    /\ screen' = Updating
    /\ proven' = FALSE
    /\ UNCHANGED <<ram, latch, clock, cfg, quiet, troubles>>

Render ==
    /\ pc = "render"
    /\ screen' = Dashboard
    /\ proven' = TRUE
    /\ pc' = "rendered"
    /\ UNCHANGED <<ram, rtc, latch, clock, cfg, quiet, wake, image, troubles>>

MarkedNever(i) == i \* mutant
Marked(i) == IF i = "pending" THEN "valid" ELSE i

\* A failure to mark the image is logged; the next cycle tries again, unless it
\* begins with a boot.
MarkAndRest(fails) ==
    /\ pc = "rendered" /\ (fails => image = "pending")
    /\ IF fails THEN Outage /\ image' = image
       ELSE UNCHANGED troubles /\ image' = Marked(image)
    /\ pc' = IF cfg.keep THEN "wait" ELSE "asleep"
    /\ UNCHANGED <<ram, rtc, latch, clock, cfg, quiet, wake, screen, proven>>

WaitEnds ==
    /\ pc = "wait" /\ pc' = "loop"
    /\ UNCHANGED <<ram, rtc, latch, clock, cfg, quiet, wake, image, screen, proven, troubles>>
----------------------------------------------------------------------------
Configs == [keep: BOOLEAN, quietKeep: BOOLEAN]

Init ==
    /\ pc = "boot" /\ wake = "reset"
    /\ ram = [eligible |-> FALSE, attempt |-> 0, poster |-> "none"]
    /\ rtc = RtcStart /\ latch = FALSE /\ clock = FALSE
    /\ cfg \in Configs /\ quiet \in BOOLEAN
    /\ image = "none" /\ screen = Blank /\ proven = FALSE /\ troubles = 0
    /\ build \in Builds

Failure ==
    \/ \E r \in Reasons, permanent, late \in BOOLEAN : Try(r, permanent, late)
    \/ \E r \in Reasons, due \in BOOLEAN : TryForever(r, due)
    \/ \E download \in BOOLEAN : UpdateFails(download)
    \/ MarkAndRest(TRUE) \/ Boot(FALSE, TRUE)

\* What happens by itself when nothing goes wrong
Progress ==
    \/ Boot(FALSE, FALSE) \/ Crash \/ Quiet \/ StartCycle
    \/ \E stale \in BOOLEAN : Fetched(stale)
    \/ UpdateSkipped \/ UpdateCurrent \/ Install \/ Render \/ MarkAndRest(FALSE)
    \/ WaitEnds \/ Wake("timer") \/ WindowPasses

User ==
    \/ LongPress \/ Wake("button") \/ Boot(TRUE, FALSE)
    \/ \E c \in Configs : PortalSaves(c)

\* The portal may fail to come up, which nothing but a fault makes it do.
Next ==
    /\ Progress \/ Failure \/ User \/ PortalEnds \/ Tick \/ Reset \/ PowerCut
    /\ UNCHANGED build

Spec == Init /\ [][Next]_vars

\* The main task always goes on, one way or another; local time leaves quiet hours.
\* Nobody has to come to an open portal.
MainRuns == WF_vars((Progress \/ Failure) /\ UNCHANGED build)
TimePasses == SF_vars(Tick /\ quiet /\ UNCHANGED build)
LiveSpec == Spec /\ MainRuns /\ TimePasses
----------------------------------------------------------------------------
\* Properties.

EpisodeType == [reason: Reasons \union {"none"}, attempt: 0 .. MaxCount]
RtcType == [footer: BOOLEAN, throttle: 0 .. Throttle, network: BOOLEAN, episode: EpisodeType]
RamType == [eligible: BOOLEAN, attempt: 0 .. MaxAttempts, poster: Reasons \union {"none"}]

TypeOK ==
    /\ pc \in {"boot", "portal", "loop", "try", "update", "render", "rendered", "wait", "asleep"}
    /\ ram \in RamType /\ rtc \in RtcType
    /\ {latch, clock, proven, quiet} \subseteq BOOLEAN
    /\ cfg \in Configs /\ wake \in {"timer", "button", "reset"} /\ image \in Images
    /\ screen \in {Blank, Dashboard, Footer, Setup, Updating} \union {Offline(r) : r \in Reasons}
    /\ troubles \in 0 .. MaxTroubles

\* The sleeping footer is never painted over a sleeping footer, and quiet hours
\* never find a dashboard that is left without one: however often the device wakes
\* in them, restarts or is woken by the user, the panel is not refreshed for
\* nothing.  What is left as it is beside a footer is a poster, of the setup or of
\* an outage since the last footer was painted.
FooterOnce ==
    [][Quiet => IF rtc.footer THEN screen.kind \in {"footer", "setup", "offline"}
                ELSE screen # Footer]_vars

\* The poster on the panel of a device that is offline names the reason of its
\* latest failure, in the build that sleeps and in the one that retries.
PosterTellsReason ==
    screen.kind = "offline" /\ pc \in {"asleep", "wait", "loop", "try"}
        => screen.reason = rtc.episode.reason

\* An updated image is final only after it has itself fetched and rendered a
\* dashboard; until then any restart gives it up.
ValidIsProven == image = "valid" => proven

\* Neither a poster nor an image ever claims more than happened.
CycleSafety == TypeOK /\ PosterTellsReason /\ ValidIsProven

\* A release that does not get through its boot is always given up again.
RollsBack == build.release = "bad" => []<>~Updated

\* A portal that stays open: the default build closes it for a save, a fault or a
\* reset only.
PortalLeftOpen == ~build.window /\ <>[](pc = "portal")

\* A battery device always gets back to sleep, whatever network and API do and
\* for however long; only a release that crashes, installed again in each cycle
\* of the old image, and a portal that nobody comes to keep it awake.
BatterySleeps ==
    ~build.forever /\ build.release # "bad" /\ []~cfg.keep =>
        []<>(pc = "asleep") \/ PortalLeftOpen

Ends == ~build.forever /\ ~build.endless

\* When a good release is offered and outages, resets, presses and errors of the
\* flash come to an end, the device ends up with the release confirmed, unless it
\* is left in a portal that does not close.
UpdateArrives ==
    Ends /\ build.release = "good" => <>[](image = "valid") \/ PortalLeftOpen

\* Every release finds its end: a good one is confirmed, one that crashes given up.
ReleaseSettles == UpdateArrives /\ RollsBack

\* When outages, resets and presses come to an end, dashboards are shown, unless
\* the device is left in a portal that does not close.
DashboardReturns ==
    Ends /\ build.release # "bad" => []<>(pc = "rendered") \/ PortalLeftOpen

\* Rollback is an answer to any release: also one that crashes does not keep the
\* device from showing dashboards when outages, resets and presses come to an end.
ReleaseCannotStop == Ends => []<>(pc = "rendered")
=============================================================================
