---------------------------- MODULE Provisioning ----------------------------
(***************************************************************************)
(* The provisioning portal and the BOOT gestures: run_provisioning_window, *)
(* setup_reset_gesture and handler_save of wifi_prov.c, the boot decisions *)
(* of app_main, boot_button.c, and the country key of storage.c.           *)
(*                                                                         *)
(* Three things run at once while the portal is up: the main task, which   *)
(* polls the button, the HTTP server's task, which saves, and the timer    *)
(* that restarts the chip after a save.  The user presses and releases     *)
(* BOOT at any time.  storage_save_v2 and storage_load_v2 are single steps *)
(* here, which NVS errors make fail: ConfigStore shows what they are made  *)
(* of.                                                                     *)
(***************************************************************************)
EXTENDS Integers

CONSTANTS
    Config,         \* network lists a form can submit
    NoNetworks,     \* the configuration without any network
    Country,        \* codes wifi_country_is_supported accepts
    Absent,         \* no wifi_cc key; a form without the country field
    DefaultCountry, \* CONFIG_DEVDASH_WIFI_COUNTRY
    Sites           \* window: is CONFIG_DEVDASH_PROV_TIMEOUT_S > 0?
                    \* faults: which of "nvs", "timer", "power", "reset" can happen

ASSUME CountryAssumption == DefaultCountry \in Country /\ Absent \notin Country
ASSUME ConfigAssumption == NoNetworks \notin Config
ASSUME SitesAssumption ==
    Sites \subseteq [window: BOOLEAN, faults: SUBSET {"nvs", "timer", "power", "reset"}]

VARIABLES
    flash,   \* the stored configuration and the wifi_cc key
    latch,   \* the two RTC_NOINIT words of boot_button.c: is the magic in them?
    main,    \* where app_main is
    cause,   \* esp_reset_reason and wake-up cause of this boot
    held,    \* BOOT is pressed
    http,    \* the HTTP server's task
    timer,   \* s_restart_timer is running
    session, \* history: a portal is open and neither saved nor ended
    owed,    \* history: why the magic is in the word that asks for an erase
    spoilt,  \* history: something undid the last save, or there was none
    site     \* one of Sites
vars == <<flash, latch, main, cause, held, http, timer, session, owed, spoilt, site>>

Form == [config: Config, country: Country \union {Absent}]
Portal == {"portal", "pressed", "confirm", "hold", "wiping", "wiped",
           "clearing", "cleared", "fail", "retry", "teardown", "expired"}
Saving == {"country", "config", "rollback", "latch", "page"}

Down == [pc |-> "down"]
Idle == [pc |-> "idle"]
Failed(clean) == [pc |-> "failed", was |-> http.was, sent |-> http.form.country, clean |-> clean]
Empty == [config |-> NoNetworks, country |-> Absent]
NvsErrors == "nvs" \in site.faults
----------------------------------------------------------------------------
\* Restarts.

\* A hold is paid for in the next boot when that is the firmware's own restart;
\* after any other reset its latch is a left-over.
Aged(c) == IF owed \in {"held", "due"} THEN IF c = "software" THEN "due" ELSE "stale"
                                       ELSE owed

\* Everything but flash and RTC memory is lost.  GPIO0 is a strapping pin: held
\* at a reset it sends the chip to the ROM's download mode.
RestartBy(c) ==
    /\ main' = IF held THEN "download" ELSE "boot"
    /\ cause' = c
    /\ http' = Down
    /\ timer' = FALSE
    /\ UNCHANGED <<flash, held>>

\* RTC memory is kept.
Keeping(c) == RestartBy(c) /\ owed' = Aged(c) /\ UNCHANGED <<latch, session, spoilt>>

\* esp_restart
Restart == Keeping("software")

\* A USB reset, a brown-out, a watchdog or a panic.
Reset == "reset" \in site.faults /\ Keeping("other")

\* RTC_NOINIT words are undefined after a loss of power: each can hold its magic
\* or not.
PowerCut ==
    /\ "power" \in site.faults
    /\ RestartBy("power")
    /\ latch' \in [force: BOOLEAN, factory: BOOLEAN]
    /\ owed' = IF latch'.factory THEN "garbage" ELSE "no"
    /\ spoilt' = (spoilt \/ latch'.force)
    /\ session' = FALSE
----------------------------------------------------------------------------
\* app_main up to the portal or the wake cycle.

Ended(l) == [l EXCEPT !.force = FALSE]
ConsumedNever(l) == l \* mutant
Consumed(l) == [l EXCEPT !.factory = FALSE]

ErasePending == latch.factory /\ cause = "software"

\* nvs_flash_erase
Erase ==
    /\ main = "boot" /\ ErasePending
    /\ flash' = Empty
    /\ latch' = Consumed(latch)
    /\ owed' = "no"
    /\ spoilt' = TRUE
    /\ main' = "erased"
    /\ UNCHANGED <<cause, held, http, timer, session>>

\* It failed: fail closed, restart and try again.
EraseFails == main = "boot" /\ ErasePending /\ NvsErrors /\ Restart

\* Past the latch: NVS is initialised.
Booting == main \in {"boot", "erased", "reinit"} /\ ~(main = "boot" /\ ErasePending)

\* nvs_flash_init finds no free page or a newer format: whatever is there goes.
Reinit ==
    /\ Booting /\ main # "reinit" /\ NvsErrors
    /\ flash' = Empty
    /\ spoilt' = TRUE
    /\ main' = "reinit"
    /\ UNCHANGED <<latch, cause, held, http, timer, session, owed>>

\* ESP_ERROR_CHECK: the second try, or the erase before it, failed too.
Panic == Booting /\ NvsErrors /\ Keeping("other")

\* storage_load_v2 returns the defaults, without a network, when flash is not
\* read.  A wake by the button asks for the portal when it is held long enough.
WantsPortal(long, misread) == long \/ latch.force \/ flash.config = NoNetworks \/ misread

\* The first load failed, nothing else asks for the portal, and the second load of
\* wifi_net_provision_if_needed finds networks: the portal is not opened, the latch
\* is set and the device restarts.
SecondThoughts ==
    /\ Booting /\ NvsErrors
    /\ ~latch.force /\ flash.config # NoNetworks
    /\ RestartBy("software")
    /\ latch' = [latch EXCEPT !.force = TRUE]
    /\ owed' = Aged("software")
    /\ spoilt' = TRUE
    /\ UNCHANGED session

OpenPortal ==
    /\ latch' = [latch EXCEPT !.force = TRUE]
    /\ main' = "portal"
    /\ http' = Idle
    /\ session' = TRUE

BootDecides(long, misread) ==
    /\ Booting
    /\ long => cause = "button"
    /\ misread => NvsErrors
    /\ IF WantsPortal(long, misread)
       THEN OpenPortal
       ELSE main' = "running" /\ UNCHANGED <<latch, http, session>>
    /\ spoilt' = (spoilt \/ misread)
    /\ UNCHANGED <<flash, cause, held, timer, owed>>

\* The portal does not come up: no interface, or no stored access point password.
PortalFails(long) ==
    /\ Booting /\ NvsErrors
    /\ long => cause = "button"
    /\ WantsPortal(long, TRUE)
    /\ latch' = Ended(latch)
    /\ session' = FALSE
    /\ main' = "asleep"
    /\ UNCHANGED <<flash, cause, held, http, timer, owed, spoilt>>
----------------------------------------------------------------------------
\* The main task while the portal is up.

Goto(from, to) ==
    /\ main = from
    /\ main' = to
    /\ UNCHANGED <<flash, latch, cause, held, http, timer, session, owed, spoilt>>

LongPress     == held /\ Goto("portal", "pressed")
Confirm       == ~held /\ Goto("pressed", "confirm")
CancelConfirm == ~held /\ Goto("confirm", "portal")
PressAgain    == held /\ Goto("confirm", "hold")
Tap           == ~held /\ Goto("hold", "clearing")

\* Three seconds are over and the button is still down.
Hold ==
    /\ main = "hold" /\ held
    /\ latch' = [latch EXCEPT !.factory = TRUE]
    /\ owed' = "held"
    /\ main' = "wiping"
    /\ UNCHANGED <<flash, cause, held, http, timer, session, spoilt>>

WipeReleased == ~held /\ Goto("wiping", "wiped")

WipeRestart == main = "wiped" /\ Restart

\* reset_clear_networks
Clear ==
    /\ main = "clearing"
    /\ flash' = [flash EXCEPT !.config = NoNetworks]
    /\ spoilt' = TRUE
    /\ main' = "cleared"
    /\ UNCHANGED <<latch, cause, held, http, timer, session, owed>>

\* An error can be reported although the last write reached flash.
ClearFails ==
    /\ main = "clearing" /\ NvsErrors
    /\ \/ flash' = [flash EXCEPT !.config = NoNetworks] /\ spoilt' = TRUE
       \/ UNCHANGED <<flash, spoilt>>
    /\ main' = "fail"
    /\ UNCHANGED <<latch, cause, held, http, timer, session, owed>>
RetryPress == held /\ Goto("fail", "retry")
Retry      == ~held /\ Goto("retry", "clearing")
GiveUp     == Goto("fail", "portal")

ClearRestart == main = "cleared" /\ Restart

WindowEnds == site.window /\ Goto("portal", "teardown")

\* httpd_stop waits for the handler that runs.
Teardown ==
    /\ main = "teardown" /\ http.pc = "idle"
    /\ http' = Down
    /\ main' = "expired"
    /\ UNCHANGED <<flash, latch, cause, held, timer, session, owed, spoilt>>

\* app_main's error path: the window ended without BIT_PROV_DONE, which no code
\* sets, so this is how every window ends.
Expire ==
    /\ main = "expired"
    /\ latch' = Ended(latch)
    /\ session' = FALSE
    /\ timer' = FALSE
    /\ main' = "asleep"
    /\ UNCHANGED <<flash, cause, held, http, owed, spoilt>>
----------------------------------------------------------------------------
\* handler_save.  Requests that validation refuses change nothing.

\* What storage_get_wifi_country and storage_wifi_country_is_saved make of the
\* key; one that is not read is one that is not there.
Effective(key) == IF key = Absent THEN DefaultCountry ELSE key

\* read, again: do the two calls read the key?
Post(form, read, again) ==
    /\ http.pc = "idle" /\ main \in Portal \ {"teardown", "expired"}
    /\ ~(read /\ again) => NvsErrors
    /\ http' = [pc |-> "country", form |-> form, was |-> flash.country,
                effective |-> Effective(IF read THEN flash.country ELSE Absent),
                saved |-> again /\ flash.country # Absent,
                written |-> FALSE, clean |-> read /\ again]
    /\ UNCHANGED <<flash, latch, main, cause, held, timer, session, owed, spoilt>>

HttpOnly == UNCHANGED <<latch, main, cause, held, timer, session, owed>>

SetCountry(c) == flash' = [flash EXCEPT !.country = c]
SetConfig(c) == flash' = [flash EXCEPT !.config = c]

ChangesCountry == http.form.country \notin {Absent, http.effective}

KeepCountry ==
    /\ http.pc = "country" /\ ~ChangesCountry
    /\ http' = [http EXCEPT !.pc = "config"]
    /\ UNCHANGED <<flash, spoilt>> /\ HttpOnly

SaveCountry ==
    /\ http.pc = "country" /\ ChangesCountry
    /\ SetCountry(http.form.country)
    /\ http' = [http EXCEPT !.pc = "config", !.written = TRUE]
    /\ UNCHANGED spoilt /\ HttpOnly

\* nvs_set_str can have written the key when nvs_commit returns an error.  The
\* handler takes nothing back.
SaveCountryFails ==
    /\ http.pc = "country" /\ ChangesCountry /\ NvsErrors
    /\ SetCountry(http.form.country) \/ UNCHANGED flash
    /\ http' = Failed(FALSE)
    /\ UNCHANGED spoilt /\ HttpOnly

SaveConfig ==
    /\ http.pc = "config"
    /\ SetConfig(http.form.config)
    /\ spoilt' = FALSE
    /\ http' = [http EXCEPT !.pc = "latch"]
    /\ HttpOnly

\* A save whose last write landed can report an error all the same.
SaveConfigFails ==
    /\ http.pc = "config" /\ NvsErrors
    /\ SetConfig(http.form.config) \/ UNCHANGED flash
    /\ http' = IF http.written THEN [http EXCEPT !.pc = "rollback"] ELSE Failed(http.clean)
    /\ UNCHANGED spoilt /\ HttpOnly

\* The exact prior state: the old code, or no key when there was none.
PriorCountryPinned == http.effective \* mutant
PriorCountry == IF http.saved THEN http.effective ELSE Absent

Rollback ==
    /\ http.pc = "rollback"
    /\ SetCountry(PriorCountry)
    /\ http' = Failed(http.clean)
    /\ UNCHANGED spoilt /\ HttpOnly

RollbackFails ==
    /\ http.pc = "rollback" /\ NvsErrors
    /\ SetCountry(PriorCountry) \/ UNCHANGED flash
    /\ http' = Failed(FALSE)
    /\ UNCHANGED spoilt /\ HttpOnly

\* render_save_error
ReplyFailed ==
    /\ http.pc = "failed"
    /\ http' = Idle
    /\ UNCHANGED <<flash, spoilt>> /\ HttpOnly

\* boot_button_force_prov_clear: the session ends with the save.
EndSession ==
    /\ http.pc = "latch"
    /\ latch' = Ended(latch)
    /\ session' = FALSE
    /\ http' = [http EXCEPT !.pc = "page"]
    /\ UNCHANGED <<flash, main, cause, held, timer, owed, spoilt>>

\* render_saved_page, then schedule_restart; only a log line tells that the
\* timer could not be created.
ReplySaved(started) ==
    /\ http.pc = "page"
    /\ ~started => "timer" \in site.faults
    /\ timer' = (timer \/ started)
    /\ http' = Idle
    /\ UNCHANGED <<flash, latch, main, cause, held, session, owed, spoilt>>

\* schedule_restart_cb
TimerFires == timer /\ Restart
----------------------------------------------------------------------------
\* The user, the wake cycle and deep sleep.

Press ==
    /\ ~held
    /\ held' = TRUE
    /\ UNCHANGED <<flash, latch, main, cause, http, timer, session, owed, spoilt>>

Release ==
    /\ held
    /\ held' = FALSE
    /\ UNCHANGED <<flash, latch, main, cause, http, timer, session, owed, spoilt>>

\* boot_button_monitor_task: a long press, seen to its release.
MonitorPress   == held /\ Goto("running", "monitor")
MonitorRestart ==
    /\ main = "monitor" /\ ~held
    /\ latch' = [latch EXCEPT !.force = TRUE]
    /\ RestartBy("software")
    /\ owed' = Aged("software")
    /\ UNCHANGED <<session, spoilt>>

\* The end of an update.
OtaRestart == main = "running" /\ Restart

Sleep == Goto("running", "asleep")

Wake(c) ==
    /\ main = "asleep"
    /\ c = "button" => held
    /\ main' = "boot"
    /\ cause' = c
    /\ UNCHANGED <<flash, latch, held, http, timer, session, owed, spoilt>>
----------------------------------------------------------------------------
Init ==
    /\ flash \in [config: Config \union {NoNetworks}, country: Country \union {Absent}]
    /\ latch \in [force: BOOLEAN, factory: BOOLEAN]
    /\ main = "boot" /\ cause = "power" /\ held = FALSE
    /\ http = Down /\ timer = FALSE
    /\ session = FALSE /\ spoilt = TRUE
    /\ owed = IF latch.factory THEN "garbage" ELSE "no"
    /\ site \in Sites

Advance == Erase \/ \E long, misread \in BOOLEAN : BootDecides(long, misread)
BootFails ==
    \/ EraseFails \/ Reinit \/ Panic \/ SecondThoughts
    \/ \E long \in BOOLEAN : PortalFails(long)
Boot == Advance \/ BootFails

Gesture ==
    \/ LongPress \/ Confirm \/ CancelConfirm \/ PressAgain \/ Tap
    \/ Hold \/ WipeReleased \/ WipeRestart
    \/ Clear \/ ClearFails \/ RetryPress \/ Retry \/ GiveUp \/ ClearRestart

EndOfWindow == WindowEnds \/ Teardown \/ Expire

Handler ==
    \/ KeepCountry \/ SaveCountry \/ SaveCountryFails
    \/ SaveConfig \/ SaveConfigFails \/ Rollback \/ RollbackFails
    \/ ReplyFailed \/ EndSession
    \/ \E started \in BOOLEAN : ReplySaved(started)

User == Press \/ Release

Cycle ==
    \/ MonitorPress \/ MonitorRestart \/ OtaRestart \/ Sleep
    \/ \E c \in {"timer", "button"} : Wake(c)

Step ==
    \/ Boot \/ Gesture \/ EndOfWindow
    \/ \E form \in Form, read, again \in BOOLEAN : Post(form, read, again)
    \/ Handler \/ TimerFires
    \/ User \/ Cycle \/ PowerCut \/ Reset

Next == Step /\ UNCHANGED site

Spec == Init /\ [][Next]_vars

\* The scheduler runs both tasks, the restart timer fires, the window's deadline
\* passes, and flash does not make every boot restart.  What the user does is not
\* fair.
FairSpec ==
    /\ Spec
    /\ WF_vars(Advance /\ UNCHANGED site) /\ WF_vars(Handler /\ UNCHANGED site)
    /\ WF_vars(TimerFires /\ UNCHANGED site) /\ WF_vars(EndOfWindow /\ UNCHANGED site)
    /\ WF_vars(CancelConfirm /\ UNCHANGED site) /\ WF_vars(GiveUp /\ UNCHANGED site)
    /\ WF_vars(ClearRestart /\ UNCHANGED site) /\ WF_vars(WipeRestart /\ UNCHANGED site)
    /\ WF_vars(Clear /\ UNCHANGED site)
----------------------------------------------------------------------------
Key == Country \union {Absent}
Busy == [pc: Saving, form: Form, was: Key, effective: Country, saved: BOOLEAN,
         written: BOOLEAN, clean: BOOLEAN]
Waiting == [pc: {"down", "idle"}]
Failing == [pc: {"failed"}, was: Key, sent: Key, clean: BOOLEAN]

TypeOK ==
    /\ flash \in [config: Config \union {NoNetworks}, country: Key]
    /\ latch \in [force: BOOLEAN, factory: BOOLEAN]
    /\ main \in Portal \union {"boot", "erased", "reinit", "running", "monitor", "asleep", "download"}
    /\ cause \in {"power", "software", "other", "timer", "button"}
    /\ http \in Waiting \union Busy \union Failing
    /\ {held, timer, session, spoilt} \subseteq BOOLEAN
    /\ owed \in {"no", "held", "due", "stale", "garbage"}

\* "It remains set across software/USB resets until the portal saves
\* successfully or the provisioning window returns with a controlled error"
\* (main.c:352-354): a portal that was interrupted by any reset but a loss of
\* power, a gesture's and its own scheduled ones included, is opened again before
\* the device goes back to its wake cycle.
InterruptedPortalResumes == main \in {"running", "monitor"} => ~session

\* "A failed config save leaves NOTHING applied" (wifi_prov.c:1635): when the user
\* is told that a save failed the wifi_cc key is as it was, a key that did not
\* exist included, if no call that reads, writes or restores that key returned an
\* error.  If one did, the key may be the submitted one (its commit failed after it
\* was written, and nothing took it back), the build's default or gone (the prior
\* state was misread), but no other.  The configuration itself is ConfigStore's
\* FailedSaveKeepsOld.
FailedSaveAppliesNothing ==
    http.pc = "failed" =>
        \/ flash.country = http.was
        \/ ~http.clean /\ flash.country \in {http.sent, DefaultCountry, Absent}

\* The three together: a reset never gets past an open portal, nor a failed save
\* past its rollback.
PortalSafety == TypeOK /\ InterruptedPortalResumes /\ FailedSaveAppliesNothing

\* The latch and the gesture agree, through resets and losses of power at any
\* moment.  No erase by the latch without a hold of its own that no erase has
\* answered yet, but where a loss of power left the magic in the undefined word;
\* and a hold followed by the restart it asks for is never got past without the
\* erase ("fail closed", main.c:277).  A hold whose restart another reset forestalls
\* is "stale": that boot ignores its latch, and the next esp_restart of any kind
\* honours it.
EraseIsTheGestures ==
    [][main = "boot" =>
           /\ main' = "erased" => owed # "no"
           /\ owed = "due" /\ cause' = "software" => main' \in {"boot", "erased", "download"}]_vars

=============================================================================
