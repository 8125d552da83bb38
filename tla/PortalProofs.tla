---------------------------- MODULE PortalProofs ----------------------------
(***************************************************************************)
(* Theorems about the portal: its tasks, the boot and the gestures         *)
(* (Provisioning), for every set of network lists, country codes and       *)
(* sites, and its form (PortalForm), for every bound on networks and       *)
(* endpoints, every number of tabs and every user.                         *)
(***************************************************************************)
EXTENDS Provisioning, PortalForm, FiniteSetTheorems, SequenceTheorems, WellFoundedInduction, TLAPS

-----------------------------------------------------------------------------
(* The inductive invariants                                                 *)

\* The HTTP task and its timer exist only while the portal is up.
OnlyInPortal ==
    /\ main \notin Portal => timer = FALSE /\ http = Down
    /\ main = "expired" => http = Down

\* An open portal is remembered in the memory that resets keep.
SessionLatched == session => latch.force

\* What the handler of a save knows about the country key, step by step.
CountryTracked ==
    /\ http.pc \in Saving =>
           /\ http.clean => http.effective = Effective(http.was) /\ http.saved = (http.was # Absent)
           /\ http.effective \in {Effective(http.was), DefaultCountry}
           /\ http.saved => http.was # Absent
    /\ http.pc = "country" => ~http.written
    /\ http.pc \in {"country", "config"} /\ ~http.written => flash.country = http.was
    /\ http.pc = "rollback" \/ (http.pc = "config" /\ http.written) =>
           flash.country = http.form.country

PortalInv ==
    /\ TypeOK /\ OnlyInPortal /\ SessionLatched /\ InterruptedPortalResumes
    /\ CountryTracked /\ FailedSaveAppliesNothing

\* Why the magic is in the word of the erase latch, and where a hold that no erase
\* has answered can be.
LatchIsFresh ==
    /\ latch.factory <=> owed # "no"
    /\ owed = "held" => main \in {"wiping", "wiped"}
    /\ owed = "due" => main \in {"boot", "download"} /\ cause = "software"

GestureInv == PortalInv /\ LatchIsFresh

-----------------------------------------------------------------------------
(* Lemmas                                                                   *)

\* What is known of the handler's locals where it has any.
LEMMA HttpType ==
    ASSUME TypeOK
    PROVE  /\ http.pc \in {"down", "idle", "failed"} \union Saving
           /\ http.pc \in Saving => http \in Busy
           /\ http.pc = "failed" => http \in Failing
<1>1. CASE http \in Waiting
  BY <1>1 DEF Waiting, Saving
<1>2. CASE http \in Busy
  BY <1>2 DEF Busy, Saving
<1>3. CASE http \in Failing
  BY <1>3 DEF Failing, Saving
<1> QED
  BY <1>1, <1>2, <1>3 DEF TypeOK

\* The values a handler leaves behind.
LEMMA HttpValues ==
    /\ Down \in Waiting /\ Idle \in Waiting
    /\ Down.pc = "down" /\ Idle.pc = "idle"
    /\ \A clean \in BOOLEAN :
           /\ Failed(clean).pc = "failed" /\ Failed(clean).was = http.was
           /\ Failed(clean).sent = http.form.country /\ Failed(clean).clean = clean
           /\ http \in Busy => Failed(clean) \in Failing
BY DEF Down, Idle, Failed, Waiting, Failing, Busy, Form, Key

\* A restart ends the portal's tasks and keeps flash.
LEMMA RestartInv ==
    ASSUME PortalInv, NEW c \in {"power", "software", "other"}, RestartBy(c),
           latch' \in [force: BOOLEAN, factory: BOOLEAN], session' \in BOOLEAN,
           spoilt' \in BOOLEAN, owed' \in {"no", "held", "due", "stale", "garbage"},
           session' => latch'.force
    PROVE  PortalInv'
<1> USE DEF PortalInv, RestartBy
<1>1. main' \in {"download", "boot"} /\ main' \notin Portal
  BY DEF Portal
<1>2. TypeOK'
  BY <1>1, HttpValues DEF TypeOK
<1>3. OnlyInPortal'
  BY <1>1 DEF OnlyInPortal, Portal
<1>4. CountryTracked' /\ FailedSaveAppliesNothing'
  BY HttpValues DEF CountryTracked, FailedSaveAppliesNothing, Saving
<1> QED
  BY <1>2, <1>3, <1>4 DEF SessionLatched, InterruptedPortalResumes

LEMMA SoftRestart ==
    ASSUME PortalInv, NEW c \in {"software", "other"}, Keeping(c)
    PROVE  PortalInv'
<1>1. /\ latch' \in [force: BOOLEAN, factory: BOOLEAN] /\ session' \in BOOLEAN
      /\ spoilt' \in BOOLEAN /\ owed' \in {"no", "held", "due", "stale", "garbage"}
      /\ session' => latch'.force
  BY DEF Keeping, Aged, PortalInv, TypeOK, SessionLatched
<1> QED
  BY <1>1, RestartInv DEF Keeping

-----------------------------------------------------------------------------
(* The portal's invariant                                                   *)

LEMMA InitPortal == Init => PortalInv
<1> SUFFICES ASSUME Init PROVE PortalInv
  OBVIOUS
<1>1. TypeOK
  BY HttpValues DEF Init, TypeOK, Key
<1>2. OnlyInPortal /\ CountryTracked /\ FailedSaveAppliesNothing
  BY HttpValues DEF Init, OnlyInPortal, Portal, CountryTracked, FailedSaveAppliesNothing, Saving
<1> QED
  BY <1>1, <1>2 DEF Init, PortalInv, SessionLatched, InterruptedPortalResumes

\* The steps of a boot that leave the portal closed.
LEMMA BootPortal ==
    ASSUME PortalInv, Boot
    PROVE  PortalInv'
<1> USE DEF PortalInv
<1>0. /\ main \notin Portal => timer = FALSE /\ http = Down
      /\ Booting => main \notin Portal /\ main \notin {"running", "monitor"}
  BY DEF OnlyInPortal, Booting, Portal
<1>1. ASSUME main \notin Portal, main' \notin Portal, UNCHANGED <<http, timer>>
      PROVE  OnlyInPortal' /\ CountryTracked' /\ FailedSaveAppliesNothing'
  BY <1>0, <1>1, HttpValues DEF OnlyInPortal, Portal, CountryTracked, FailedSaveAppliesNothing, Saving
<1>2. CASE Erase
  <2>1. TypeOK'
    BY <1>2 DEF Erase, TypeOK, Consumed, Empty, Key
  <2>2. SessionLatched'
    BY <1>2 DEF Erase, Consumed, TypeOK, SessionLatched
  <2> QED
    BY <1>1, <1>2, <2>1, <2>2 DEF Erase, InterruptedPortalResumes, Portal
<1>3. CASE Reinit
  <2>1. TypeOK'
    BY <1>3 DEF Reinit, TypeOK, Empty, Key
  <2> QED
    BY <1>0, <1>1, <1>3, <2>1 DEF Reinit, SessionLatched, InterruptedPortalResumes, Portal
<1>4. CASE EraseFails \/ Panic
  BY <1>4, SoftRestart DEF EraseFails, Panic, Restart
<1>5. CASE SecondThoughts
  <2>1. /\ latch' \in [force: BOOLEAN, factory: BOOLEAN] /\ latch'.force /\ session' \in BOOLEAN
        /\ spoilt' \in BOOLEAN /\ owed' \in {"no", "held", "due", "stale", "garbage"}
    BY <1>5 DEF SecondThoughts, Aged, TypeOK
  <2> QED
    BY <1>5, <2>1, RestartInv DEF SecondThoughts
<1>6. ASSUME NEW long \in BOOLEAN, NEW misread \in BOOLEAN, BootDecides(long, misread)
      PROVE  PortalInv'
  <2>0. spoilt' \in BOOLEAN
    BY <1>6 DEF BootDecides, TypeOK
  <2>1. CASE OpenPortal
    <3>1. TypeOK'
      BY <1>6, <2>0, <2>1, HttpValues DEF BootDecides, OpenPortal, TypeOK, Portal
    <3>2. OnlyInPortal' /\ CountryTracked' /\ FailedSaveAppliesNothing'
      BY <1>6, <2>1, HttpValues DEF BootDecides, OpenPortal, OnlyInPortal, Portal, CountryTracked,
                                    FailedSaveAppliesNothing, Saving
    <3> QED
      BY <2>1, <3>1, <3>2 DEF OpenPortal, SessionLatched, InterruptedPortalResumes, TypeOK
  <2>2. CASE ~WantsPortal(long, misread) /\ main' = "running" /\ UNCHANGED <<latch, http, session>>
    <3>1. TypeOK'
      BY <1>6, <2>0, <2>2 DEF BootDecides, TypeOK
    <3>2. ~session
      BY <2>2 DEF WantsPortal, SessionLatched
    <3> QED
      BY <1>0, <1>1, <1>6, <2>2, <3>1, <3>2
         DEF BootDecides, SessionLatched, InterruptedPortalResumes, Portal
  <2> QED
    BY <1>6, <2>1, <2>2 DEF BootDecides
<1>7. ASSUME NEW long \in BOOLEAN, PortalFails(long) PROVE PortalInv'
  <2>1. TypeOK'
    BY <1>7 DEF PortalFails, TypeOK, Ended
  <2> QED
    BY <1>0, <1>1, <1>7, <2>1 DEF PortalFails, SessionLatched, InterruptedPortalResumes, Portal
<1> QED
  BY <1>2, <1>3, <1>4, <1>5, <1>6, <1>7 DEF Boot, Advance, BootFails

\* A step of the main task that moves on and nothing else.
LEMMA GotoPortal ==
    ASSUME PortalInv, NEW from, NEW to, Goto(from, to),
           \/ from \in Portal /\ to \in Portal \ {"expired"}
           \/ from = "running" /\ to \in {"monitor", "asleep"}
    PROVE  PortalInv'
<1> USE DEF PortalInv, Goto
<1>1. main' \in Portal \union {"monitor", "asleep"}
  OBVIOUS
<1>2. TypeOK'
  BY <1>1 DEF TypeOK
<1>3. OnlyInPortal'
  BY DEF OnlyInPortal, Portal
<1> QED
  BY <1>2, <1>3 DEF SessionLatched, InterruptedPortalResumes, CountryTracked,
                    FailedSaveAppliesNothing, Portal

LEMMA GesturePortal ==
    ASSUME PortalInv, Gesture
    PROVE  PortalInv'
<1>1. CASE \/ LongPress \/ Confirm \/ CancelConfirm \/ PressAgain \/ Tap
           \/ WipeReleased \/ RetryPress \/ Retry \/ GiveUp
  BY <1>1, GotoPortal DEF LongPress, Confirm, CancelConfirm, PressAgain, Tap, WipeReleased,
                          RetryPress, Retry, GiveUp, Portal
<1>2. CASE Hold
  <2>1. TypeOK'
    BY <1>2 DEF Hold, PortalInv, TypeOK, Portal
  <2>2. OnlyInPortal'
    BY <1>2 DEF Hold, PortalInv, OnlyInPortal, Portal
  <2> QED
    BY <1>2, <2>1, <2>2 DEF Hold, PortalInv, TypeOK, SessionLatched, InterruptedPortalResumes,
                            CountryTracked, FailedSaveAppliesNothing
<1>3. CASE Clear \/ ClearFails
  <2>1. TypeOK' /\ flash'.country = flash.country
    BY <1>3 DEF Clear, ClearFails, PortalInv, TypeOK, Portal
  <2>2. main = "clearing" /\ main' \in {"cleared", "fail"} /\ UNCHANGED <<latch, http, timer, session>>
    BY <1>3 DEF Clear, ClearFails
  <2>3. OnlyInPortal'
    BY <2>2 DEF PortalInv, OnlyInPortal, Portal
  <2> QED
    BY <2>1, <2>2, <2>3 DEF PortalInv, SessionLatched, InterruptedPortalResumes, CountryTracked,
                            FailedSaveAppliesNothing
<1>4. CASE WipeRestart \/ ClearRestart
  BY <1>4, SoftRestart DEF WipeRestart, ClearRestart, Restart
<1> QED
  BY <1>1, <1>2, <1>3, <1>4 DEF Gesture

LEMMA WindowPortal ==
    ASSUME PortalInv, EndOfWindow
    PROVE  PortalInv'
<1> USE DEF PortalInv
<1>1. CASE WindowEnds
  BY <1>1, GotoPortal DEF WindowEnds, Portal
<1>2. CASE Teardown
  <2>1. TypeOK'
    BY <1>2, HttpValues DEF Teardown, TypeOK, Portal
  <2> QED
    BY <1>2, <2>1, HttpValues DEF Teardown, OnlyInPortal, Portal, SessionLatched, InterruptedPortalResumes, CountryTracked,
                            FailedSaveAppliesNothing, Saving
<1>3. CASE Expire
  <2>1. TypeOK'
    BY <1>3 DEF Expire, TypeOK, Ended
  <2>2. http' = Down /\ timer' = FALSE
    BY <1>3 DEF Expire, OnlyInPortal
  <2> QED
    BY <1>3, <2>1, <2>2, HttpValues DEF Expire, OnlyInPortal, Portal, SessionLatched, InterruptedPortalResumes, CountryTracked,
                                        FailedSaveAppliesNothing, Saving
<1> QED
  BY <1>1, <1>2, <1>3 DEF EndOfWindow

\* A save is posted to, and answered by, a portal that is up.
LEMMA HandlerPortal ==
    ASSUME PortalInv, Handler \/ \E form \in Form, read, again \in BOOLEAN : Post(form, read, again)
    PROVE  PortalInv'
<1> USE DEF PortalInv
<1> DEFINE Store == [config: Config \union {NoNetworks}, country: Key]
<1>0. /\ http.pc \in Saving \union {"failed"} => main \in Portal \ {"expired"}
      /\ http.pc \in Saving => http \in Busy
      /\ flash \in Store
  BY HttpType, HttpValues DEF OnlyInPortal, TypeOK, Saving
<1>1. ASSUME NEW form \in Form, NEW read \in BOOLEAN, NEW again \in BOOLEAN, Post(form, read, again)
      PROVE  PortalInv'
  <2>1. http' \in Busy
    BY <1>0, <1>1, CountryAssumption DEF Post, Busy, Saving, Effective, Key
  <2>2. TypeOK'
    BY <1>1, <2>1 DEF Post, TypeOK
  <2>3. OnlyInPortal'
    BY <1>1 DEF Post, OnlyInPortal
  <2>4. CountryTracked' /\ FailedSaveAppliesNothing'
    BY <1>0, <1>1 DEF Post, CountryTracked, FailedSaveAppliesNothing, Effective, Saving
  <2> QED
    BY <1>1, <2>2, <2>3, <2>4 DEF Post, SessionLatched, InterruptedPortalResumes
<1>2. ASSUME HttpOnly, http.pc \in Saving \union {"failed"}, CountryTracked', FailedSaveAppliesNothing',
             http' \in Waiting \union Busy \union Failing, flash' \in Store, spoilt' \in BOOLEAN
      PROVE  PortalInv'
  <2>1. OnlyInPortal'
    BY <1>0, <1>2 DEF HttpOnly, OnlyInPortal
  <2>2. TypeOK'
    BY <1>2 DEF HttpOnly, TypeOK
  <2> QED
    BY <1>2, <2>1, <2>2 DEF HttpOnly, SessionLatched, InterruptedPortalResumes
<1>3. spoilt \in BOOLEAN
  BY DEF TypeOK
<1>4. CASE KeepCountry
  <2>1. http.pc = "country" /\ http \in Busy /\ http' = [http EXCEPT !.pc = "config"]
    BY <1>0, <1>4 DEF KeepCountry, Saving
  <2>2. http' \in Busy
    BY <2>1 DEF Busy, Saving
  <2>3. CountryTracked' /\ FailedSaveAppliesNothing'
    BY <1>4, <2>1 DEF KeepCountry, CountryTracked, FailedSaveAppliesNothing, Busy, Saving
  <2> QED
    BY <1>0, <1>2, <1>3, <1>4, <2>1, <2>2, <2>3 DEF KeepCountry, Saving
<1>5. CASE SaveCountry
  <2>1. /\ http.pc = "country" /\ http \in Busy /\ http.form.country \in Country
        /\ http' = [http EXCEPT !.pc = "config", !.written = TRUE]
        /\ flash' = [flash EXCEPT !.country = http.form.country]
    BY <1>0, <1>5 DEF SaveCountry, ChangesCountry, SetCountry, Saving, Busy, Form
  <2>2. flash' \in Store /\ flash'.country = http.form.country
    BY <1>0, <2>1 DEF Key
  <2>3. http' \in Busy
    BY <2>1 DEF Busy, Saving, Form
  <2>4. CountryTracked' /\ FailedSaveAppliesNothing'
    BY <2>1, <2>2 DEF CountryTracked, FailedSaveAppliesNothing, Busy, Saving
  <2> QED
    BY <1>2, <1>3, <1>5, <2>1, <2>2, <2>3, <2>4 DEF SaveCountry, Saving
<1>6. CASE SaveCountryFails
  <2>1. /\ http.pc = "country" /\ http \in Busy /\ http.form.country \in Country
        /\ http' = Failed(FALSE)
        /\ flash' = [flash EXCEPT !.country = http.form.country] \/ flash' = flash
    BY <1>0, <1>6 DEF SaveCountryFails, ChangesCountry, SetCountry, Saving, Busy, Form
  <2>2. flash' \in Store /\ flash'.country \in {flash.country, http.form.country}
    BY <1>0, <2>1 DEF Key
  <2>3. http' \in Failing
    BY <2>1, HttpValues
  <2>4. flash.country = http.was
    BY <2>1 DEF CountryTracked
  <2>5. CountryTracked' /\ FailedSaveAppliesNothing'
    BY <2>1, <2>2, <2>4, HttpValues DEF CountryTracked, FailedSaveAppliesNothing, Saving
  <2> QED
    BY <1>2, <1>3, <1>6, <2>1, <2>2, <2>3, <2>5 DEF SaveCountryFails, Saving
<1>7. CASE SaveConfig
  <2>1. http.pc = "config" /\ http \in Busy /\ http' = [http EXCEPT !.pc = "latch"]
        /\ flash' = [flash EXCEPT !.config = http.form.config]
    BY <1>0, <1>7 DEF SaveConfig, SetConfig, Saving
  <2>2. flash' \in Store
    BY <1>0, <2>1 DEF Busy, Form
  <2>3. http' \in Busy
    BY <2>1 DEF Busy, Saving
  <2>4. CountryTracked' /\ FailedSaveAppliesNothing'
    BY <2>1 DEF CountryTracked, FailedSaveAppliesNothing, Busy, Saving
  <2>5. HttpOnly /\ spoilt' \in BOOLEAN
    BY <1>7 DEF SaveConfig
  <2> QED
    BY <1>2, <2>1, <2>2, <2>3, <2>4, <2>5 DEF Saving
<1>8. CASE SaveConfigFails
  <2>1. /\ http.pc = "config" /\ http \in Busy
        /\ flash' = [flash EXCEPT !.config = http.form.config] \/ flash' = flash
    BY <1>0, <1>8 DEF SaveConfigFails, SetConfig, Saving
  <2>2. flash' \in Store /\ flash'.country = flash.country
    BY <1>0, <2>1 DEF Busy, Form
  <2>3. CASE http.written /\ http' = [http EXCEPT !.pc = "rollback"]
    <3>1. http' \in Busy
      BY <2>1, <2>3 DEF Busy, Saving
    <3>2. CountryTracked' /\ FailedSaveAppliesNothing'
      BY <2>1, <2>2, <2>3 DEF CountryTracked, FailedSaveAppliesNothing, Busy, Saving
    <3> QED
      BY <1>2, <1>3, <1>8, <2>1, <2>2, <3>1, <3>2 DEF SaveConfigFails, Saving
  <2>4. CASE ~http.written /\ http' = Failed(http.clean)
    <3>1. http' \in Failing /\ http.clean \in BOOLEAN
      BY <2>1, <2>4, HttpValues DEF Busy
    <3>2. CountryTracked' /\ FailedSaveAppliesNothing'
      BY <2>1, <2>2, <2>4, <3>1, HttpValues DEF CountryTracked, FailedSaveAppliesNothing, Saving
    <3> QED
      BY <1>2, <1>3, <1>8, <2>1, <2>2, <3>1, <3>2 DEF SaveConfigFails, Saving
  <2> QED
    BY <1>8, <2>3, <2>4 DEF SaveConfigFails
<1>9. ASSUME http.pc = "rollback"
      PROVE  /\ http \in Busy /\ flash.country = http.form.country
             /\ PriorCountry \in {http.was, DefaultCountry, Absent} /\ PriorCountry \in Key
             /\ http.clean => PriorCountry = http.was
  <2>1. http \in Busy
    BY <1>0, <1>9 DEF Saving
  <2>2. http.effective \in {Effective(http.was), DefaultCountry} /\ (http.saved => http.was # Absent)
        /\ (http.clean => http.effective = Effective(http.was) /\ http.saved = (http.was # Absent))
        /\ flash.country = http.form.country
    BY <1>9 DEF CountryTracked, Saving
  <2> QED
    BY <2>1, <2>2 DEF PriorCountry, Effective, Busy, Key
<1>10. CASE Rollback
  <2>1. http.pc = "rollback" /\ http' = Failed(http.clean)
        /\ flash' = [flash EXCEPT !.country = PriorCountry]
    BY <1>10 DEF Rollback, SetCountry
  <2>2. flash' \in Store /\ flash'.country = PriorCountry
    BY <1>0, <1>9, <2>1
  <2>3. http' \in Failing /\ http.clean \in BOOLEAN
    BY <1>9, <2>1, HttpValues DEF Busy
  <2>4. CountryTracked' /\ FailedSaveAppliesNothing'
    BY <1>9, <2>1, <2>2, <2>3, HttpValues DEF CountryTracked, FailedSaveAppliesNothing, Saving
  <2> QED
    BY <1>2, <1>3, <1>10, <2>1, <2>2, <2>3, <2>4 DEF Rollback, Saving
<1>11. CASE RollbackFails
  <2>1. /\ http.pc = "rollback" /\ http' = Failed(FALSE)
        /\ flash' = [flash EXCEPT !.country = PriorCountry] \/ flash' = flash
    BY <1>11 DEF RollbackFails, SetCountry
  <2>2. flash' \in Store /\ flash'.country \in {PriorCountry, http.form.country}
    BY <1>0, <1>9, <2>1
  <2>3. http' \in Failing
    BY <1>9, <2>1, HttpValues
  <2>4. CountryTracked' /\ FailedSaveAppliesNothing'
    BY <1>9, <2>1, <2>2, HttpValues DEF CountryTracked, FailedSaveAppliesNothing, Saving
  <2> QED
    BY <1>2, <1>3, <1>11, <2>1, <2>2, <2>3, <2>4 DEF RollbackFails, Saving
<1>12. CASE ReplyFailed
  <2>1. http' \in Waiting /\ http.pc = "failed" /\ flash' = flash /\ spoilt' = spoilt /\ HttpOnly
    BY <1>12, HttpValues DEF ReplyFailed
  <2>2. CountryTracked' /\ FailedSaveAppliesNothing'
    BY <1>12, HttpValues DEF ReplyFailed, CountryTracked, FailedSaveAppliesNothing, Saving
  <2> QED
    BY <1>0, <1>2, <1>3, <2>1, <2>2
<1>13. CASE EndSession
  <2>1. http.pc = "latch" /\ http \in Busy /\ http' = [http EXCEPT !.pc = "page"]
    BY <1>0, <1>13 DEF EndSession, Saving
  <2>2. http' \in Busy
    BY <2>1 DEF Busy, Saving
  <2>3. TypeOK'
    BY <1>13, <2>2 DEF EndSession, TypeOK, Ended
  <2>4. OnlyInPortal'
    BY <1>0, <1>13, <2>1 DEF EndSession, OnlyInPortal, Saving
  <2>5. CountryTracked' /\ FailedSaveAppliesNothing'
    BY <2>1 DEF CountryTracked, FailedSaveAppliesNothing, Busy, Saving
  <2> QED
    BY <1>13, <2>3, <2>4, <2>5 DEF EndSession, SessionLatched, InterruptedPortalResumes
<1>14. ASSUME NEW started \in BOOLEAN, ReplySaved(started) PROVE PortalInv'
  <2>1. TypeOK'
    BY <1>14, HttpValues DEF ReplySaved, TypeOK
  <2>2. OnlyInPortal'
    BY <1>0, <1>14 DEF ReplySaved, OnlyInPortal, Saving
  <2> QED
    BY <1>14, <2>1, <2>2, HttpValues DEF ReplySaved, SessionLatched, InterruptedPortalResumes,
                                         CountryTracked, FailedSaveAppliesNothing, Saving
<1> QED
  BY <1>1, <1>4, <1>5, <1>6, <1>7, <1>8, <1>10, <1>11, <1>12, <1>13, <1>14 DEF Handler

LEMMA OthersPortal ==
    ASSUME PortalInv, TimerFires \/ User \/ Cycle \/ PowerCut \/ Reset
    PROVE  PortalInv'
<1> USE DEF PortalInv
<1>1. CASE TimerFires \/ OtaRestart \/ Reset
  BY <1>1, SoftRestart DEF TimerFires, OtaRestart, Reset, Restart
<1>2. CASE PowerCut
  <2>1. /\ latch' \in [force: BOOLEAN, factory: BOOLEAN] /\ session' = FALSE
        /\ spoilt' \in BOOLEAN /\ owed' \in {"no", "held", "due", "stale", "garbage"}
    BY <1>2 DEF PowerCut, TypeOK
  <2> QED
    BY <1>2, <2>1, RestartInv DEF PowerCut
<1>3. CASE MonitorRestart
  <2>1. /\ latch' \in [force: BOOLEAN, factory: BOOLEAN] /\ latch'.force /\ session' \in BOOLEAN
        /\ spoilt' \in BOOLEAN /\ owed' \in {"no", "held", "due", "stale", "garbage"}
    BY <1>3 DEF MonitorRestart, Aged, TypeOK
  <2> QED
    BY <1>3, <2>1, RestartInv DEF MonitorRestart
<1>4. CASE User
  <2>1. held' \in BOOLEAN /\ UNCHANGED <<flash, latch, main, cause, http, timer, session, owed, spoilt>>
    BY <1>4 DEF User, Press, Release
  <2>2. TypeOK'
    <3>1. TypeOK
      OBVIOUS
    <3> HIDE DEF PortalInv
    <3> QED
      BY <2>1, <3>1 DEF TypeOK
  <2> QED
    BY <2>1, <2>2 DEF OnlyInPortal, SessionLatched, InterruptedPortalResumes, CountryTracked,
                      FailedSaveAppliesNothing
<1>5. CASE MonitorPress \/ Sleep
  BY <1>5, GotoPortal DEF MonitorPress, Sleep
<1>6. ASSUME NEW c \in {"timer", "button"}, Wake(c) PROVE PortalInv'
  <2>1. TypeOK'
    BY <1>6 DEF Wake, TypeOK
  <2>2. OnlyInPortal'
    BY <1>6 DEF Wake, OnlyInPortal, Portal
  <2> QED
    BY <1>6, <2>1, <2>2 DEF Wake, SessionLatched, InterruptedPortalResumes, CountryTracked,
                            FailedSaveAppliesNothing
<1> QED
  BY <1>1, <1>2, <1>3, <1>4, <1>5, <1>6 DEF Cycle

LEMMA NextPortal == PortalInv /\ [Next]_vars => PortalInv'
<1> SUFFICES ASSUME PortalInv, [Next]_vars PROVE PortalInv'
  OBVIOUS
<1>1. CASE UNCHANGED vars
  <2>1. TypeOK'
    BY <1>1 DEF vars, PortalInv, TypeOK
  <2> QED
    BY <1>1, <2>1 DEF vars, PortalInv, OnlyInPortal, SessionLatched, InterruptedPortalResumes,
                      CountryTracked, FailedSaveAppliesNothing
<1>2. CASE Next
  BY <1>2, BootPortal, GesturePortal, WindowPortal, HandlerPortal, OthersPortal DEF Next, Step
<1> QED
  BY <1>1, <1>2

LEMMA AlwaysPortal == Spec => []PortalInv
BY InitPortal, NextPortal, PTL DEF Spec
-----------------------------------------------------------------------------
(* The erase latch                                                          *)

\* A restart of the firmware carries a hold into the next boot; any other one makes
\* a left-over of it.
LEMMA LatchRestart ==
    ASSUME PortalInv, LatchIsFresh, NEW c, RestartBy(c), owed' = Aged(c),
           latch'.factory = latch.factory
    PROVE  LatchIsFresh'
BY DEF LatchIsFresh, RestartBy, Aged, PortalInv, TypeOK

\* Steps that move the main task nowhere, or between places where no hold waits.
LEMMA LatchElsewhere ==
    ASSUME PortalInv, LatchIsFresh, latch'.factory = latch.factory, UNCHANGED <<cause, owed>>,
           \/ main' = main
           \/ main = "wiping" /\ main' = "wiped"
           \/ main \notin {"wiping", "wiped", "boot", "download"}
           \/ main = "boot" /\ ~ErasePending
    PROVE  LatchIsFresh'
BY DEF LatchIsFresh, ErasePending, PortalInv, TypeOK

LEMMA LatchGesture ==
    ASSUME PortalInv, LatchIsFresh, Gesture
    PROVE  LatchIsFresh'
<1>1. CASE \/ LongPress \/ Confirm \/ CancelConfirm \/ PressAgain \/ Tap \/ WipeReleased
           \/ RetryPress \/ Retry \/ GiveUp
  BY <1>1, LatchElsewhere DEF LongPress, Confirm, CancelConfirm, PressAgain, Tap, WipeReleased,
                              RetryPress, Retry, GiveUp, Goto
<1>2. CASE Hold
  BY <1>2 DEF Hold, LatchIsFresh, PortalInv, TypeOK
<1>3. CASE Clear \/ ClearFails
  BY <1>3, LatchElsewhere DEF Clear, ClearFails
<1>4. CASE WipeRestart \/ ClearRestart
  BY <1>4, LatchRestart DEF WipeRestart, ClearRestart, Restart, Keeping
<1> QED
  BY <1>1, <1>2, <1>3, <1>4 DEF Gesture

LEMMA LatchBoot ==
    ASSUME PortalInv, LatchIsFresh, Boot
    PROVE  LatchIsFresh'
<1>0. latch \in [force: BOOLEAN, factory: BOOLEAN]
  BY DEF PortalInv, TypeOK
<1>1. Booting => (main = "boot" /\ ~ErasePending) \/ main \in {"erased", "reinit"}
  BY DEF Booting
<1>2. CASE Erase
  BY <1>0, <1>2 DEF Erase, Consumed, LatchIsFresh
<1>3. CASE Reinit
  BY <1>1, <1>3, LatchElsewhere DEF Reinit
<1>4. CASE EraseFails \/ Panic
  BY <1>4, LatchRestart DEF EraseFails, Panic, Restart, Keeping
<1>5. CASE SecondThoughts
  <2>1. latch'.factory = latch.factory
    BY <1>0, <1>5 DEF SecondThoughts
  <2> QED
    BY <1>5, <2>1, LatchRestart DEF SecondThoughts
<1>6. ASSUME NEW long \in BOOLEAN, NEW misread \in BOOLEAN, BootDecides(long, misread)
      PROVE  LatchIsFresh'
  <2>1. latch'.factory = latch.factory /\ UNCHANGED <<cause, owed>> /\ Booting
    BY <1>0, <1>6 DEF BootDecides, OpenPortal
  <2> QED
    BY <1>1, <2>1, LatchElsewhere
<1>7. ASSUME NEW long \in BOOLEAN, PortalFails(long) PROVE LatchIsFresh'
  <2>1. latch'.factory = latch.factory /\ UNCHANGED <<cause, owed>> /\ Booting
    BY <1>0, <1>7 DEF PortalFails, Ended
  <2> QED
    BY <1>1, <2>1, LatchElsewhere
<1> QED
  BY <1>2, <1>3, <1>4, <1>5, <1>6, <1>7 DEF Boot, Advance, BootFails

LEMMA LatchOthers ==
    ASSUME PortalInv, LatchIsFresh,
           \/ EndOfWindow \/ Handler
           \/ \E form \in Form, read, again \in BOOLEAN : Post(form, read, again)
           \/ TimerFires \/ User \/ Cycle \/ PowerCut \/ Reset
    PROVE  LatchIsFresh'
<1>0. latch \in [force: BOOLEAN, factory: BOOLEAN]
  BY DEF PortalInv, TypeOK
<1>1. CASE EndOfWindow
  <2>1. latch'.factory = latch.factory /\ UNCHANGED <<cause, owed>> /\ main \in {"portal", "teardown", "expired"}
    BY <1>0, <1>1 DEF EndOfWindow, WindowEnds, Goto, Teardown, Expire, Ended
  <2> QED
    BY <2>1, LatchElsewhere
<1>2. CASE \/ Handler \/ User
           \/ \E form \in Form, read, again \in BOOLEAN : Post(form, read, again)
  <2>1. latch'.factory = latch.factory /\ UNCHANGED <<main, cause, owed>>
    BY <1>0, <1>2 DEF Handler, Post, User, Press, Release, KeepCountry, SaveCountry,
         SaveCountryFails, SaveConfig, SaveConfigFails, Rollback, RollbackFails, ReplyFailed,
         EndSession, ReplySaved, HttpOnly, Ended
  <2> QED
    BY <2>1, LatchElsewhere
<1>3. CASE TimerFires \/ OtaRestart \/ Reset
  BY <1>3, LatchRestart DEF TimerFires, OtaRestart, Reset, Restart, Keeping
<1>4. CASE PowerCut
  BY <1>4 DEF PowerCut, LatchIsFresh
<1>5. CASE MonitorPress \/ Sleep
  BY <1>5, LatchElsewhere DEF MonitorPress, Sleep, Goto
<1>6. CASE MonitorRestart
  <2>1. latch'.factory = latch.factory
    BY <1>0, <1>6 DEF MonitorRestart
  <2> QED
    BY <1>6, <2>1, LatchRestart DEF MonitorRestart
<1>7. ASSUME NEW c \in {"timer", "button"}, Wake(c) PROVE LatchIsFresh'
  BY <1>7 DEF Wake, LatchIsFresh
<1> QED
  BY <1>1, <1>2, <1>3, <1>4, <1>5, <1>6, <1>7 DEF Cycle

LEMMA InitGesture == Init => GestureInv
BY InitPortal DEF Init, GestureInv, LatchIsFresh

LEMMA NextGesture == GestureInv /\ [Next]_vars => GestureInv'
<1> SUFFICES ASSUME GestureInv, [Next]_vars PROVE GestureInv'
  OBVIOUS
<1>1. PortalInv'
  BY NextPortal DEF GestureInv
<1>2. CASE UNCHANGED vars
  BY <1>1, <1>2 DEF vars, GestureInv, LatchIsFresh
<1>3. CASE Next
  BY <1>1, <1>3, LatchGesture, LatchBoot, LatchOthers DEF Next, Step, GestureInv
<1> QED
  BY <1>2, <1>3

LEMMA AlwaysGesture == Spec => []GestureInv
BY InitGesture, NextGesture, PTL DEF Spec

-----------------------------------------------------------------------------
(* Theorems                                                                 *)

\* A portal that anything but a loss of power interrupts, its own gestures and
\* restarts included, is open again before the device goes on with its wake
\* cycle; and a save that is reported to have failed leaves the country key as
\* it found it, or, if a call on that key returned an error, at most as submitted,
\* as the build has it, or gone.
THEOREM PortalIsSafe == Spec => []PortalSafety
<1>1. PortalInv => PortalSafety
  BY DEF PortalInv, PortalSafety
<1> QED
  BY <1>1, AlwaysPortal, PTL

\* Whatever resets the device and whenever its power fails: the latch erases flash
\* only for a hold that no erase has answered, or where a loss of power left its
\* magic in undefined memory; and the boot a hold restarts into gets nowhere
\* without the erase.
THEOREM OnlyTheGestureErases == Spec => EraseIsTheGestures
<1> DEFINE A == main = "boot" =>
                    /\ main' = "erased" => owed # "no"
                    /\ owed = "due" /\ cause' = "software" => main' \in {"boot", "erased", "download"}
<1>1. GestureInv /\ [Next]_vars => [A]_vars
  <2> SUFFICES ASSUME GestureInv, Next, main = "boot"
               PROVE  /\ main' = "erased" => ErasePending
                      /\ ErasePending /\ cause' = "software" => main' \in {"boot", "erased", "download"}
    BY DEF GestureInv, LatchIsFresh, ErasePending
  <2>1. CASE Boot
    BY <2>1 DEF Boot, Advance, BootFails, Erase, EraseFails, Restart, Keeping, RestartBy, Reinit,
                Panic, SecondThoughts, BootDecides, OpenPortal, PortalFails, Booting
  <2>2. CASE Gesture \/ EndOfWindow \/ Cycle
    BY <2>2 DEF Gesture, LongPress, Confirm, CancelConfirm, PressAgain, Tap, Hold, WipeReleased,
           WipeRestart, Clear, ClearFails, RetryPress, Retry, GiveUp, ClearRestart, Restart, Keeping,
           RestartBy, EndOfWindow, WindowEnds, Teardown, Expire, Cycle, MonitorPress,
           MonitorRestart, OtaRestart, Sleep, Wake, Goto
  <2>3. CASE \/ Handler \/ User
             \/ \E form \in Form, read, again \in BOOLEAN : Post(form, read, again)
    BY <2>3 DEF Handler, KeepCountry, SaveCountry, SaveCountryFails, SaveConfig, SaveConfigFails,
           Rollback, RollbackFails, ReplyFailed, EndSession, ReplySaved, HttpOnly, User,
           Press, Release, Post
  <2>4. CASE TimerFires \/ PowerCut \/ Reset
    BY <2>4 DEF TimerFires, PowerCut, Reset, Restart, Keeping, RestartBy
  <2> QED
    BY <2>1, <2>2, <2>3, <2>4 DEF Next, Step
<1> QED
  BY <1>1, AlwaysGesture, PTL DEF Spec, EraseIsTheGestures

-----------------------------------------------------------------------------
(* The form: rows that are on                                               *)

\* Induction, for a set in place of a predicate.
LEMMA Induct ==
    ASSUME NEW T, 0 \in T, \A n \in Nat : n \in T => n + 1 \in T
    PROVE  Nat \subseteq T
<1> DEFINE bad == Nat \ T
<1> SUFFICES ASSUME bad # {} PROVE FALSE
  OBVIOUS
<1>1. PICK x \in bad : \A y \in bad : ~(<<y, x>> \in OpToRel(<, Nat))
  <2> HIDE DEF bad
  <2>1. bad \subseteq Nat
    BY DEF bad
  <2> QED
    BY <2>1, WFMin, NatLessThanWellFounded
<1>2. \A y \in bad : ~(y < x)
  BY <1>1 DEF OpToRel
<1>3. x # 0 /\ x - 1 \in Nat
  OBVIOUS
<1> QED
  BY <1>2, <1>3

\* The recursion of On has a solution.
LEMMA ListsExist ==
    ASSUME NEW n \in Nat, NEW rows
    PROVE  \E f : f = [i \in 0 .. n |-> IF i = 0 THEN <<>>
                                        ELSE IF rows[i].on THEN Append(f[i - 1], i) ELSE f[i - 1]]
<1> DEFINE T == {m \in Nat : \E f : f = [i \in 0 .. m |->
                    IF i = 0 THEN <<>> ELSE IF rows[i].on THEN Append(f[i - 1], i) ELSE f[i - 1]]}
<1>1. 0 \in T
  <2> DEFINE f == [i \in 0 .. 0 |-> <<>>]
  <2>1. f = [i \in 0 .. 0 |-> IF i = 0 THEN <<>> ELSE IF rows[i].on THEN Append(f[i - 1], i) ELSE f[i - 1]]
    OBVIOUS
  <2> QED
    BY <2>1
<1>2. ASSUME NEW m \in Nat, m \in T PROVE m + 1 \in T
  <2>1. PICK f : f = [i \in 0 .. m |->
                   IF i = 0 THEN <<>> ELSE IF rows[i].on THEN Append(f[i - 1], i) ELSE f[i - 1]]
    BY <1>2
  <2> DEFINE last == IF rows[m + 1].on THEN Append(f[m], m + 1) ELSE f[m]
             g == [i \in 0 .. m + 1 |-> IF i <= m THEN f[i] ELSE last]
  <2>2. \A i \in 0 .. m :
            f[i] = IF i = 0 THEN <<>> ELSE IF rows[i].on THEN Append(f[i - 1], i) ELSE f[i - 1]
    BY <2>1
  <2>3. (\A i \in 0 .. m : g[i] = f[i]) /\ g[m + 1] = last
    <3> HIDE DEF last
    <3> QED
      OBVIOUS
  <2>4. \A i \in 0 .. m + 1 :
            g[i] = IF i = 0 THEN <<>> ELSE IF rows[i].on THEN Append(g[i - 1], i) ELSE g[i - 1]
    <3> SUFFICES ASSUME NEW i \in 0 .. m + 1
                 PROVE  g[i] = IF i = 0 THEN <<>> ELSE IF rows[i].on THEN Append(g[i - 1], i) ELSE g[i - 1]
      OBVIOUS
    <3> HIDE DEF g
    <3>1. CASE i = m + 1
      <4>1. i # 0 /\ i - 1 = m /\ m \in 0 .. m
        BY <3>1
      <4> QED
        BY <2>3, <3>1, <4>1
    <3>2. CASE i \in 0 .. m /\ i # 0
      <4>1. i - 1 \in 0 .. m
        BY <3>2
      <4> QED
        BY <2>2, <2>3, <3>2, <4>1
    <3>3. CASE i = 0
      <4>1. i \in 0 .. m
        BY <3>3
      <4> QED
        BY <2>2, <2>3, <3>3, <4>1
    <3> QED
      BY <3>1, <3>2, <3>3
  <2>5. \E h : h = [i \in 0 .. m + 1 |->
                 IF i = 0 THEN <<>> ELSE IF rows[i].on THEN Append(h[i - 1], i) ELSE h[i - 1]]
    <3>1. g = [i \in 0 .. m + 1 |-> g[i]]
      OBVIOUS
    <3> HIDE DEF g
    <3>2. g = [i \in 0 .. m + 1 |->
                 IF i = 0 THEN <<>> ELSE IF rows[i].on THEN Append(g[i - 1], i) ELSE g[i - 1]]
      BY <2>4, <3>1
    <3> QED
      BY <3>2
  <2> QED
    BY <2>5
<1>3. n \in T
  <2> HIDE DEF T
  <2> QED
    BY <1>1, <1>2, Induct
<1> QED
  BY <1>3

\* On lists rows that are on, none twice, and no more than there are.
Listed(m, rows) ==
    /\ On(rows) \in Seq(1 .. m) /\ Len(On(rows)) <= m
    /\ \A j \in 1 .. Len(On(rows)) : On(rows)[j] \in 1 .. m /\ rows[On(rows)[j]].on
    /\ \A i, j \in 1 .. Len(On(rows)) : On(rows)[i] = On(rows)[j] => i = j

LEMMA OnLists ==
    ASSUME NEW m \in Nat, NEW S, NEW rows \in [1 .. m -> S]
    PROVE  Listed(m, rows)
<1>1. rows \in Seq(S) /\ Len(rows) = m
  <2>1. [i \in 1 .. m |-> rows[i]] \in Seq(S)
    BY IsASeq
  <2>2. rows = [i \in 1 .. m |-> rows[i]]
    OBVIOUS
  <2>3. rows \in Seq(S)
    BY <2>1, <2>2
  <2>4. Len(rows) \in Nat /\ DOMAIN rows = 1 .. Len(rows)
    BY <2>3, LenProperties
  <2>5. 1 .. Len(rows) = 1 .. m
    BY <2>4
  <2> QED
    BY <2>3, <2>4, <2>5
<1> DEFINE F == CHOOSE on : on = [i \in 0 .. Len(rows) |->
                  IF i = 0 THEN <<>> ELSE IF rows[i].on THEN Append(on[i - 1], i) ELSE on[i - 1]]
<1>2. F = [i \in 0 .. m |-> IF i = 0 THEN <<>> ELSE IF rows[i].on THEN Append(F[i - 1], i) ELSE F[i - 1]]
  <2>1. \E f : f = [i \in 0 .. m |-> IF i = 0 THEN <<>>
                                     ELSE IF rows[i].on THEN Append(f[i - 1], i) ELSE f[i - 1]]
    BY ListsExist
  <2> QED
    BY <1>1, <2>1
<1>3. On(rows) = F[m]
  BY <1>1 DEF On
<1> HIDE DEF F
<1> DEFINE Good(i) == /\ F[i] \in Seq(1 .. i) /\ Len(F[i]) <= i
                      /\ \A j \in 1 .. Len(F[i]) : rows[F[i][j]].on
                      /\ \A h, j \in 1 .. Len(F[i]) : F[i][h] = F[i][j] => h = j
           T == {i \in Nat : i <= m => Good(i)}
<1>4. 0 \in T
  <2>1. F[0] = <<>>
    BY <1>2
  <2>2. <<>> \in Seq(1 .. 0) /\ Len(<<>>) = 0
    OBVIOUS
  <2>3. Good(0)
    BY <2>1, <2>2
  <2> QED
    BY <2>3
<1>5. ASSUME NEW i \in Nat, i \in T PROVE i + 1 \in T
  <2> HIDE DEF Good
  <2> SUFFICES ASSUME i + 1 <= m PROVE Good(i + 1)
    OBVIOUS
  <2> USE DEF Good
  <2>1. Good(i)
    BY <1>5
  <2>2. F[i + 1] = IF rows[i + 1].on THEN Append(F[i], i + 1) ELSE F[i]
    <3>1. i + 1 \in 0 .. m /\ i + 1 # 0 /\ (i + 1) - 1 = i
      OBVIOUS
    <3> QED
      BY <1>2, <3>1
  <2> DEFINE s == F[i]
  <2>3. s \in Seq(1 .. i) /\ Len(s) \in Nat /\ Len(s) <= i /\ s \in Seq(1 .. i + 1)
    BY <2>1
  <2>4. \A j \in 1 .. Len(s) : s[j] \in 1 .. i /\ rows[s[j]].on
    BY <2>1, <2>3
  <2>5. \A h, j \in 1 .. Len(s) : s[h] = s[j] => h = j
    BY <2>1
  <2> HIDE DEF s
  <2>6. CASE rows[i + 1].on
    <3> DEFINE t == Append(s, i + 1)
    <3>1. /\ t \in Seq(1 .. i + 1) /\ Len(t) = Len(s) + 1
          /\ \A j \in 1 .. Len(s) : t[j] = s[j]
          /\ t[Len(s) + 1] = i + 1
      BY <2>3, AppendProperties
    <3> HIDE DEF t
    <3>2. Len(t) <= i + 1
      BY <2>3, <3>1
    <3>3. \A j \in 1 .. Len(t) : rows[t[j]].on
      <4> SUFFICES ASSUME NEW j \in 1 .. Len(t) PROVE rows[t[j]].on
        OBVIOUS
      <4>1. j \in 1 .. Len(s) \/ j = Len(s) + 1
        BY <2>3, <3>1
      <4> QED
        BY <2>4, <2>6, <3>1, <4>1
    <3>4. \A h, j \in 1 .. Len(t) : t[h] = t[j] => h = j
      <4> SUFFICES ASSUME NEW h \in 1 .. Len(t), NEW j \in 1 .. Len(t), t[h] = t[j] PROVE h = j
        OBVIOUS
      <4>1. (h \in 1 .. Len(s) \/ h = Len(s) + 1) /\ (j \in 1 .. Len(s) \/ j = Len(s) + 1)
        BY <2>3, <3>1
      <4>2. ASSUME NEW x \in 1 .. Len(s) PROVE t[x] # i + 1
        <5>1. t[x] = s[x] /\ s[x] \in 1 .. i
          BY <2>4, <3>1
        <5> QED
          BY <5>1
      <4> QED
        BY <2>5, <3>1, <4>1, <4>2
    <3>5. F[i + 1] = t
      BY <2>2, <2>6 DEF s, t
    <3> QED
      BY <3>1, <3>2, <3>3, <3>4, <3>5
  <2>7. CASE ~rows[i + 1].on
    <3>1. F[i + 1] = s
      BY <2>2, <2>7 DEF s
    <3> QED
      BY <2>3, <2>4, <2>5, <3>1
  <2> QED
    BY <2>6, <2>7
<1>6. Good(m)
  <2>1. m \in T
    <3> HIDE DEF T
    <3> QED
      BY <1>4, <1>5, Induct
  <2> QED
    BY <2>1
<1>7. \A j \in 1 .. Len(F[m]) : F[m][j] \in 1 .. m
  BY <1>6
<1> QED
  BY <1>3, <1>6, <1>7 DEF Listed

-----------------------------------------------------------------------------
(* Ids                                                                      *)

LEMMA MaxIsLargest ==
    ASSUME NEW S \in SUBSET Nat, IsFiniteSet(S), S # {}
    PROVE  Max(S) \in S /\ \A y \in S : y <= Max(S)
<1> DEFINE Bounded(U) == \E x \in U : \A y \in U : x >= y
           T == {n \in Nat : \A U \in SUBSET Nat :
                    IsFiniteSet(U) /\ Cardinality(U) = n /\ U # {} => Bounded(U)}
<1>1. 0 \in T
  <2>1. \A U \in SUBSET Nat : IsFiniteSet(U) /\ Cardinality(U) = 0 => U = {}
    BY FS_EmptySet
  <2> QED
    BY <2>1
<1>2. ASSUME NEW n \in Nat, n \in T PROVE n + 1 \in T
  <2> SUFFICES ASSUME NEW U \in SUBSET Nat, IsFiniteSet(U), Cardinality(U) = n + 1, U # {}
               PROVE  Bounded(U)
    OBVIOUS
  <2>1. PICK x : x \in U
    OBVIOUS
  <2> DEFINE V == U \ {x}
  <2>2. IsFiniteSet(V) /\ Cardinality(V) = n
    <3>1. IsFiniteSet(U \ {x}) /\ Cardinality(U \ {x}) = Cardinality(U) - 1
      BY <2>1, FS_RemoveElement
    <3> QED
      BY <3>1
  <2>3. CASE V = {}
    <3>1. \A y \in U : y = x
      BY <2>3
    <3> QED
      BY <2>1, <3>1
  <2>4. CASE V # {}
    <3>1. PICK z \in V : \A y \in V : z >= y
      BY <1>2, <2>2, <2>4
    <3>2. CASE x >= z
      BY <2>1, <3>1, <3>2
    <3>3. CASE ~(x >= z)
      <4>1. z \in U /\ x \in Nat /\ z \in Nat
        BY <2>1, <3>1
      <4>2. \A y \in U : z >= y
        BY <3>1, <3>3, <4>1
      <4> QED
        BY <4>1, <4>2
    <3> QED
      BY <3>2, <3>3
  <2> QED
    BY <2>3, <2>4
<1>3. Bounded(S)
  <2>1. Cardinality(S) \in Nat
    BY FS_CardinalityType
  <2>2. Nat \subseteq T
    <3> HIDE DEF T
    <3> QED
      BY <1>1, <1>2, Induct
  <2>3. Cardinality(S) \in T
    <3> HIDE DEF T
    <3> QED
      BY <2>1, <2>2
  <2> HIDE DEF Bounded
  <2> QED
    BY <2>3
<1>4. \E x \in S : \A y \in S : x >= y
  BY <1>3
<1>5. Max(S) \in S /\ \A y \in S : Max(S) >= y
  BY <1>4 DEF Max
<1> QED
  BY <1>5

\* The rebuild of a form that is refused may have entries without a name.
AnyApi == [id: Nat \ {0}, name: Name \union {None}, secret: Name \union {None}]
AnyNet == [id: Nat \ {0}, name: Name \union {None}, secret: Name \union {None}, apis: Seq(AnyApi)]
Shaped(ws) ==
    /\ ws \in Seq(AnyNet) /\ Len(ws) <= MaxNets
    /\ \A i \in DOMAIN ws : Len(ws[i].apis) <= MaxApis

LEMMA FitsIsShaped == ASSUME NEW ws, Fits(ws) PROVE Shaped(ws)
<1>1. Api \subseteq AnyApi
  BY DEF Api, AnyApi
<1>2. Seq(Api) \subseteq Seq(AnyApi)
  BY <1>1
<1>3. Net \subseteq AnyNet
  BY <1>2 DEF Net, AnyNet
<1>4. ws \in Seq(AnyNet)
  BY <1>3 DEF Fits
<1> QED
  BY <1>4 DEF Fits, Shaped

\* Networks and their endpoints, by place: a network is at its place 0.
Places(ws) == {r \in (1 .. Len(ws)) \X (0 .. MaxApis) : r[2] <= Len(ws[r[1]].apis)}
At(ws, r) == IF r[2] = 0 THEN ws[r[1]] ELSE ws[r[1]].apis[r[2]]

LEMMA PlaceTypes ==
    ASSUME NEW ws, Shaped(ws)
    PROVE  /\ Len(ws) \in Nat /\ DOMAIN ws = 1 .. Len(ws)
           /\ \A i \in 1 .. Len(ws) : /\ ws[i] \in AnyNet /\ ws[i].apis \in Seq(AnyApi)
                                      /\ Len(ws[i].apis) \in 0 .. MaxApis
                                      /\ DOMAIN ws[i].apis = 1 .. Len(ws[i].apis)
           /\ \A r \in Places(ws) : /\ At(ws, r).id \in Nat \ {0} /\ At(ws, r).name \in Name \union {None}
                                    /\ At(ws, r).secret \in Name \union {None}
<1>1. ws \in Seq(AnyNet) /\ Len(ws) \in Nat /\ DOMAIN ws = 1 .. Len(ws)
  BY LenProperties DEF Shaped
<1>2. \A i \in 1 .. Len(ws) : /\ ws[i] \in AnyNet /\ ws[i].apis \in Seq(AnyApi)
                              /\ Len(ws[i].apis) \in 0 .. MaxApis
                              /\ DOMAIN ws[i].apis = 1 .. Len(ws[i].apis)
  <2> SUFFICES ASSUME NEW i \in 1 .. Len(ws)
               PROVE  /\ ws[i] \in AnyNet /\ ws[i].apis \in Seq(AnyApi)
                      /\ Len(ws[i].apis) \in 0 .. MaxApis
                      /\ DOMAIN ws[i].apis = 1 .. Len(ws[i].apis)
    OBVIOUS
  <2>1. ws[i] \in AnyNet
    BY <1>1
  <2>2. ws[i].apis \in Seq(AnyApi)
    BY <2>1 DEF AnyNet
  <2>3. Len(ws[i].apis) <= MaxApis
    BY <1>1 DEF Shaped
  <2> QED
    BY <2>1, <2>2, <2>3, LenProperties
<1>3. ASSUME NEW r \in Places(ws)
      PROVE  /\ At(ws, r).id \in Nat \ {0} /\ At(ws, r).name \in Name \union {None}
             /\ At(ws, r).secret \in Name \union {None}
  <2>1. r[1] \in 1 .. Len(ws) /\ r[2] \in 0 .. MaxApis /\ r[2] <= Len(ws[r[1]].apis)
    BY DEF Places
  <2>2. CASE r[2] = 0
    <3>1. ws[r[1]] \in AnyNet
      BY <1>2, <2>1
    <3> QED
      BY <2>2, <3>1 DEF At, AnyNet
  <2>3. CASE r[2] # 0
    <3>1. ws[r[1]].apis \in Seq(AnyApi) /\ r[2] \in 1 .. Len(ws[r[1]].apis)
      BY <1>2, <2>1, <2>3
    <3>2. ws[r[1]].apis[r[2]] \in AnyApi
      BY <3>1
    <3> QED
      BY <2>3, <3>2 DEF At, AnyApi
  <2> QED
    BY <2>2, <2>3
<1> QED
  BY <1>1, <1>2, <1>3

LEMMA EntriesByPlace ==
    ASSUME NEW ws, Shaped(ws)
    PROVE  EntriesOf(ws) = {At(ws, r) : r \in Places(ws)}
<1>1. /\ Len(ws) \in Nat /\ DOMAIN ws = 1 .. Len(ws)
      /\ \A i \in 1 .. Len(ws) : /\ Len(ws[i].apis) \in 0 .. MaxApis
                                 /\ DOMAIN ws[i].apis = 1 .. Len(ws[i].apis)
  BY PlaceTypes
<1>2. MaxApis \in Nat
  BY SizeAssumption
<1>3. ASSUME NEW e \in EntriesOf(ws) PROVE \E r \in Places(ws) : e = At(ws, r)
  <2>1. PICK i \in 1 .. Len(ws) : e = ws[i] \/ \E j \in DOMAIN ws[i].apis : e = ws[i].apis[j]
    BY <1>1 DEF EntriesOf
  <2>2. CASE e = ws[i]
    <3>1. <<i, 0>> \in Places(ws)
      BY <1>1, <1>2 DEF Places
    <3> QED
      BY <2>2, <3>1 DEF At
  <2>3. CASE \E j \in DOMAIN ws[i].apis : e = ws[i].apis[j]
    <3>1. PICK j \in 1 .. Len(ws[i].apis) : e = ws[i].apis[j]
      BY <1>1, <2>3
    <3>2. <<i, j>> \in Places(ws) /\ j # 0
      BY <1>1, <1>2 DEF Places
    <3> QED
      BY <3>1, <3>2 DEF At
  <2> QED
    BY <2>1, <2>2, <2>3
<1>4. ASSUME NEW r \in Places(ws) PROVE At(ws, r) \in EntriesOf(ws)
  <2>1. r[1] \in 1 .. Len(ws) /\ r[2] \in 0 .. MaxApis /\ r[2] <= Len(ws[r[1]].apis)
    BY DEF Places
  <2>2. r[2] # 0 => r[2] \in DOMAIN ws[r[1]].apis
    BY <1>1, <2>1
  <2> QED
    BY <1>1, <2>1, <2>2 DEF At, EntriesOf
<1> QED
  BY <1>3, <1>4

\* Ids are distinct if they are so by place.
LEMMA DistinctByPlace ==
    ASSUME NEW ws, Shaped(ws)
    PROVE  DistinctIds(ws) <=> \A r, q \in Places(ws) : At(ws, r).id = At(ws, q).id => r = q
<1>1. /\ Len(ws) \in Nat /\ DOMAIN ws = 1 .. Len(ws)
      /\ \A i \in 1 .. Len(ws) : /\ Len(ws[i].apis) \in 0 .. MaxApis
                                 /\ DOMAIN ws[i].apis = 1 .. Len(ws[i].apis)
  BY PlaceTypes
<1>2. MaxApis \in Nat
  BY SizeAssumption
<1>3. ASSUME DistinctIds(ws), NEW r \in Places(ws), NEW q \in Places(ws), At(ws, r).id = At(ws, q).id
      PROVE  r = q
  <2>1. /\ r[1] \in 1 .. Len(ws) /\ r[2] \in 0 .. MaxApis /\ r = <<r[1], r[2]>>
        /\ r[2] # 0 => r[2] \in DOMAIN ws[r[1]].apis
    BY <1>1 DEF Places
  <2>2. /\ q[1] \in 1 .. Len(ws) /\ q[2] \in 0 .. MaxApis /\ q = <<q[1], q[2]>>
        /\ q[2] # 0 => q[2] \in DOMAIN ws[q[1]].apis
    BY <1>1 DEF Places
  <2>3. r[1] \in DOMAIN ws /\ q[1] \in DOMAIN ws
    BY <1>1, <2>1, <2>2
  <2>4. CASE r[2] = 0 /\ q[2] = 0
    BY <1>3, <2>1, <2>2, <2>3, <2>4 DEF DistinctIds, At
  <2>5. CASE r[2] # 0 /\ q[2] = 0
    BY <1>3, <2>1, <2>2, <2>3, <2>5 DEF DistinctIds, At
  <2>6. CASE r[2] = 0 /\ q[2] # 0
    BY <1>3, <2>1, <2>2, <2>3, <2>6 DEF DistinctIds, At
  <2>7. CASE r[2] # 0 /\ q[2] # 0
    BY <1>3, <2>1, <2>2, <2>3, <2>7 DEF DistinctIds, At
  <2> QED
    BY <2>4, <2>5, <2>6, <2>7
<1>4. ASSUME \A r, q \in Places(ws) : At(ws, r).id = At(ws, q).id => r = q PROVE DistinctIds(ws)
  <2> SUFFICES ASSUME NEW i \in DOMAIN ws, NEW j \in DOMAIN ws
               PROVE  /\ ws[i].id = ws[j].id => i = j
                      /\ \A k \in DOMAIN ws[i].apis :
                            /\ ws[i].apis[k].id # ws[j].id
                            /\ \A m \in DOMAIN ws[j].apis :
                                  ws[i].apis[k].id = ws[j].apis[m].id => i = j /\ k = m
    BY DEF DistinctIds
  <2>1. <<i, 0>> \in Places(ws) /\ <<j, 0>> \in Places(ws)
    BY <1>1, <1>2 DEF Places
  <2>2. At(ws, <<i, 0>>) = ws[i] /\ At(ws, <<j, 0>>) = ws[j]
    BY DEF At
  <2>3. \A k \in DOMAIN ws[i].apis : /\ k # 0 /\ <<i, k>> \in Places(ws)
                                     /\ At(ws, <<i, k>>) = ws[i].apis[k]
    BY <1>1, <1>2 DEF Places, At
  <2>4. \A k \in DOMAIN ws[j].apis : /\ <<j, k>> \in Places(ws)
                                     /\ At(ws, <<j, k>>) = ws[j].apis[k]
    BY <1>1, <1>2 DEF Places, At
  <2>5. ws[i].id = ws[j].id => i = j
    <3>1. ws[i].id = ws[j].id => <<i, 0>> = <<j, 0>>
      BY <1>4, <2>1, <2>2
    <3> QED
      BY <3>1
  <2>6. ASSUME NEW k \in DOMAIN ws[i].apis PROVE ws[i].apis[k].id # ws[j].id
    <3>1. ws[i].apis[k].id = ws[j].id => <<i, k>> = <<j, 0>>
      BY <1>4, <2>1, <2>2, <2>3
    <3> QED
      BY <2>3, <3>1
  <2>7. ASSUME NEW k \in DOMAIN ws[i].apis, NEW m \in DOMAIN ws[j].apis,
               ws[i].apis[k].id = ws[j].apis[m].id
        PROVE  i = j /\ k = m
    <3>1. <<i, k>> = <<j, m>>
      BY <1>4, <2>3, <2>4, <2>7
    <3> QED
      BY <3>1
  <2> QED
    BY <2>5, <2>6, <2>7
<1> QED
  BY <1>3, <1>4

\* Fresh ids are above all that are in use.
LEMMA NextIdIsAbove ==
    ASSUME NEW ws, Shaped(ws)
    PROVE  NextId(ws) \in Nat \ {0} /\ \A r \in Places(ws) : At(ws, r).id < NextId(ws)
<1>1. IdsOf(ws) = {At(ws, r).id : r \in Places(ws)}
  <2>1. IdsOf(ws) = {e.id : e \in {At(ws, r) : r \in Places(ws)}}
    BY EntriesByPlace DEF IdsOf
  <2> QED
    BY <2>1
<1>2. IdsOf(ws) \in SUBSET Nat
  BY <1>1, PlaceTypes
<1>3. IsFiniteSet(IdsOf(ws))
  <2> DEFINE D == (1 .. Len(ws)) \X (0 .. MaxApis)
             f == [r \in Places(ws) |-> At(ws, r).id]
  <2>1. IsFiniteSet(D)
    <3>1. Len(ws) \in Int /\ MaxApis \in Int
      BY PlaceTypes, SizeAssumption
    <3>2. IsFiniteSet(1 .. Len(ws)) /\ IsFiniteSet(0 .. MaxApis)
      BY <3>1, FS_Interval
    <3> QED
      BY <3>2, FS_Product
  <2>2. IsFiniteSet(Places(ws))
    <3>1. Places(ws) \in SUBSET D
      BY DEF Places
    <3> HIDE DEF D
    <3> QED
      BY <2>1, <3>1, FS_Subset
  <2>3. f \in Surjection(Places(ws), IdsOf(ws))
    BY <1>1 DEF Surjection
  <2> HIDE DEF f
  <2> QED
    BY <2>2, <2>3, FS_Surjection
<1>4. CASE IdsOf(ws) = {}
  <2>1. NextId(ws) = 1
    BY <1>4 DEF NextId
  <2>2. \A r \in Places(ws) : At(ws, r).id \in IdsOf(ws)
    BY <1>1
  <2> QED
    BY <1>4, <2>1, <2>2
<1>5. CASE IdsOf(ws) # {}
  <2>1. Max(IdsOf(ws)) \in IdsOf(ws) /\ \A y \in IdsOf(ws) : y <= Max(IdsOf(ws))
    BY <1>2, <1>3, <1>5, MaxIsLargest
  <2>2. NextId(ws) = Max(IdsOf(ws)) + 1
    BY <1>5 DEF NextId
  <2>3. Max(IdsOf(ws)) \in Nat
    BY <1>2, <2>1
  <2>4. ASSUME NEW r \in Places(ws) PROVE At(ws, r).id < NextId(ws)
    <3>1. At(ws, r).id \in IdsOf(ws) /\ At(ws, r).id \in Nat
      BY <1>1, <1>2
    <3> QED
      BY <2>1, <2>2, <2>3, <3>1
  <2> QED
    BY <2>2, <2>3, <2>4
<1> QED
  BY <1>4, <1>5

-----------------------------------------------------------------------------
(* The stored entry of a row                                                *)

Rows == Nets \X (0 .. MaxApis)
RowAt(p, r) == RowOf(p, r[1], r[2])
OldAt(p, r) == Old(p, r[1], r[2])

LEMMA RowTypes ==
    ASSUME NEW p \in Page
    PROVE  /\ \A r \in Rows : RowAt(p, r) \in Row
           /\ p.nets \in [Nets -> Row] /\ \A n \in Nets : p.apis[n] \in [Apis -> Row]
           /\ p.settings \in Settings
           /\ Enabled(p) \subseteq Rows
<1>1. p.nets \in [Nets -> Row] /\ p.apis \in [Nets -> [Apis -> Row]] /\ p.settings \in Settings
  BY DEF Page
<1>2. ASSUME NEW r \in Rows PROVE RowAt(p, r) \in Row
  <2>1. r[1] \in Nets /\ (r[2] # 0 => r[2] \in Apis)
    BY SizeAssumption DEF Rows, Apis
  <2> QED
    BY <1>1, <2>1 DEF RowAt, RowOf
<1> QED
  BY <1>1, <1>2 DEF Enabled, Rows

\* Match finds the entry of an id, if there is one.
LEMMA MatchFinds ==
    ASSUME NEW id, NEW entries, NEW none
    PROVE  IF id # 0 /\ \E i \in DOMAIN entries : entries[i].id = id
           THEN \E i \in DOMAIN entries : entries[i].id = id /\ Match(id, entries, none) = entries[i]
           ELSE Match(id, entries, none) = none
BY DEF Match

LEMMA NoEntry ==
    /\ NoNet.id = 0 /\ NoNet.name = None /\ NoNet.secret = None /\ NoNet.apis = <<>>
    /\ NoApi.id = 0 /\ NoApi.name = None /\ NoApi.secret = None
BY DEF NoNet, NoApi

\* What a row is matched with: a stored entry of its id, or none.
LEMMA OldIsStored ==
    ASSUME NEW p \in Page, Fits(nets), NEW r \in Rows
    PROVE  \/ OldAt(p, r).id = 0 /\ OldAt(p, r).secret = None
           \/ \E q \in Places(nets) : OldAt(p, r) = At(nets, q) /\ At(nets, q).id = RowAt(p, r).id
<1>1. r[1] \in Nets /\ r[2] \in 0 .. MaxApis
  BY DEF Rows
<1>2. /\ Len(nets) \in Nat /\ DOMAIN nets = 1 .. Len(nets)
      /\ \A i \in 1 .. Len(nets) : /\ Len(nets[i].apis) \in 0 .. MaxApis
                                   /\ DOMAIN nets[i].apis = 1 .. Len(nets[i].apis)
  BY FitsIsShaped, PlaceTypes
<1>3. MaxApis \in Nat
  BY SizeAssumption
<1> DEFINE id == p.nets[r[1]].id
           w == OldNet(p, r[1])
<1>4. w = NoNet \/ \E i \in 1 .. Len(nets) : nets[i].id = id /\ w = nets[i]
  BY <1>2, MatchFinds DEF OldNet
<1>5. CASE r[2] = 0
  <2>1. OldAt(p, r) = w /\ RowAt(p, r).id = id
    BY <1>5 DEF OldAt, Old, RowAt, RowOf
  <2>2. CASE w = NoNet
    BY <2>1, <2>2, NoEntry
  <2>3. ASSUME NEW i \in 1 .. Len(nets), nets[i].id = id, w = nets[i]
        PROVE  \E q \in Places(nets) : OldAt(p, r) = At(nets, q) /\ At(nets, q).id = RowAt(p, r).id
    <3>1. <<i, 0>> \in Places(nets) /\ At(nets, <<i, 0>>) = nets[i]
      BY <1>2, <1>3 DEF Places, At
    <3> QED
      BY <2>1, <2>3, <3>1
  <2> QED
    BY <1>4, <2>2, <2>3
<1>6. CASE r[2] # 0
  <2> DEFINE x == p.apis[r[1]][r[2]].id
             e == Match(x, w.apis, NoApi)
  <2>1. OldAt(p, r) = e /\ RowAt(p, r).id = x
    BY <1>6 DEF OldAt, Old, OldApi, RowAt, RowOf
  <2>2. CASE e = NoApi
    BY <2>1, <2>2, NoEntry
  <2>3. CASE e # NoApi
    <3>1. PICK j \in DOMAIN w.apis : w.apis[j].id = x /\ e = w.apis[j]
      <4> HIDE DEF w, x
      <4> QED
        BY <2>3, MatchFinds
    <3>2. w # NoNet
      BY <3>1, NoEntry
    <3>3. PICK i \in 1 .. Len(nets) : w = nets[i]
      BY <1>4, <3>2
    <3>4. <<i, j>> \in Places(nets) /\ At(nets, <<i, j>>) = nets[i].apis[j]
      <4>1. j \in 1 .. Len(nets[i].apis) /\ Len(nets[i].apis) \in 0 .. MaxApis
        BY <1>2, <3>1, <3>3
      <4> QED
        BY <1>2, <1>3, <4>1 DEF Places, At
    <3> QED
      BY <2>1, <3>1, <3>3, <3>4
  <2> QED
    BY <2>2, <2>3
<1> QED
  BY <1>5, <1>6

-----------------------------------------------------------------------------
(* The ids of the rebuilt configuration                                     *)

\* Form order: by network, a network before its endpoints.
Before(r, q) == r[1] < q[1] \/ (r[1] = q[1] /\ r[2] < q[2])
MintedBefore(p, q) == {r \in Enabled(p) : OldAt(p, r).id = 0 /\ Before(r, q)}
IdAt(p, r) == IdOf(p, r[1], r[2])

\* On no two rows of a page there is the same id.
PageIds(p) == \A r, q \in Rows : RowAt(p, r).id = RowAt(p, q).id /\ RowAt(p, r).id # 0 => r = q

LEMMA RowsFinite == IsFiniteSet(Rows)
<1>1. MaxNets \in Int /\ MaxApis \in Int
  BY SizeAssumption
<1>2. IsFiniteSet(Nets) /\ IsFiniteSet(0 .. MaxApis)
  BY <1>1, FS_Interval DEF Nets
<1> QED
  BY <1>2, FS_Product DEF Rows

LEMMA MintedFinite ==
    ASSUME NEW p \in Page, NEW q
    PROVE  IsFiniteSet(MintedBefore(p, q)) /\ Cardinality(MintedBefore(p, q)) \in Nat
<1>1. MintedBefore(p, q) \in SUBSET Rows
  BY RowTypes DEF MintedBefore
<1> QED
  BY <1>1, RowsFinite, FS_Subset, FS_CardinalityType

LEMMA MintedIs ==
    ASSUME NEW p, NEW q
    PROVE  Minted(p, q[1], q[2]) = NextId(nets) + Cardinality(MintedBefore(p, q))
BY DEF Minted, MintedBefore, OldAt, Before

\* Rows are in an order, and each new one counts for those behind it.
LEMMA MintedRises ==
    ASSUME NEW p \in Page, Fits(nets), NEW r \in Enabled(p), NEW q \in Rows,
           OldAt(p, r).id = 0, Before(r, q)
    PROVE  Minted(p, r[1], r[2]) < Minted(p, q[1], q[2])
<1>1. r \in Rows
  BY RowTypes
<1>2. /\ r[1] \in Int /\ r[2] \in Int /\ q[1] \in Int /\ q[2] \in Int
      /\ \A x \in Rows : x[1] \in Int /\ x[2] \in Int
  BY <1>1 DEF Rows, Nets
<1>3. MintedBefore(p, r) \in SUBSET MintedBefore(p, q)
  <2>1. ASSUME NEW x \in MintedBefore(p, r) PROVE Before(x, q)
    <3>1. x \in Rows /\ Before(x, r)
      BY RowTypes DEF MintedBefore
    <3>2. x[1] \in Int /\ x[2] \in Int
      BY <1>2, <3>1
    <3> QED
      BY <1>2, <3>1, <3>2 DEF Before
  <2> QED
    BY <2>1 DEF MintedBefore
<1>4. r \in MintedBefore(p, q) /\ r \notin MintedBefore(p, r)
  BY <1>2 DEF MintedBefore, Before
<1>5. Cardinality(MintedBefore(p, r)) <= Cardinality(MintedBefore(p, q))
      /\ Cardinality(MintedBefore(p, r)) # Cardinality(MintedBefore(p, q))
  BY <1>3, <1>4, MintedFinite, FS_Subset
<1>6. NextId(nets) \in Nat
  BY FitsIsShaped, NextIdIsAbove
<1> QED
  BY <1>5, <1>6, MintedFinite, MintedIs

LEMMA MintedIsNew ==
    ASSUME NEW p \in Page, Fits(nets), NEW r \in Rows
    PROVE  /\ Minted(p, r[1], r[2]) \in Nat \ {0}
           /\ \A q \in Places(nets) : At(nets, q).id < Minted(p, r[1], r[2])
<1>1. NextId(nets) \in Nat \ {0} /\ \A q \in Places(nets) : At(nets, q).id < NextId(nets)
  BY FitsIsShaped, NextIdIsAbove
<1>2. Cardinality(MintedBefore(p, r)) \in Nat
  BY MintedFinite
<1>3. \A q \in Places(nets) : At(nets, q).id \in Nat
  BY FitsIsShaped, PlaceTypes
<1> QED
  BY <1>1, <1>2, <1>3, MintedIs

\* Rows that are stored have ids of their own.
LEMMA IdsApart ==
    ASSUME NEW p \in Page, Fits(nets), PageIds(p),
           NEW r \in Enabled(p), NEW q \in Enabled(p), IdAt(p, r) = IdAt(p, q)
    PROVE  r = q
<1>1. /\ r \in Rows /\ r = <<r[1], r[2]>> /\ r[1] \in Int /\ r[2] \in Int
      /\ q \in Rows /\ q = <<q[1], q[2]>> /\ q[1] \in Int /\ q[2] \in Int
  <2>1. r \in Rows /\ q \in Rows
    BY RowTypes
  <2> QED
    BY <2>1 DEF Rows, Nets
<1>2. \A x \in Rows : IdAt(p, x) = IF OldAt(p, x).id # 0 THEN OldAt(p, x).id ELSE Minted(p, x[1], x[2])
  BY DEF IdAt, IdOf, OldAt
<1>3. \A x \in Rows : OldAt(p, x).id # 0 =>
          OldAt(p, x).id = RowAt(p, x).id /\ \E y \in Places(nets) : At(nets, y).id = OldAt(p, x).id
  BY OldIsStored
<1>4. \A y \in Places(nets) : At(nets, y).id \in Nat
  BY FitsIsShaped, PlaceTypes
<1>5. ASSUME NEW x \in Rows, NEW z \in Rows, OldAt(p, x).id # 0
      PROVE  OldAt(p, x).id # Minted(p, z[1], z[2])
  <2>1. PICK y \in Places(nets) : At(nets, y).id = OldAt(p, x).id
    BY <1>3, <1>5
  <2>2. At(nets, y).id < Minted(p, z[1], z[2]) /\ Minted(p, z[1], z[2]) \in Nat /\ At(nets, y).id \in Nat
    BY <1>4, MintedIsNew
  <2> QED
    BY <2>1, <2>2
<1>6. CASE OldAt(p, r).id # 0 /\ OldAt(p, q).id # 0
  <2>1. RowAt(p, r).id = RowAt(p, q).id /\ RowAt(p, r).id # 0
    BY <1>1, <1>2, <1>3, <1>6
  <2> QED
    BY <1>1, <2>1 DEF PageIds
<1>7. CASE OldAt(p, r).id # 0 /\ OldAt(p, q).id = 0
  BY <1>1, <1>2, <1>5, <1>7
<1>8. CASE OldAt(p, r).id = 0 /\ OldAt(p, q).id # 0
  <2>1. OldAt(p, q).id # Minted(p, r[1], r[2])
    BY <1>1, <1>5, <1>8
  <2> QED
    BY <1>1, <1>2, <1>8, <2>1
<1>9. CASE OldAt(p, r).id = 0 /\ OldAt(p, q).id = 0
  <2>1. Minted(p, r[1], r[2]) = Minted(p, q[1], q[2])
    BY <1>1, <1>2, <1>9
  <2>2. Minted(p, r[1], r[2]) \in Nat /\ Minted(p, q[1], q[2]) \in Nat
    BY <1>1, MintedIsNew
  <2>3. ~Before(r, q) /\ ~Before(q, r)
    BY <1>1, <1>9, <2>1, <2>2, MintedRises
  <2>4. r[1] = q[1] /\ r[2] = q[2]
    BY <1>1, <2>3 DEF Before
  <2> QED
    BY <1>1, <2>4
<1> QED
  BY <1>6, <1>7, <1>8, <1>9

-----------------------------------------------------------------------------
(* The rebuilt configuration                                                *)

\* The row an entry of the rebuilt configuration was made from.
RowFor(p, q) ==
    LET n == On(p.nets)[q[1]]
    IN <<n, IF q[2] = 0 THEN 0 ELSE On(p.apis[n])[q[2]]>>

SecretAt(p, r) == SecretOf(p, r[1], r[2])

LEMMA EntryTypes ==
    ASSUME NEW p \in Page, Fits(nets), NEW r \in Rows
    PROVE  /\ IdAt(p, r) \in Nat \ {0} /\ RowAt(p, r).name \in Name \union {None}
           /\ SecretAt(p, r) \in Name \union {None}
<1>1. RowAt(p, r) \in Row
  BY RowTypes
<1>2. /\ OldAt(p, r).id # 0 => OldAt(p, r).id \in Nat \ {0}
      /\ OldAt(p, r).secret \in Name \union {None}
  BY OldIsStored, FitsIsShaped, PlaceTypes
<1>3. IdAt(p, r) \in Nat \ {0}
  BY <1>2, MintedIsNew DEF IdAt, IdOf, OldAt
<1>4. SecretAt(p, r) = IF RowAt(p, r).typed # None THEN RowAt(p, r).typed
                       ELSE IF RowAt(p, r).clear THEN None ELSE OldAt(p, r).secret
  BY DEF SecretAt, SecretOf, RowAt, OldAt
<1>5. RowAt(p, r).name \in Name \union {None} /\ RowAt(p, r).typed \in Name \union {None}
  BY <1>1 DEF Row
<1> QED
  BY <1>2, <1>3, <1>4, <1>5

\* The lists of rows that are on.
LEMMA FormLists ==
    ASSUME NEW p \in Page
    PROVE  /\ On(p.nets) \in Seq(Nets) /\ Len(On(p.nets)) \in 0 .. MaxNets
           /\ \A i \in 1 .. Len(On(p.nets)) : On(p.nets)[i] \in Nets /\ p.nets[On(p.nets)[i]].on
           /\ \A i, j \in 1 .. Len(On(p.nets)) : On(p.nets)[i] = On(p.nets)[j] => i = j
           /\ \A n \in Nets :
                 /\ On(p.apis[n]) \in Seq(Apis) /\ Len(On(p.apis[n])) \in 0 .. MaxApis
                 /\ \A i \in 1 .. Len(On(p.apis[n])) :
                       On(p.apis[n])[i] \in Apis /\ p.apis[n][On(p.apis[n])[i]].on
                 /\ \A i, j \in 1 .. Len(On(p.apis[n])) : On(p.apis[n])[i] = On(p.apis[n])[j] => i = j
<1>1. p.nets \in [1 .. MaxNets -> Row] /\ \A n \in Nets : p.apis[n] \in [1 .. MaxApis -> Row]
  BY RowTypes DEF Nets, Apis
<1>2. MaxNets \in Nat /\ MaxApis \in Nat
  BY SizeAssumption
<1>3. /\ On(p.nets) \in Seq(Nets) /\ Len(On(p.nets)) <= MaxNets
      /\ \A i \in 1 .. Len(On(p.nets)) : On(p.nets)[i] \in Nets /\ p.nets[On(p.nets)[i]].on
      /\ \A i, j \in 1 .. Len(On(p.nets)) : On(p.nets)[i] = On(p.nets)[j] => i = j
  <2>1. Listed(MaxNets, p.nets)
    BY <1>1, <1>2, OnLists
  <2> QED
    BY <2>1 DEF Listed, Nets
<1>4. ASSUME NEW n \in Nets
      PROVE  /\ On(p.apis[n]) \in Seq(Apis) /\ Len(On(p.apis[n])) <= MaxApis
             /\ \A i \in 1 .. Len(On(p.apis[n])) :
                   On(p.apis[n])[i] \in Apis /\ p.apis[n][On(p.apis[n])[i]].on
             /\ \A i, j \in 1 .. Len(On(p.apis[n])) : On(p.apis[n])[i] = On(p.apis[n])[j] => i = j
  <2>1. Listed(MaxApis, p.apis[n])
    BY <1>1, <1>2, OnLists
  <2> QED
    BY <2>1 DEF Listed, Apis
<1> QED
  BY <1>2, <1>3, <1>4, LenProperties

LEMMA AppliedIs ==
    ASSUME NEW p \in Page
    PROVE  LET on == On(p.nets) IN
           /\ DOMAIN Applied(p) = 1 .. Len(on)
           /\ \A i \in 1 .. Len(on) :
                 /\ Applied(p)[i].id = IdAt(p, <<on[i], 0>>)
                 /\ Applied(p)[i].name = RowAt(p, <<on[i], 0>>).name
                 /\ Applied(p)[i].secret = SecretAt(p, <<on[i], 0>>)
                 /\ Applied(p)[i] = [id |-> Applied(p)[i].id, name |-> Applied(p)[i].name,
                                     secret |-> Applied(p)[i].secret, apis |-> Applied(p)[i].apis]
                 /\ Applied(p)[i].apis = [j \in 1 .. Len(On(p.apis[on[i]])) |->
                                             Entry(p, on[i], On(p.apis[on[i]])[j])]
           /\ Applied(p) = [i \in 1 .. Len(on) |-> Applied(p)[i]]
<1> DEFINE on == On(p.nets)
<1>1. DOMAIN on = 1 .. Len(on)
  BY FormLists, LenProperties
<1>2. \A i \in 1 .. Len(on) : DOMAIN On(p.apis[on[i]]) = 1 .. Len(On(p.apis[on[i]]))
  <2> SUFFICES ASSUME NEW i \in 1 .. Len(on)
               PROVE  DOMAIN On(p.apis[on[i]]) = 1 .. Len(On(p.apis[on[i]]))
    OBVIOUS
  <2>1. on[i] \in Nets
    BY FormLists
  <2> QED
    BY <2>1, FormLists, LenProperties
<1>3. Applied(p) = [i \in 1 .. Len(on) |->
          [id |-> IdOf(p, on[i], 0), name |-> p.nets[on[i]].name, secret |-> SecretOf(p, on[i], 0),
           apis |-> [j \in 1 .. Len(On(p.apis[on[i]])) |-> Entry(p, on[i], On(p.apis[on[i]])[j])]]]
  BY <1>1, <1>2 DEF Applied
<1>4. \A i \in 1 .. Len(on) :
          IdOf(p, on[i], 0) = IdAt(p, <<on[i], 0>>) /\ p.nets[on[i]] = RowAt(p, <<on[i], 0>>)
          /\ SecretOf(p, on[i], 0) = SecretAt(p, <<on[i], 0>>)
  BY DEF IdAt, RowAt, RowOf, SecretAt
<1>5. DOMAIN Applied(p) = 1 .. Len(on) /\ Applied(p) = [i \in 1 .. Len(on) |-> Applied(p)[i]]
  BY <1>3
<1>6. ASSUME NEW i \in 1 .. Len(on)
      PROVE  /\ Applied(p)[i].id = IdAt(p, <<on[i], 0>>)
             /\ Applied(p)[i].name = RowAt(p, <<on[i], 0>>).name
             /\ Applied(p)[i].secret = SecretAt(p, <<on[i], 0>>)
             /\ Applied(p)[i] = [id |-> Applied(p)[i].id, name |-> Applied(p)[i].name,
                                 secret |-> Applied(p)[i].secret, apis |-> Applied(p)[i].apis]
             /\ Applied(p)[i].apis = [j \in 1 .. Len(On(p.apis[on[i]])) |->
                                         Entry(p, on[i], On(p.apis[on[i]])[j])]
  <2> DEFINE apis == [j \in 1 .. Len(On(p.apis[on[i]])) |-> Entry(p, on[i], On(p.apis[on[i]])[j])]
  <2>1. Applied(p)[i] = [id |-> IdOf(p, on[i], 0), name |-> p.nets[on[i]].name,
                         secret |-> SecretOf(p, on[i], 0), apis |-> apis]
    BY <1>3
  <2> HIDE DEF apis
  <2>2. /\ Applied(p)[i].id = IdOf(p, on[i], 0) /\ Applied(p)[i].name = p.nets[on[i]].name
        /\ Applied(p)[i].secret = SecretOf(p, on[i], 0) /\ Applied(p)[i].apis = apis
    BY <2>1
  <2> QED
    BY <1>4, <2>1, <2>2 DEF apis
<1> QED
  BY <1>5, <1>6

LEMMA EntryIs ==
    ASSUME NEW p, NEW r
    PROVE  Entry(p, r[1], r[2]) = [id |-> IdAt(p, r), name |-> RowAt(p, r).name, secret |-> SecretAt(p, r)]
BY DEF Entry, IdAt, RowAt, SecretAt

\* The rebuilt configuration has the shape of one, whatever the page.
LEMMA AppliedShaped ==
    ASSUME NEW p \in Page, Fits(nets)
    PROVE  Shaped(Applied(p))
<1> DEFINE ws == Applied(p)
           on == On(p.nets)
<1>1. /\ DOMAIN ws = 1 .. Len(on)
      /\ ws = [i \in 1 .. Len(on) |-> ws[i]]
      /\ \A i \in 1 .. Len(on) :
            /\ ws[i].id = IdAt(p, <<on[i], 0>>)
            /\ ws[i].name = RowAt(p, <<on[i], 0>>).name
            /\ ws[i].secret = SecretAt(p, <<on[i], 0>>)
            /\ ws[i] = [id |-> ws[i].id, name |-> ws[i].name, secret |-> ws[i].secret, apis |-> ws[i].apis]
            /\ ws[i].apis = [j \in 1 .. Len(On(p.apis[on[i]])) |-> Entry(p, on[i], On(p.apis[on[i]])[j])]
  BY AppliedIs
<1>2. Len(on) \in 0 .. MaxNets /\ \A i \in 1 .. Len(on) : on[i] \in Nets
  BY FormLists
<1>3. MaxNets \in Nat /\ MaxApis \in Nat
  BY SizeAssumption
<1> HIDE DEF ws, on
<1>4. ASSUME NEW i \in 1 .. Len(on)
      PROVE  ws[i] \in AnyNet /\ Len(ws[i].apis) <= MaxApis
  <2> DEFINE n == on[i]
             ks == On(p.apis[n])
  <2>1. n \in Nets
    BY <1>2
  <2>2. Len(ks) \in 0 .. MaxApis /\ \A j \in 1 .. Len(ks) : ks[j] \in Apis
    BY <2>1, FormLists
  <2>3. ws[i].apis = [j \in 1 .. Len(ks) |-> Entry(p, n, ks[j])]
    BY <1>1
  <2> HIDE DEF ks, n
  <2>4. ASSUME NEW j \in 1 .. Len(ks) PROVE Entry(p, n, ks[j]) \in AnyApi
    <3>1. <<n, ks[j]>> \in Rows
      BY <1>3, <2>1, <2>2 DEF Rows, Apis
    <3>2. Entry(p, n, ks[j]) = [id |-> IdAt(p, <<n, ks[j]>>), name |-> RowAt(p, <<n, ks[j]>>).name,
                                secret |-> SecretAt(p, <<n, ks[j]>>)]
      BY EntryIs
    <3> QED
      BY <3>1, <3>2, EntryTypes DEF AnyApi
  <2>5. ws[i].apis \in Seq(AnyApi) /\ Len(ws[i].apis) = Len(ks)
    BY <2>2, <2>3, <2>4
  <2>6. <<n, 0>> \in Rows
    BY <1>3, <2>1 DEF Rows
  <2>7. ws[i].id \in Nat \ {0} /\ ws[i].name \in Name \union {None} /\ ws[i].secret \in Name \union {None}
    BY <1>1, <2>6, EntryTypes DEF n
  <2>8. ws[i] = [id |-> ws[i].id, name |-> ws[i].name, secret |-> ws[i].secret, apis |-> ws[i].apis]
    BY <1>1
  <2>9. Len(ws[i].apis) <= MaxApis
    BY <1>3, <2>2, <2>5
  <2> QED
    BY <2>5, <2>7, <2>8, <2>9 DEF AnyNet
<1>5. ws \in Seq(AnyNet) /\ Len(ws) = Len(on)
  BY <1>1, <1>2, <1>4
<1> QED
  BY <1>1, <1>2, <1>3, <1>4, <1>5 DEF Shaped, ws

\* Every entry of it comes from an enabled row, and no two from the same.
LEMMA AppliedByPlace ==
    ASSUME NEW p \in Page, Fits(nets)
    PROVE  /\ \A q \in Places(Applied(p)) :
                 /\ RowFor(p, q) \in Enabled(p) /\ RowFor(p, q) \in Rows
                 /\ At(Applied(p), q).id = IdAt(p, RowFor(p, q))
                 /\ At(Applied(p), q).name = RowAt(p, RowFor(p, q)).name
                 /\ At(Applied(p), q).secret = SecretAt(p, RowFor(p, q))
           /\ \A q, z \in Places(Applied(p)) : RowFor(p, q) = RowFor(p, z) => q = z
<1> DEFINE ws == Applied(p)
           on == On(p.nets)
<1>1. /\ DOMAIN ws = 1 .. Len(on) /\ Len(ws) \in Nat /\ DOMAIN ws = 1 .. Len(ws)
      /\ \A i \in 1 .. Len(on) :
            /\ ws[i].id = IdAt(p, <<on[i], 0>>)
            /\ ws[i].name = RowAt(p, <<on[i], 0>>).name
            /\ ws[i].secret = SecretAt(p, <<on[i], 0>>)
            /\ ws[i].apis = [j \in 1 .. Len(On(p.apis[on[i]])) |-> Entry(p, on[i], On(p.apis[on[i]])[j])]
  BY AppliedIs, AppliedShaped, PlaceTypes
<1>2. /\ Len(on) \in 0 .. MaxNets
      /\ \A i \in 1 .. Len(on) : on[i] \in Nets /\ p.nets[on[i]].on
      /\ \A i, j \in 1 .. Len(on) : on[i] = on[j] => i = j
  BY FormLists
<1>3. MaxNets \in Nat /\ MaxApis \in Nat
  BY SizeAssumption
<1> DEFINE ks(i) == On(p.apis[on[i]])
<1> HIDE DEF ws, on
<1>4. ASSUME NEW i \in 1 .. Len(on)
      PROVE  /\ Len(ks(i)) \in 0 .. MaxApis
             /\ \A j \in 1 .. Len(ks(i)) : ks(i)[j] \in Apis /\ p.apis[on[i]][ks(i)[j]].on
             /\ \A j, m \in 1 .. Len(ks(i)) : ks(i)[j] = ks(i)[m] => j = m
             /\ Len(ws[i].apis) = Len(ks(i))
             /\ \A j \in 1 .. Len(ks(i)) : ws[i].apis[j] = Entry(p, on[i], ks(i)[j])
  <2>1. on[i] \in Nets
    BY <1>2
  <2>2. /\ Len(ks(i)) \in 0 .. MaxApis
        /\ \A j \in 1 .. Len(ks(i)) : ks(i)[j] \in Apis /\ p.apis[on[i]][ks(i)[j]].on
        /\ \A j, m \in 1 .. Len(ks(i)) : ks(i)[j] = ks(i)[m] => j = m
    BY <2>1, FormLists
  <2>3. ws[i].apis = [j \in 1 .. Len(ks(i)) |-> Entry(p, on[i], ks(i)[j])]
    BY <1>1
  <2> HIDE DEF ks
  <2> QED
    BY <2>2, <2>3
<1> HIDE DEF ks
<1>5. ASSUME NEW q \in Places(ws)
      PROVE  /\ q[1] \in 1 .. Len(on) /\ q = <<q[1], q[2]>>
             /\ q[2] # 0 => q[2] \in 1 .. Len(ks(q[1]))
             /\ RowFor(p, q) = <<on[q[1]], IF q[2] = 0 THEN 0 ELSE ks(q[1])[q[2]]>>
  <2>1. q[1] \in 1 .. Len(ws) /\ q[2] \in 0 .. MaxApis /\ q[2] <= Len(ws[q[1]].apis) /\ q = <<q[1], q[2]>>
    BY DEF Places
  <2>2. q[1] \in 1 .. Len(on)
    BY <1>1, <2>1
  <2> QED
    BY <1>3, <1>4, <2>1, <2>2 DEF RowFor, on, ks
<1>6. ASSUME NEW q \in Places(ws)
      PROVE  /\ RowFor(p, q) \in Enabled(p) /\ RowFor(p, q) \in Rows
             /\ At(ws, q).id = IdAt(p, RowFor(p, q))
             /\ At(ws, q).name = RowAt(p, RowFor(p, q)).name
             /\ At(ws, q).secret = SecretAt(p, RowFor(p, q))
  <2>1. q[1] \in 1 .. Len(on) /\ (q[2] # 0 => q[2] \in 1 .. Len(ks(q[1])))
        /\ RowFor(p, q) = <<on[q[1]], IF q[2] = 0 THEN 0 ELSE ks(q[1])[q[2]]>>
    BY <1>5
  <2>2. on[q[1]] \in Nets /\ p.nets[on[q[1]]].on
    BY <1>2, <2>1
  <2>3. CASE q[2] = 0
    <3>1. RowFor(p, q) = <<on[q[1]], 0>> /\ At(ws, q) = ws[q[1]]
      BY <2>1, <2>3 DEF At
    <3>2. <<on[q[1]], 0>> \in Nets \X (0 .. MaxApis) /\ RowOf(p, on[q[1]], 0) = p.nets[on[q[1]]]
      BY <1>3, <2>2 DEF RowOf
    <3>3. RowFor(p, q) \in Enabled(p) /\ RowFor(p, q) \in Rows
      BY <2>2, <3>1, <3>2 DEF Enabled, Rows
    <3> QED
      BY <1>1, <2>1, <3>1, <3>3
  <2>4. CASE q[2] # 0
    <3> DEFINE k == ks(q[1])[q[2]]
    <3>1. RowFor(p, q) = <<on[q[1]], k>> /\ At(ws, q) = ws[q[1]].apis[q[2]]
      BY <2>1, <2>4 DEF At
    <3>2. k \in Apis /\ p.apis[on[q[1]]][k].on /\ ws[q[1]].apis[q[2]] = Entry(p, on[q[1]], k)
      BY <1>4, <2>1, <2>4
    <3> HIDE DEF k
    <3>3. <<on[q[1]], k>> \in Nets \X (0 .. MaxApis) /\ RowOf(p, on[q[1]], k) = p.apis[on[q[1]]][k]
      BY <1>3, <2>2, <3>2 DEF RowOf, Apis
    <3>4. Entry(p, on[q[1]], k) = [id |-> IdAt(p, <<on[q[1]], k>>), name |-> RowAt(p, <<on[q[1]], k>>).name,
                                   secret |-> SecretAt(p, <<on[q[1]], k>>)]
      BY EntryIs
    <3> QED
      BY <2>2, <3>1, <3>2, <3>3, <3>4 DEF Enabled, Rows
  <2> QED
    BY <2>3, <2>4
<1>7. ASSUME NEW q \in Places(ws), NEW z \in Places(ws), RowFor(p, q) = RowFor(p, z)
      PROVE  q = z
  <2>1. /\ q[1] \in 1 .. Len(on) /\ q = <<q[1], q[2]>> /\ (q[2] # 0 => q[2] \in 1 .. Len(ks(q[1])))
        /\ z[1] \in 1 .. Len(on) /\ z = <<z[1], z[2]>> /\ (z[2] # 0 => z[2] \in 1 .. Len(ks(z[1])))
        /\ on[q[1]] = on[z[1]]
        /\ (IF q[2] = 0 THEN 0 ELSE ks(q[1])[q[2]]) = (IF z[2] = 0 THEN 0 ELSE ks(z[1])[z[2]])
    BY <1>5, <1>7
  <2>2. q[1] = z[1]
    BY <1>2, <2>1
  <2>3. \A j \in 1 .. Len(ks(q[1])) : ks(q[1])[j] \in Apis
    BY <1>4, <2>1
  <2>4. 0 \notin Apis
    BY <1>3 DEF Apis
  <2>5. \A j, m \in 1 .. Len(ks(q[1])) : ks(q[1])[j] = ks(q[1])[m] => j = m
    BY <1>4, <2>1
  <2>6. q[2] = z[2]
    BY <2>1, <2>2, <2>3, <2>4, <2>5
  <2> QED
    BY <2>1, <2>2, <2>6
<1> QED
  BY <1>6, <1>7 DEF ws

LEMMA AppliedDistinct ==
    ASSUME NEW p \in Page, Fits(nets), PageIds(p)
    PROVE  DistinctIds(Applied(p))
<1>1. ASSUME NEW q \in Places(Applied(p)), NEW z \in Places(Applied(p)),
             At(Applied(p), q).id = At(Applied(p), z).id
      PROVE  q = z
  <2>1. IdAt(p, RowFor(p, q)) = IdAt(p, RowFor(p, z))
    BY <1>1, AppliedByPlace
  <2>2. RowFor(p, q) = RowFor(p, z)
    BY <2>1, AppliedByPlace, IdsApart
  <2> QED
    BY <2>2, AppliedByPlace
<1> QED
  BY <1>1, AppliedShaped, DistinctByPlace

\* A configuration fits if its entries have names.
LEMMA NamedFits ==
    ASSUME NEW ws, Shaped(ws), \A q \in Places(ws) : At(ws, q).name # None
    PROVE  Fits(ws)
<1>1. /\ Len(ws) \in Nat /\ DOMAIN ws = 1 .. Len(ws) /\ ws \in Seq(AnyNet)
      /\ \A i \in 1 .. Len(ws) : /\ ws[i] \in AnyNet /\ ws[i].apis \in Seq(AnyApi)
                                 /\ Len(ws[i].apis) \in 0 .. MaxApis
                                 /\ DOMAIN ws[i].apis = 1 .. Len(ws[i].apis)
  BY PlaceTypes DEF Shaped
<1>2. MaxApis \in Nat
  BY SizeAssumption
<1>3. ASSUME NEW i \in 1 .. Len(ws) PROVE ws[i] \in Net
  <2>1. ws[i].name # None
    <3>1. <<i, 0>> \in Places(ws) /\ At(ws, <<i, 0>>) = ws[i]
      BY <1>1, <1>2 DEF Places, At
    <3> QED
      BY <3>1
  <2>2. ASSUME NEW j \in 1 .. Len(ws[i].apis) PROVE ws[i].apis[j] \in Api
    <3>1. <<i, j>> \in Places(ws) /\ At(ws, <<i, j>>) = ws[i].apis[j]
      BY <1>1, <1>2 DEF Places, At
    <3>2. ws[i].apis[j] \in AnyApi /\ ws[i].apis[j].name # None
      BY <1>1, <3>1
    <3> QED
      BY <3>2 DEF AnyApi, Api
  <2>3. ws[i].apis \in Seq(Api)
    <3>1. ws[i].apis \in Seq(AnyApi)
      BY <1>1
    <3> QED
      BY <2>2, <3>1
  <2> QED
    BY <1>1, <2>1, <2>3 DEF AnyNet, Net
<1>4. ws \in Seq(Net)
  BY <1>1, <1>3
<1> QED
  BY <1>1, <1>4 DEF Fits, Shaped

LEMMA AppliedFits ==
    ASSUME NEW p \in Page, Fits(nets), Valid(p)
    PROVE  Fits(Applied(p))
<1>1. \A q \in Places(Applied(p)) : At(Applied(p), q).name # None
  BY AppliedByPlace DEF Valid, ValidRow, RowAt
<1> QED
  BY <1>1, AppliedShaped, NamedFits

-----------------------------------------------------------------------------
(* The page                                                                 *)

\* What a row is rendered from.
Stored(ws, r) ==
    IF r[2] = 0 THEN Nth(ws, r[1], NoNet) ELSE Nth(Nth(ws, r[1], NoNet).apis, r[2], NoApi)

LEMMA StoredIs ==
    ASSUME NEW ws, Shaped(ws), NEW r \in Rows
    PROVE  IF r \in Places(ws) THEN Stored(ws, r) = At(ws, r)
           ELSE /\ Stored(ws, r).id = 0 /\ Stored(ws, r).name = None /\ Stored(ws, r).secret = None
<1>1. /\ Len(ws) \in Nat /\ DOMAIN ws = 1 .. Len(ws)
      /\ \A i \in 1 .. Len(ws) : /\ Len(ws[i].apis) \in 0 .. MaxApis
                                 /\ DOMAIN ws[i].apis = 1 .. Len(ws[i].apis)
  BY PlaceTypes
<1>2. r[1] \in Nets /\ r[2] \in 0 .. MaxApis /\ r = <<r[1], r[2]>> /\ MaxApis \in Nat /\ Nets \subseteq Nat \ {0}
  BY SizeAssumption DEF Rows, Nets
<1>3. CASE r[1] \notin DOMAIN ws
  <2>1. Nth(ws, r[1], NoNet) = NoNet
    BY <1>3 DEF Nth
  <2>2. DOMAIN NoNet.apis = {}
    BY NoEntry
  <2>3. Nth(NoNet.apis, r[2], NoApi) = NoApi
    BY <2>2 DEF Nth
  <2>4. r \notin Places(ws)
    BY <1>1, <1>3 DEF Places
  <2> QED
    BY <2>1, <2>3, <2>4, NoEntry DEF Stored
<1>4. CASE r[1] \in DOMAIN ws
  <2> DEFINE w == ws[r[1]]
  <2>1. Nth(ws, r[1], NoNet) = w /\ DOMAIN w.apis = 1 .. Len(w.apis) /\ Len(w.apis) \in 0 .. MaxApis
    BY <1>1, <1>4 DEF Nth
  <2>2. r \in Places(ws) <=> r[2] <= Len(w.apis)
    BY <1>1, <1>2, <1>4 DEF Places
  <2> HIDE DEF w
  <2>3. CASE r[2] = 0
    <3>1. r \in Places(ws)
      BY <1>2, <2>1, <2>2, <2>3
    <3> QED
      BY <2>1, <2>3, <3>1 DEF Stored, At, w
  <2>4. CASE r[2] # 0 /\ r[2] <= Len(w.apis)
    <3>1. r[2] \in DOMAIN w.apis /\ r \in Places(ws)
      BY <1>2, <2>1, <2>2, <2>4
    <3>2. Stored(ws, r) = w.apis[r[2]]
      BY <2>1, <2>4, <3>1 DEF Stored, Nth
    <3> QED
      BY <2>4, <3>1, <3>2 DEF At, w
  <2>5. CASE r[2] # 0 /\ ~(r[2] <= Len(w.apis))
    <3>1. r[2] \notin DOMAIN w.apis /\ r \notin Places(ws)
      BY <1>2, <2>1, <2>2, <2>5
    <3>2. Stored(ws, r) = NoApi
      BY <2>1, <2>5, <3>1 DEF Stored, Nth
    <3> QED
      BY <3>1, <3>2, NoEntry
  <2> QED
    BY <2>3, <2>4, <2>5
<1> QED
  BY <1>3, <1>4

LEMMA RenderShows ==
    ASSUME NEW ws, NEW s, NEW r \in Rows
    PROVE  LET row == RowAt(Render(ws, s), r)
               e == Stored(ws, r)
           IN /\ row = Show(e)
              /\ row.id = e.id /\ row.on = (e.id # 0) /\ row.name = e.name
              /\ row.typed = None /\ row.clear = FALSE /\ row.kept = (e.secret # None)
<1>1. r[1] \in Nets /\ (r[2] # 0 => r[2] \in Apis)
  BY SizeAssumption DEF Rows, Apis
<1>2. RowAt(Render(ws, s), r) = Show(Stored(ws, r))
  BY <1>1 DEF RowAt, RowOf, Render, Stored
<1> QED
  BY <1>2 DEF Show

LEMMA RenderType ==
    ASSUME NEW ws, Shaped(ws), NEW s \in Settings
    PROVE  Render(ws, s) \in Page
<1>1. ASSUME NEW r \in Rows PROVE Show(Stored(ws, r)) \in Row
  <2>1. /\ Stored(ws, r).id \in Nat /\ Stored(ws, r).name \in Name \union {None}
        /\ Stored(ws, r).secret \in Name \union {None}
    BY StoredIs, PlaceTypes
  <2> QED
    BY <2>1 DEF Show, Row
<1>2. \A n \in Nets, k \in 0 .. MaxApis : <<n, k>> \in Rows
  BY DEF Rows
<1>3. MaxApis \in Nat
  BY SizeAssumption
<1>4. \A n \in Nets : Show(Nth(ws, n, NoNet)) \in Row
  <2>1. \A n \in Nets : <<n, 0>> \in Rows /\ Stored(ws, <<n, 0>>) = Nth(ws, n, NoNet)
    BY <1>2, <1>3 DEF Stored
  <2> QED
    BY <1>1, <2>1
<1>5. \A n \in Nets, k \in Apis : Show(Nth(Nth(ws, n, NoNet).apis, k, NoApi)) \in Row
  <2>1. \A n \in Nets, k \in Apis :
            <<n, k>> \in Rows /\ Stored(ws, <<n, k>>) = Nth(Nth(ws, n, NoNet).apis, k, NoApi)
    <3>1. \A k \in Apis : k \in 0 .. MaxApis /\ k # 0
      BY <1>3 DEF Apis
    <3> QED
      BY <1>2, <3>1 DEF Stored
  <2> QED
    BY <1>1, <2>1
<1> QED
  BY <1>4, <1>5 DEF Render, Page

\* A page of distinct entries shows distinct ids.
LEMMA RenderIds ==
    ASSUME NEW ws, Shaped(ws), DistinctIds(ws), NEW s
    PROVE  PageIds(Render(ws, s))
<1> SUFFICES ASSUME NEW r \in Rows, NEW q \in Rows,
                    RowAt(Render(ws, s), r).id = RowAt(Render(ws, s), q).id, RowAt(Render(ws, s), r).id # 0
             PROVE  r = q
  BY DEF PageIds
<1>1. Stored(ws, r).id = Stored(ws, q).id /\ Stored(ws, r).id # 0
  <2>1. RowAt(Render(ws, s), r).id = Stored(ws, r).id
    BY RenderShows, Zenon
  <2>2. RowAt(Render(ws, s), q).id = Stored(ws, q).id
    BY RenderShows, Zenon
  <2> QED
    BY <2>1, <2>2
<1>2. r \in Places(ws) /\ q \in Places(ws) /\ At(ws, r).id = At(ws, q).id
  BY <1>1, StoredIs
<1> QED
  BY <1>2, DistinctByPlace

\* A save looks for a row of a page just rendered where it was rendered from.
LEMMA RenderMatches ==
    ASSUME Fits(nets), DistinctIds(nets), NEW s, NEW r \in Rows
    PROVE  OldAt(Render(nets, s), r) = Stored(nets, r)
<1> DEFINE p == Render(nets, s)
           n == r[1]
           w == Nth(nets, n, NoNet)
<1>1. r[1] \in Nets /\ r[2] \in 0 .. MaxApis /\ r = <<r[1], r[2]>> /\ MaxApis \in Nat /\ 0 \in 0 .. MaxApis
  BY SizeAssumption DEF Rows
<1>2. /\ Len(nets) \in Nat /\ DOMAIN nets = 1 .. Len(nets)
      /\ \A i \in 1 .. Len(nets) : /\ Len(nets[i].apis) \in 0 .. MaxApis
                                   /\ DOMAIN nets[i].apis = 1 .. Len(nets[i].apis)
  BY FitsIsShaped, PlaceTypes
<1>3. \A x, y \in Places(nets) : At(nets, x).id = At(nets, y).id => x = y
  BY FitsIsShaped, DistinctByPlace
<1>4. \A x \in Places(nets) : At(nets, x).id # 0
  BY FitsIsShaped, PlaceTypes
<1>5. p.nets[n].id = w.id
  <2>1. <<n, 0>> \in Rows /\ RowAt(p, <<n, 0>>) = p.nets[n] /\ Stored(nets, <<n, 0>>) = w
    BY <1>1 DEF Rows, RowAt, RowOf, Stored
  <2>2. RowAt(p, <<n, 0>>).id = Stored(nets, <<n, 0>>).id
    BY <2>1, RenderShows, Zenon
  <2> QED
    BY <2>1, <2>2
<1>6. OldNet(p, n) = w
  <2>1. OldNet(p, n) = Match(w.id, nets, NoNet)
    BY <1>5 DEF OldNet
  <2>2. CASE n \in DOMAIN nets
    <3>1. w = nets[n] /\ <<n, 0>> \in Places(nets) /\ At(nets, <<n, 0>>) = nets[n]
      BY <1>1, <1>2, <2>2 DEF Nth, Places, At
    <3>2. PICK i \in DOMAIN nets : nets[i].id = w.id /\ Match(w.id, nets, NoNet) = nets[i]
      <4>1. w.id # 0 /\ nets[n].id = w.id
        BY <1>4, <3>1
      <4> HIDE DEF w
      <4> QED
        BY <2>2, <4>1, MatchFinds
    <3>3. <<i, 0>> \in Places(nets) /\ At(nets, <<i, 0>>) = nets[i]
      BY <1>1, <1>2 DEF Places, At
    <3>4. <<i, 0>> = <<n, 0>>
      BY <1>3, <3>1, <3>2, <3>3
    <3> QED
      BY <2>1, <3>1, <3>2, <3>4
  <2>3. CASE n \notin DOMAIN nets
    <3>1. w = NoNet /\ w.id = 0
      BY <2>3, NoEntry DEF Nth
    <3> QED
      BY <2>1, <3>1, MatchFinds
  <2> QED
    BY <2>2, <2>3
<1>7. CASE r[2] = 0
  BY <1>6, <1>7 DEF OldAt, Old, Stored
<1>8. CASE r[2] # 0
  <2> DEFINE k == r[2]
             e == Nth(w.apis, k, NoApi)
  <2>1. k \in Apis /\ Stored(nets, r) = e
    BY <1>1, <1>8 DEF Apis, Stored
  <2>2. p.apis[n][k].id = e.id
    <3>1. RowAt(p, r) = p.apis[n][k]
      BY <1>8 DEF RowAt, RowOf
    <3> QED
      BY <2>1, <3>1, RenderShows
  <2>3. OldAt(p, r) = Match(e.id, w.apis, NoApi)
    BY <1>6, <1>8, <2>2 DEF OldAt, Old, OldApi
  <2>4. CASE k \in DOMAIN w.apis
    <3>1. w # NoNet
      BY <2>4, NoEntry
    <3>2. n \in DOMAIN nets /\ w = nets[n]
      BY <3>1 DEF Nth
    <3>3. \A j \in DOMAIN w.apis : <<n, j>> \in Places(nets) /\ At(nets, <<n, j>>) = w.apis[j]
      BY <1>1, <1>2, <3>2 DEF Places, At
    <3>4. e = w.apis[k] /\ e.id # 0
      BY <1>4, <2>4, <3>3 DEF Nth
    <3>5. PICK j \in DOMAIN w.apis : w.apis[j].id = e.id /\ Match(e.id, w.apis, NoApi) = w.apis[j]
      <4> HIDE DEF e, w
      <4> QED
        BY <2>4, <3>4, MatchFinds
    <3>6. <<n, j>> = <<n, k>>
      <4>1. <<n, j>> \in Places(nets) /\ <<n, k>> \in Places(nets)
            /\ At(nets, <<n, j>>).id = At(nets, <<n, k>>).id
        BY <2>4, <3>3, <3>4, <3>5
      <4> QED
        BY <1>3, <4>1
    <3> QED
      BY <2>1, <2>3, <3>4, <3>5, <3>6
  <2>5. CASE k \notin DOMAIN w.apis
    <3>1. e = NoApi /\ e.id = 0
      BY <2>5, NoEntry DEF Nth
    <3> QED
      BY <2>1, <2>3, <3>1, MatchFinds
  <2> QED
    BY <2>4, <2>5
<1> QED
  BY <1>7, <1>8

-----------------------------------------------------------------------------
(* Edits                                                                    *)

\* What a save of a page would find for a row among the entries ws.
Found(ws, p, r) ==
    LET w == Match(p.nets[r[1]].id, ws, NoNet)
    IN IF r[2] = 0 THEN w ELSE Match(p.apis[r[1]][r[2]].id, w.apis, NoApi)

LEMMA OldIsFound == ASSUME NEW p, NEW r PROVE OldAt(p, r) = Found(nets, p, r)
BY DEF OldAt, Old, OldNet, OldApi, Found

\* A row shows the entry that a save finds for it, but for what was typed.
FreshRow(ws, p, r) ==
    LET row == RowAt(p, r)
        e == Found(ws, p, r)
    IN /\ e.id = row.id
       /\ row.kept <=> e.secret # None
       /\ row.typed \in {None, row.name}
       /\ row.typed = None /\ row.id # 0 => row.name = e.name

Fresh(ws, p) == \A r \in Rows : FreshRow(ws, p, r)

LEMMA RenderFresh ==
    ASSUME Fits(nets), DistinctIds(nets), NEW s
    PROVE  Fresh(nets, Render(nets, s))
<1> SUFFICES ASSUME NEW r \in Rows PROVE FreshRow(nets, Render(nets, s), r)
  BY DEF Fresh
<1> DEFINE row == RowAt(Render(nets, s), r)
           e == Stored(nets, r)
<1>1. row.id = e.id /\ row.name = e.name /\ row.typed = None /\ row.kept = (e.secret # None)
  BY RenderShows, Zenon
<1>2. Found(nets, Render(nets, s), r) = e
  BY RenderMatches, OldIsFound, Zenon
<1> QED
  BY <1>1, <1>2 DEF FreshRow

\* What remains a page when it is edited.
LEMMA PageEdits ==
    ASSUME NEW p \in Page, NEW n \in Nets
    PROVE  /\ \A s \in Settings : [p EXCEPT !.settings = s] \in Page
           /\ \A x \in Row : [p EXCEPT !.nets[n] = x] \in Page
           /\ \A y \in [Apis -> Row] : [p EXCEPT !.apis[n] = y] \in Page
           /\ \A k \in Apis, x \in Row : [p EXCEPT !.apis[n][k] = x] \in Page
<1>1. ASSUME NEW s \in Settings PROVE [p EXCEPT !.settings = s] \in Page
  BY DEF Page
<1>2. ASSUME NEW x \in Row PROVE [p EXCEPT !.nets[n] = x] \in Page
  BY DEF Page
<1>3. ASSUME NEW y \in [Apis -> Row] PROVE [p EXCEPT !.apis[n] = y] \in Page
  BY DEF Page
<1>4. ASSUME NEW k \in Apis, NEW x \in Row PROVE [p EXCEPT !.apis[n][k] = x] \in Page
  <2>1. p.apis \in [Nets -> [Apis -> Row]]
    BY DEF Page
  <2>2. p.apis[n] \in [Apis -> Row]
    BY <2>1
  <2>3. [p.apis[n] EXCEPT ![k] = x] \in [Apis -> Row]
    BY <2>2
  <2>4. [p EXCEPT !.apis[n] = [p.apis[n] EXCEPT ![k] = x]] \in Page
    BY <1>3, <2>3
  <2> QED
    BY <2>4
<1> QED
  BY <1>1, <1>2, <1>3, <1>4

\* One row is changed, and keeps its id.
LEMMA EditedRow ==
    ASSUME NEW p \in Page, NEW n \in Nets, NEW k \in 0 .. MaxApis, NEW x \in Row,
           x.id = RowOf(p, n, k).id, NEW q,
           q = IF k = 0 THEN [p EXCEPT !.nets[n] = x] ELSE [p EXCEPT !.apis[n][k] = x]
    PROVE  /\ q \in Page
           /\ \A r \in Rows : RowAt(q, r) = IF r = <<n, k>> THEN x ELSE RowAt(p, r)
           /\ \A ws : \A r \in Rows : Found(ws, q, r) = Found(ws, p, r)
<1>1. p.nets \in [Nets -> Row] /\ p.apis \in [Nets -> [Apis -> Row]]
  BY DEF Page
<1>2. k # 0 => k \in Apis
  BY SizeAssumption DEF Apis
<1>3. \A r \in Rows : r[1] \in Nets /\ r = <<r[1], r[2]>> /\ (r[2] # 0 => r[2] \in Apis)
  BY SizeAssumption DEF Rows, Apis
<1>4. CASE k = 0
  <2>1. q = [p EXCEPT !.nets[n] = x]
    BY <1>4
  <2>2. q \in Page /\ q.nets = [p.nets EXCEPT ![n] = x] /\ q.apis = p.apis
    BY <2>1 DEF Page
  <2>3. ASSUME NEW r \in Rows PROVE RowAt(q, r) = IF r = <<n, k>> THEN x ELSE RowAt(p, r)
    BY <1>1, <1>3, <1>4, <2>2 DEF RowAt, RowOf
  <2>4. \A m \in Nets : q.nets[m].id = p.nets[m].id
    BY <1>1, <1>4, <2>2 DEF RowOf
  <2>5. ASSUME NEW ws, NEW r \in Rows PROVE Found(ws, q, r) = Found(ws, p, r)
    BY <1>3, <2>2, <2>4 DEF Found
  <2> QED
    BY <2>2, <2>3, <2>5
<1>5. CASE k # 0
  <2>1. q = [p EXCEPT !.apis[n][k] = x]
    BY <1>5
  <2>2. q.nets = p.nets /\ q.apis = [p.apis EXCEPT ![n] = [p.apis[n] EXCEPT ![k] = x]]
    BY <2>1 DEF Page
  <2>3. q \in Page
    <3>1. k \in Apis
      BY <1>2, <1>5
    <3> QED
      BY <2>1, <3>1, PageEdits
  <2>4. \A m \in Nets, j \in Apis : q.apis[m][j] = IF m = n /\ j = k THEN x ELSE p.apis[m][j]
    BY <1>1, <2>2
  <2>5. ASSUME NEW r \in Rows PROVE RowAt(q, r) = IF r = <<n, k>> THEN x ELSE RowAt(p, r)
    BY <1>3, <1>5, <2>2, <2>4 DEF RowAt, RowOf
  <2>6. \A m \in Nets, j \in Apis : q.apis[m][j].id = p.apis[m][j].id
    BY <1>5, <2>4 DEF RowOf
  <2>7. ASSUME NEW ws, NEW r \in Rows PROVE Found(ws, q, r) = Found(ws, p, r)
    BY <1>3, <2>2, <2>6 DEF Found
  <2> QED
    BY <2>3, <2>5, <2>7
<1> QED
  BY <1>4, <1>5

\* Two rows of a network change places.
Swapped(n, k, j, r) == IF r = <<n, k>> THEN <<n, j>> ELSE IF r = <<n, j>> THEN <<n, k>> ELSE r

LEMMA SwappedRows ==
    ASSUME NEW p \in Page, NEW n \in Nets, NEW k \in Apis, NEW j \in Apis, NEW q,
           q = [p EXCEPT !.apis[n] = [p.apis[n] EXCEPT ![k] = p.apis[n][j], ![j] = p.apis[n][k]]]
    PROVE  /\ q \in Page
           /\ \A r \in Rows : /\ Swapped(n, k, j, r) \in Rows
                              /\ RowAt(q, r) = RowAt(p, Swapped(n, k, j, r))
                              /\ \A ws : Found(ws, q, r) = Found(ws, p, Swapped(n, k, j, r))
<1>1. p.nets \in [Nets -> Row] /\ p.apis \in [Nets -> [Apis -> Row]]
  BY DEF Page
<1>2. k # 0 /\ j # 0 /\ k \in 0 .. MaxApis /\ j \in 0 .. MaxApis
  BY SizeAssumption DEF Apis
<1>3. \A r \in Rows : r[1] \in Nets /\ r = <<r[1], r[2]>> /\ (r[2] # 0 => r[2] \in Apis)
  BY SizeAssumption DEF Rows, Apis
<1> DEFINE rows == [p.apis[n] EXCEPT ![k] = p.apis[n][j], ![j] = p.apis[n][k]]
<1>4. q = [p EXCEPT !.apis[n] = rows]
  OBVIOUS
<1>5. /\ rows \in [Apis -> Row]
      /\ \A i \in Apis : rows[i] = p.apis[n][IF i = k THEN j ELSE IF i = j THEN k ELSE i]
  <2>1. p.apis[n] \in [Apis -> Row]
    BY <1>1
  <2> QED
    BY <2>1
<1> HIDE DEF rows
<1>6. q.nets = p.nets /\ q.apis = [p.apis EXCEPT ![n] = rows] /\ q \in Page
  <2>1. q.nets = p.nets /\ q.apis = [p.apis EXCEPT ![n] = rows]
    BY <1>4 DEF Page
  <2>2. q \in Page
    BY <1>4, <1>5, PageEdits
  <2> QED
    BY <2>1, <2>2
<1>7. \A m \in Nets, i \in Apis :
          q.apis[m][i] = p.apis[m][IF m = n /\ i = k THEN j ELSE IF m = n /\ i = j THEN k ELSE i]
  BY <1>1, <1>5, <1>6
<1>8. ASSUME NEW r \in Rows
      PROVE  /\ Swapped(n, k, j, r) \in Rows
             /\ RowAt(q, r) = RowAt(p, Swapped(n, k, j, r))
             /\ \A ws : Found(ws, q, r) = Found(ws, p, Swapped(n, k, j, r))
  <2> DEFINE z == Swapped(n, k, j, r)
  <2>1. r[1] \in Nets /\ r = <<r[1], r[2]>> /\ (r[2] # 0 => r[2] \in Apis)
    BY <1>3
  <2>2. z \in Rows /\ z[1] = r[1] /\ (z[2] = 0 <=> r[2] = 0)
    BY <1>2, <2>1 DEF Rows, Swapped
  <2>3. r[2] # 0 => q.apis[r[1]][r[2]] = p.apis[z[1]][z[2]]
    <3>1. r[2] # 0 => z[2] = IF r[1] = n /\ r[2] = k THEN j ELSE IF r[1] = n /\ r[2] = j THEN k ELSE r[2]
      BY <2>1 DEF Swapped
    <3> QED
      BY <1>7, <2>1, <2>2, <3>1
  <2> HIDE DEF z
  <2>4. RowAt(q, r) = RowAt(p, z) /\ \A ws : Found(ws, q, r) = Found(ws, p, z)
    BY <1>6, <2>2, <2>3 DEF RowAt, RowOf, Found
  <2> QED
    BY <2>2, <2>4 DEF z
<1> QED
  BY <1>6, <1>8

LEMMA EditedShows ==
    ASSUME NEW p \in Page, NEW n \in Nets, NEW k \in 0 .. MaxApis, NEW x \in Row,
           x.id = RowOf(p, n, k).id, NEW q,
           q = IF k = 0 THEN [p EXCEPT !.nets[n] = x] ELSE [p EXCEPT !.apis[n][k] = x]
    PROVE  /\ PageIds(p) => PageIds(q)
           /\ \A ws : /\ Fresh(ws, p) /\ x.kept = RowOf(p, n, k).kept /\ x.typed \in {None, x.name}
                      /\ \/ x.name = RowOf(p, n, k).name /\ x.typed = RowOf(p, n, k).typed
                         \/ x.typed # None \/ x.id = 0
                      => Fresh(ws, q)
<1>1. <<n, k>> \in Rows /\ RowAt(p, <<n, k>>) = RowOf(p, n, k)
  BY DEF Rows, RowAt
<1>2. \A r \in Rows : RowAt(q, r) = IF r = <<n, k>> THEN x ELSE RowAt(p, r)
  BY EditedRow
<1>3. \A ws : \A r \in Rows : Found(ws, q, r) = Found(ws, p, r)
  BY EditedRow
<1>4. \A r \in Rows : RowAt(q, r).id = RowAt(p, r).id
  BY <1>1, <1>2
<1>5. PageIds(p) => PageIds(q)
  BY <1>4 DEF PageIds
<1>6. ASSUME NEW ws, Fresh(ws, p), x.kept = RowOf(p, n, k).kept, x.typed \in {None, x.name},
             \/ x.name = RowOf(p, n, k).name /\ x.typed = RowOf(p, n, k).typed
             \/ x.typed # None \/ x.id = 0
      PROVE  Fresh(ws, q)
  <2> SUFFICES ASSUME NEW r \in Rows PROVE FreshRow(ws, q, r)
    BY DEF Fresh
  <2>1. FreshRow(ws, p, r)
    BY <1>6 DEF Fresh
  <2>2. CASE r = <<n, k>>
    <3>1. RowAt(q, r) = x /\ RowAt(p, r) = RowOf(p, n, k) /\ Found(ws, q, r) = Found(ws, p, r)
      BY <1>1, <1>2, <1>3, <2>2
    <3> QED
      BY <1>6, <2>1, <3>1 DEF FreshRow
  <2>3. CASE r # <<n, k>>
    <3>1. RowAt(q, r) = RowAt(p, r) /\ Found(ws, q, r) = Found(ws, p, r)
      BY <1>2, <1>3, <2>3
    <3> QED
      BY <2>1, <3>1 DEF FreshRow
  <2> QED
    BY <2>2, <2>3
<1> QED
  BY <1>5, <1>6

LEMMA SwappedShows ==
    ASSUME NEW p \in Page, NEW n \in Nets, NEW k \in Apis, NEW j \in Apis, NEW q,
           q = [p EXCEPT !.apis[n] = [p.apis[n] EXCEPT ![k] = p.apis[n][j], ![j] = p.apis[n][k]]]
    PROVE  (PageIds(p) => PageIds(q)) /\ \A ws : Fresh(ws, p) => Fresh(ws, q)
<1> DEFINE z(r) == Swapped(n, k, j, r)
<1>1. \A r \in Rows : z(r) \in Rows /\ RowAt(q, r) = RowAt(p, z(r)) /\ \A ws : Found(ws, q, r) = Found(ws, p, z(r))
  BY SwappedRows
<1>2. \A r, s \in Rows : z(r) = z(s) => r = s
  BY DEF Swapped
<1> HIDE DEF z
<1>3. PageIds(p) => PageIds(q)
  BY <1>1, <1>2 DEF PageIds
<1>4. ASSUME NEW ws, Fresh(ws, p) PROVE Fresh(ws, q)
  <2> SUFFICES ASSUME NEW r \in Rows PROVE FreshRow(ws, q, r)
    BY DEF Fresh
  <2>1. FreshRow(ws, p, z(r)) /\ RowAt(q, r) = RowAt(p, z(r)) /\ Found(ws, q, r) = Found(ws, p, z(r))
    BY <1>1, <1>4 DEF Fresh
  <2> QED
    BY <2>1 DEF FreshRow
<1> QED
  BY <1>3, <1>4

\* Nothing of what was typed gets lost or goes elsewhere.
LEMMA AppliedOwn ==
    ASSUME NEW p \in Page, Fits(nets), Fresh(nets, p), OwnSecrets(nets)
    PROVE  OwnSecrets(Applied(p))
<1> SUFFICES ASSUME NEW q \in Places(Applied(p))
             PROVE  At(Applied(p), q).secret \in {At(Applied(p), q).name, None}
  BY AppliedShaped, EntriesByPlace DEF OwnSecrets
<1> DEFINE r == RowFor(p, q)
           row == RowAt(p, r)
           e == OldAt(p, r)
<1>1. r \in Rows /\ At(Applied(p), q).name = row.name /\ At(Applied(p), q).secret = SecretAt(p, r)
  BY AppliedByPlace
<1>2. SecretAt(p, r) = IF row.typed # None THEN row.typed ELSE IF row.clear THEN None ELSE e.secret
  BY DEF SecretAt, SecretOf, RowAt, OldAt
<1>3. /\ e.id = row.id /\ row.typed \in {None, row.name}
      /\ row.typed = None /\ row.id # 0 => row.name = e.name
  <2>1. FreshRow(nets, p, r) /\ OldAt(p, r) = Found(nets, p, r)
    BY <1>1, OldIsFound, Zenon DEF Fresh
  <2> QED
    BY <2>1 DEF FreshRow
<1>4. e.secret \in {e.name, None} \/ (e.id = 0 /\ e.secret = None)
  <2>1. \A y \in Places(nets) : At(nets, y).secret \in {At(nets, y).name, None}
    BY FitsIsShaped, EntriesByPlace DEF OwnSecrets
  <2> QED
    BY <1>1, <2>1, OldIsStored
<1>5. e.id = 0 => e.secret = None
  <2>1. \A y \in Places(nets) : At(nets, y).id # 0
    BY FitsIsShaped, PlaceTypes
  <2> QED
    BY <1>1, <2>1, OldIsStored
<1> HIDE DEF r, row, e
<1> QED
  BY <1>1, <1>2, <1>3, <1>4, <1>5

-----------------------------------------------------------------------------
(* The invariant                                                            *)

\* Tabs the user does not use stay closed.
OnlyTheirTabs == \A t \in Tab \ user.tabs : ~page[t].open

\* What every page shows, and what that of a careful user does.
PagesTrue ==
    /\ \A t \in Tab : page[t].open => PageIds(page[t])
    /\ Careful => OwnSecrets(nets) /\ \A t \in Tab : page[t].open => Fresh(nets, page[t])

FormInv == FormTypeOK /\ user \in Users /\ DistinctIds(nets) /\ OnlyTheirTabs /\ PagesTrue

LEMMA OpenPages ==
    ASSUME FormTypeOK, NEW t \in Tab
    PROVE  /\ page[t].open => page[t] \in Page
           /\ page[t] \in Page => page[t].open
           /\ ~Closed.open
<1>1. page[t] \in Page \/ page[t] = Closed
  BY DEF FormTypeOK
<1>2. ~Closed.open
  BY DEF Closed
<1>3. \A p \in Page : p.open
  BY DEF Page
<1> QED
  BY <1>1, <1>2, <1>3

LEMMA InitForm == ASSUME FormInit PROVE FormInv
<1>1. settings \in Settings /\ RefreshValid(settings)
  BY DEF FormInit, Settings, RefreshValid
<1>2. page \in [Tab -> Page \union {Closed}] /\ \A t \in Tab : ~page[t].open
  BY DEF FormInit, Closed
<1>3. Fits(nets) /\ DistinctIds(nets) /\ OwnSecrets(nets) /\ user.edits \in Nat
  BY UserAssumption DEF FormInit
<1>4. edits \in 0 .. user.edits /\ saves \in 0 .. MaxSaves
  BY <1>3, BoundAssumption DEF FormInit
<1> QED
  BY <1>1, <1>2, <1>3, <1>4 DEF FormInit, FormInv, FormTypeOK, OnlyTheirTabs, PagesTrue

\* A step that changes one page only.
LEMMA PageStep ==
    ASSUME FormInv, NEW t \in user.tabs,
           page' = [page EXCEPT ![t] = page'[t]],
           \/ page'[t] = Closed
           \/ page'[t] \in Page /\ PageIds(page'[t]) /\ (Careful => Fresh(nets, page'[t])),
           edits' \in 0 .. user.edits, UNCHANGED <<nets, settings, saves, user>>
    PROVE  FormInv'
<1>1. t \in Tab
  BY UserAssumption DEF FormInv
<1>2. \A s \in Tab : s # t => page'[s] = page[s]
  BY <1>1 DEF FormInv, FormTypeOK
<1>3. page' \in [Tab -> Page \union {Closed}]
  <2>1. page \in [Tab -> Page \union {Closed}] /\ page'[t] \in Page \union {Closed}
    BY DEF FormInv, FormTypeOK
  <2>2. [page EXCEPT ![t] = page'[t]] \in [Tab -> Page \union {Closed}]
    BY <2>1
  <2> QED
    BY <2>2
<1>4. FormTypeOK'
  BY <1>3 DEF FormInv, FormTypeOK
<1>5. OnlyTheirTabs'
  BY <1>2 DEF FormInv, OnlyTheirTabs
<1>6. ~Closed.open
  BY DEF Closed
<1>7. PagesTrue'
  <2>1. Careful' = Careful
    BY DEF Careful
  <2>2. ASSUME NEW s \in Tab, page'[s].open
        PROVE  PageIds(page'[s]) /\ (Careful => Fresh(nets, page'[s]))
    <3>1. CASE s = t
      BY <1>6, <2>2, <3>1
    <3>2. CASE s # t
      BY <1>2, <2>2, <3>2 DEF FormInv, PagesTrue
    <3> QED
      BY <3>1, <3>2
  <2>3. Careful => OwnSecrets(nets)
    BY DEF FormInv, PagesTrue
  <2> QED
    BY <2>1, <2>2, <2>3 DEF PagesTrue
<1> QED
  BY <1>4, <1>5, <1>7 DEF FormInv

-----------------------------------------------------------------------------
(* One lemma per action                                                     *)

LEMMA UserTypes ==
    ASSUME FormInv
    PROVE  /\ user.tabs \subseteq Tab /\ user.names \subseteq Name /\ user.panels \subseteq Settings
           /\ user.edits \in Nat /\ Fits(nets) /\ settings \in Settings /\ RefreshValid(settings)
           /\ None \notin Name
BY NameAssumption, UserAssumption DEF FormInv, FormTypeOK

LEMMA OpenForm ==
    ASSUME FormInv, NEW t \in user.tabs, Open(t)
    PROVE  FormInv'
<1>1. t \in Tab /\ Fits(nets) /\ settings \in Settings /\ DistinctIds(nets)
  BY UserTypes DEF FormInv
<1>2. page'[t] = Render(nets, settings)
  BY <1>1 DEF Open, FormInv, FormTypeOK
<1>3. Render(nets, settings) \in Page /\ PageIds(Render(nets, settings))
  BY <1>1, FitsIsShaped, RenderType, RenderIds
<1>4. Fresh(nets, Render(nets, settings))
  BY <1>1, RenderFresh
<1>5. edits' \in 0 .. user.edits /\ page' = [page EXCEPT ![t] = page'[t]]
      /\ UNCHANGED <<nets, settings, saves, user>>
  BY <1>2 DEF Open, FormInv, FormTypeOK
<1> QED
  BY <1>2, <1>3, <1>4, <1>5, PageStep

\* An edit keeps what a page shows, if its new page does.
LEMMA EditForm ==
    ASSUME FormInv, NEW t \in user.tabs, page[t].open, NEW q, Edit(t, q),
           q \in Page, PageIds(page[t]) => PageIds(q),
           Fresh(nets, page[t]) => Fresh(nets, q)
    PROVE  FormInv'
<1>1. t \in Tab /\ user.edits \in Nat
  BY UserTypes
<1>2. page'[t] = q /\ page' = [page EXCEPT ![t] = page'[t]]
  BY <1>1 DEF Edit, FormInv, FormTypeOK
<1>3. edits' \in 0 .. user.edits /\ UNCHANGED <<nets, settings, saves, user>>
  BY <1>1 DEF Edit, FormInv, FormTypeOK
<1>4. PageIds(q) /\ (Careful => Fresh(nets, q))
  BY <1>1 DEF FormInv, PagesTrue
<1> QED
  BY <1>2, <1>3, <1>4, PageStep

\* An edit of one row.
LEMMA EditRowForm ==
    ASSUME FormInv, NEW t \in user.tabs, page[t].open,
           NEW n \in Nets, NEW k \in 0 .. MaxApis, NEW x \in Row, EditRow(t, n, k, x),
           x.id = RowOf(page[t], n, k).id, x.kept = RowOf(page[t], n, k).kept,
           Fresh(nets, page[t]) =>
              /\ x.typed \in {None, x.name}
              /\ \/ x.name = RowOf(page[t], n, k).name /\ x.typed = RowOf(page[t], n, k).typed
                 \/ x.typed # None \/ x.id = 0
    PROVE  FormInv'
<1> DEFINE p == page[t]
           q == IF k = 0 THEN [p EXCEPT !.nets[n] = x] ELSE [p EXCEPT !.apis[n][k] = x]
<1>1. t \in Tab /\ p \in Page
  BY UserTypes, OpenPages DEF FormInv
<1>2. Edit(t, q)
  BY DEF EditRow
<1>3. /\ q \in Page /\ (PageIds(p) => PageIds(q))
      /\ Fresh(nets, p) => Fresh(nets, q)
  <2> HIDE DEF p
  <2>1. x.id = RowOf(p, n, k).id
    BY DEF p
  <2>2. q \in Page
    BY <1>1, <2>1, EditedRow
  <2>3. /\ PageIds(p) => PageIds(q)
        /\ \A ws : /\ Fresh(ws, p) /\ x.kept = RowOf(p, n, k).kept /\ x.typed \in {None, x.name}
                   /\ \/ x.name = RowOf(p, n, k).name /\ x.typed = RowOf(p, n, k).typed
                      \/ x.typed # None \/ x.id = 0
                   => Fresh(ws, q)
    BY <1>1, <2>1, EditedShows
  <2> HIDE DEF q
  <2> QED
    BY <2>2, <2>3 DEF p
<1> HIDE DEF q
<1> QED
  BY <1>2, <1>3, EditForm

\* What the row is that an action edits.
LEMMA EditedIs ==
    ASSUME FormInv, NEW t \in user.tabs, page[t].open, NEW n \in Nets, NEW k \in 0 .. MaxApis
    PROVE  /\ t \in Tab /\ page[t] \in Page /\ RowOf(page[t], n, k) \in Row
           /\ Fresh(nets, page[t]) => RowOf(page[t], n, k).typed \in {None, RowOf(page[t], n, k).name}
<1>1. t \in Tab /\ page[t] \in Page
  BY UserTypes, OpenPages DEF FormInv
<1>2. <<n, k>> \in Rows /\ RowAt(page[t], <<n, k>>) = RowOf(page[t], n, k)
  BY DEF Rows, RowAt
<1>3. RowAt(page[t], <<n, k>>) \in Row
  BY <1>1, <1>2, RowTypes
<1>4. Fresh(nets, page[t]) => FreshRow(nets, page[t], <<n, k>>)
  BY <1>2 DEF Fresh
<1> QED
  BY <1>1, <1>2, <1>3, <1>4 DEF FreshRow

LEMMA ToggleForm ==
    ASSUME FormInv, NEW t \in user.tabs, page[t].open,
           NEW n \in Nets, NEW k \in 0 .. MaxApis, Toggle(t, n, k)
    PROVE  FormInv'
<1> DEFINE r == RowOf(page[t], n, k)
           x == [r EXCEPT !.on = ~@]
<1>1. r \in Row /\ (Fresh(nets, page[t]) => r.typed \in {None, r.name})
  BY EditedIs
<1>2. EditRow(t, n, k, x)
  BY DEF Toggle
<1> HIDE DEF r
<1>3. x \in Row /\ x.id = r.id /\ x.kept = r.kept /\ x.typed = r.typed /\ x.name = r.name
  BY <1>1 DEF Row
<1> HIDE DEF x
<1> QED
  BY <1>1, <1>2, <1>3, EditRowForm DEF r

LEMMA TypeForm ==
    ASSUME FormInv, NEW t \in user.tabs, page[t].open,
           NEW n \in Nets, NEW k \in 0 .. MaxApis, NEW name \in user.names, NEW withSecret \in BOOLEAN,
           Type(t, n, k, name, withSecret)
    PROVE  FormInv'
<1> DEFINE r == RowOf(page[t], n, k)
           x == [r EXCEPT !.name = name, !.clear = FALSE, !.typed = IF withSecret THEN name ELSE None]
<1>1. r \in Row /\ name \in Name /\ name # None
  BY EditedIs, UserTypes
<1>2. EditRow(t, n, k, x) /\ (~withSecret => r.id = 0)
  BY DEF Type
<1> HIDE DEF r
<1>3. /\ x \in Row /\ x.id = r.id /\ x.kept = r.kept /\ x.name = name
      /\ x.typed = IF withSecret THEN name ELSE None
  BY <1>1 DEF Row
<1> HIDE DEF x
<1>4. x.typed \in {None, x.name} /\ (x.typed # None \/ x.id = 0)
  BY <1>1, <1>2, <1>3
<1> QED
  BY <1>2, <1>3, <1>4, EditRowForm DEF r

LEMMA ClearForm ==
    ASSUME FormInv, NEW t \in user.tabs, page[t].open,
           NEW n \in Nets, NEW k \in 0 .. MaxApis, ClearSecret(t, n, k)
    PROVE  FormInv'
<1> DEFINE r == RowOf(page[t], n, k)
           x == [r EXCEPT !.clear = ~@]
<1>1. r \in Row /\ (Fresh(nets, page[t]) => r.typed \in {None, r.name})
  BY EditedIs
<1>2. EditRow(t, n, k, x)
  BY DEF ClearSecret
<1> HIDE DEF r
<1>3. x \in Row /\ x.id = r.id /\ x.kept = r.kept /\ x.typed = r.typed /\ x.name = r.name
  BY <1>1 DEF Row
<1> HIDE DEF x
<1> QED
  BY <1>1, <1>2, <1>3, EditRowForm DEF r

LEMMA MoveForm ==
    ASSUME FormInv, NEW t \in user.tabs, page[t].open,
           NEW n \in Nets, NEW k \in 1 .. MaxApis, MoveUp(t, n, k)
    PROVE  FormInv'
<1> DEFINE p == page[t]
           above == {j \in Apis : j < k /\ p.apis[n][j].on}
           j == Max(above)
           q == [p EXCEPT !.apis[n] = [p.apis[n] EXCEPT ![k] = p.apis[n][j], ![j] = p.apis[n][k]]]
<1>1. p \in Page /\ k \in Apis
  BY UserTypes, OpenPages DEF FormInv, Apis
<1>2. Edit(t, q) /\ above # {}
  BY DEF MoveUp
<1>3. j \in Apis
  <2>1. above \in SUBSET Apis /\ Apis \in SUBSET Nat
    BY DEF Apis
  <2>2. IsFiniteSet(Apis)
    <3>1. MaxApis \in Int
      BY SizeAssumption
    <3> QED
      BY <3>1, FS_Interval DEF Apis
  <2> HIDE DEF above
  <2>3. IsFiniteSet(above) /\ above \in SUBSET Nat
    BY <2>1, <2>2, FS_Subset
  <2>4. Max(above) \in above
    BY <1>2, <2>3, MaxIsLargest
  <2> QED
    BY <2>1, <2>4
<1> HIDE DEF p, j
<1>4. q \in Page
  BY <1>1, <1>3, SwappedRows
<1>5. (PageIds(p) => PageIds(q)) /\ \A ws : Fresh(ws, p) => Fresh(ws, q)
  BY <1>1, <1>3, SwappedShows
<1> HIDE DEF q
<1> QED
  BY <1>2, <1>4, <1>5, EditForm DEF p

LEMMA ChooseForm ==
    ASSUME FormInv, NEW t \in user.tabs, page[t].open, NEW s \in user.panels, Choose(t, s)
    PROVE  FormInv'
<1> DEFINE p == page[t]
           q == [p EXCEPT !.settings = s]
<1>1. p \in Page /\ s \in Settings
  BY UserTypes, OpenPages DEF FormInv
<1>2. Edit(t, q)
  BY DEF Choose
<1> HIDE DEF p
<1>3. q \in Page /\ q.nets = p.nets /\ q.apis = p.apis
  <2>1. q.nets = p.nets /\ q.apis = p.apis
    BY <1>1 DEF Page
  <2>2. q \in Page
    BY <1>1 DEF Page
  <2> QED
    BY <2>1, <2>2
<1> HIDE DEF q
<1>4. \A r : RowAt(q, r) = RowAt(p, r) /\ \A ws : Found(ws, q, r) = Found(ws, p, r)
  BY <1>3 DEF RowAt, RowOf, Found
<1>5. PageIds(p) => PageIds(q)
  BY <1>4 DEF PageIds
<1>6. Fresh(nets, p) => Fresh(nets, q)
  BY <1>4 DEF Fresh, FreshRow
<1> QED
  BY <1>2, <1>3, <1>5, <1>6, EditForm DEF p

\* What a save does to the settings: nothing, if the form was valid.
LEMMA SettingsStay ==
    ASSUME NEW p, Valid(p)
    PROVE  RefreshValid(p.settings) /\ Clamped(AppliedSettings(p.settings)) = p.settings
BY DEF Valid, RefreshAccepted, AppliedSettings, Clamped

LEMMA AcceptForm ==
    ASSUME FormInv, NEW t \in user.tabs, page[t].open, Accept(t)
    PROVE  FormInv'
<1> DEFINE p == page[t]
<1>1. t \in Tab /\ p \in Page /\ Fits(nets) /\ user.edits \in Nat /\ MaxSaves \in Nat
  BY UserTypes, OpenPages, BoundAssumption DEF FormInv
<1>2. Valid(p) /\ PageIds(p) /\ (Careful => Fresh(nets, p) /\ OwnSecrets(nets))
  BY <1>1 DEF Accept, FormInv, PagesTrue
<1>3. nets' = Applied(p) /\ settings' = Clamped(AppliedSettings(p.settings))
      /\ page' = [page EXCEPT ![t] = Closed] /\ saves' = saves + 1 /\ saves < MaxSaves
      /\ edits' = 0 /\ user' = user
  BY DEF Accept
<1> HIDE DEF p
<1>4. Fits(nets') /\ DistinctIds(nets') /\ (Careful => OwnSecrets(nets'))
  BY <1>1, <1>2, <1>3, AppliedFits, AppliedDistinct, AppliedOwn
<1>5. settings' \in Settings /\ RefreshValid(settings')
  <2>1. settings' = p.settings /\ RefreshValid(p.settings)
    BY <1>2, <1>3, SettingsStay
  <2> QED
    BY <1>1, <2>1, RowTypes
<1>6. page' \in [Tab -> Page \union {Closed}] /\ \A s \in Tab : page'[s] = IF s = t THEN Closed ELSE page[s]
  BY <1>1, <1>3 DEF FormInv, FormTypeOK
<1>7. edits' \in 0 .. user'.edits /\ saves' \in 0 .. MaxSaves
  BY <1>1, <1>3 DEF FormInv, FormTypeOK
<1>8. ~Closed.open
  BY DEF Closed
<1>9. OnlyTheirTabs'
  BY <1>3, <1>6, <1>8 DEF FormInv, OnlyTheirTabs
<1>10. PagesTrue'
  <2>1. Careful' = Careful
    BY <1>3 DEF Careful
  <2>2. \A s \in Tab : page'[s].open => s # t /\ page'[s] = page[s]
    BY <1>6, <1>8
  <2>3. ASSUME NEW s \in Tab, page'[s].open, Careful PROVE FALSE
    <3>1. s # t /\ page[s].open
      BY <2>2, <2>3
    <3>2. s \in user.tabs
      BY <3>1 DEF FormInv, OnlyTheirTabs
    <3> QED
      BY <2>3, <3>1, <3>2 DEF Careful
  <2>4. \A s \in Tab : page'[s].open => PageIds(page'[s])
    BY <2>2 DEF FormInv, PagesTrue
  <2> QED
    BY <1>4, <2>1, <2>3, <2>4 DEF PagesTrue
<1> QED
  BY <1>3, <1>4, <1>5, <1>6, <1>7, <1>9, <1>10 DEF FormInv, FormTypeOK

LEMMA RefuseForm ==
    ASSUME FormInv, NEW t \in user.tabs, page[t].open, Refuse(t)
    PROVE  FormInv'
<1> DEFINE p == page[t]
           q == Render(Applied(p), AppliedSettings(p.settings))
<1>1. t \in Tab /\ p \in Page /\ Fits(nets) /\ settings \in Settings
  BY UserTypes, OpenPages DEF FormInv
<1>2. PageIds(p)
  BY <1>1 DEF FormInv, PagesTrue
<1>3. page'[t] = (IF user.resubmits THEN q ELSE Closed)
      /\ page' = [page EXCEPT ![t] = page'[t]]
  BY <1>1 DEF Refuse, ErrorPage, FormInv, FormTypeOK
<1>4. edits' \in 0 .. user.edits /\ UNCHANGED <<nets, settings, saves, user>>
  BY DEF Refuse, FormInv, FormTypeOK
<1> HIDE DEF p
<1>5. q \in Page /\ PageIds(q)
  <2>1. Shaped(Applied(p)) /\ DistinctIds(Applied(p))
    BY <1>1, <1>2, AppliedShaped, AppliedDistinct
  <2>2. AppliedSettings(p.settings) \in Settings
    <3>1. p.settings \in Settings
      BY <1>1, RowTypes
    <3> QED
      BY <1>1, <3>1 DEF AppliedSettings, Settings
  <2> QED
    BY <2>1, <2>2, RenderType, RenderIds
<1>6. user.resubmits => ~Careful
  BY DEF Careful
<1> HIDE DEF q
<1> QED
  BY <1>3, <1>4, <1>5, <1>6, PageStep

LEMMA NextForm == ASSUME FormInv, [FormNext]_formVars PROVE FormInv'
<1>1. CASE UNCHANGED formVars
  <2>1. UNCHANGED <<nets, settings, page, edits, saves, user>>
    BY <1>1 DEF formVars
  <2> QED
    BY <2>1 DEF FormInv, FormTypeOK, OnlyTheirTabs, PagesTrue, Careful
<1>2. ASSUME NEW t \in user.tabs, Open(t) \/ (page[t].open /\ Use(t)) PROVE FormInv'
  <2>1. CASE Open(t)
    BY <2>1, OpenForm
  <2>2. ASSUME page[t].open, NEW n \in Nets, NEW k \in 0 .. MaxApis,
               \/ Toggle(t, n, k)
               \/ \E x \in user.names, withSecret \in BOOLEAN : Type(t, n, k, x, withSecret)
               \/ ClearSecret(t, n, k)
               \/ k # 0 /\ MoveUp(t, n, k)
        PROVE  FormInv'
    <3>1. CASE k # 0 /\ MoveUp(t, n, k)
      <4>1. k \in 1 .. MaxApis
        BY <3>1, SizeAssumption
      <4> QED
        BY <2>2, <3>1, <4>1, MoveForm
    <3> QED
      BY <2>2, <3>1, ToggleForm, TypeForm, ClearForm
  <2>3. CASE page[t].open /\ \E s \in user.panels : Choose(t, s)
    BY <2>3, ChooseForm
  <2>4. CASE page[t].open /\ (Accept(t) \/ Refuse(t))
    BY <2>4, AcceptForm, RefuseForm
  <2> QED
    BY <1>2, <2>1, <2>2, <2>3, <2>4 DEF Use
<1> QED
  BY <1>1, <1>2 DEF FormNext

LEMMA AlwaysForm == FormSpec => []FormInv
<1>1. FormInit => FormInv
  BY InitForm
<1>2. FormInv /\ [FormNext]_formVars => FormInv'
  BY NextForm
<1> QED
  BY <1>1, <1>2, PTL DEF FormSpec

-----------------------------------------------------------------------------
(* Theorems                                                                 *)

\* Ids tell entries apart, a careful user's secrets stay where they were typed,
\* and the page says of a secret what a save does with it.
THEOREM FormIsSafe == FormSpec => []FormSafety
<1>1. FormInv => FormSafety
  <2> SUFFICES ASSUME FormInv PROVE FormSafety
    OBVIOUS
  <2>1. KeptMeansKept
    <3> SUFFICES ASSUME NEW t \in Tab, Careful, page[t].open, NEW r \in Enabled(page[t]),
                        RowAt(page[t], r).typed = None, ~RowAt(page[t], r).clear
                 PROVE  RowAt(page[t], r).kept <=> SecretAt(page[t], r) # None
      BY DEF KeptMeansKept, RowAt, SecretAt
    <3>1. page[t] \in Page /\ Fresh(nets, page[t])
      BY OpenPages DEF FormInv, PagesTrue
    <3>2. r \in Rows
      BY <3>1, RowTypes
    <3>3. FreshRow(nets, page[t], r) /\ OldAt(page[t], r) = Found(nets, page[t], r)
      BY <3>1, <3>2, OldIsFound, Zenon DEF Fresh
    <3>4. SecretAt(page[t], r) = OldAt(page[t], r).secret
      BY DEF SecretAt, SecretOf, RowAt, OldAt
    <3> QED
      BY <3>3, <3>4 DEF FreshRow
  <2> QED
    BY <2>1 DEF FormInv, PagesTrue, FormSafety, IdsUnique, SecretsFollowEntries
<1> QED
  BY <1>1, AlwaysForm, PTL
=============================================================================
