---------------------------- MODULE ConfigStore ----------------------------
(***************************************************************************)
(* The persisted device configuration: firmware/main/storage.c.            *)
(*                                                                         *)
(* A configuration is a header (Setting) and up to MaxNets network         *)
(* profiles.  Flash holds one meta blob, two banks per network slot and,   *)
(* on a device upgraded from config version 2-5, one legacy blob.  A save  *)
(* writes every changed profile into the bank its slot does not use and    *)
(* commits the meta blob last; a load follows the meta blob's bank map.    *)
(*                                                                         *)
(* One action is one NVS call with the nvs_commit behind it.  Power can    *)
(* fail and the chip can restart between any two of them, a call can       *)
(* return an error, a read of an intact blob included, and a blob can rot.  *)
(* The main task loads at boot and saves for the BOOT reset gesture, the    *)
(* HTTP server's task loads and saves for the portal; nothing in storage.c  *)
(* keeps them apart.  An instance with Server = Main is one in which their  *)
(* calls never overlap.                                                     *)
(***************************************************************************)
EXTENDS Integers, FiniteSets

CONSTANTS
    MaxNets,         \* MAX_WIFI_NETWORKS
    Profile,         \* contents of a network profile, after normalisation
    Setting,         \* contents of the header, after normalisation
    DefaultSetting,  \* what storage_cfg_v2_defaults puts in the header
    Main, Server,    \* the tasks of app_main and of the HTTP server
    Submitted,       \* configurations the portal form can ask to save
    Absent, Bad,     \* an NVS key that does not exist; a blob its check refuses
    Capacity,        \* NVS entries the partition can hold
    NetCost, MetaCost, LegacyCost, DriverCost, MiscCost, \* entries per key
    Slack,           \* entries the capacity guard keeps in reserve
    MaxFaults        \* bound: blobs that rot and reads of intact blobs that fail

ASSUME SizeAssumption == MaxNets \in Nat \ {0} /\ MaxFaults \in Nat
ASSUME ValueAssumption == DefaultSetting \in Setting /\ Absent # Bad
ASSUME CostAssumption ==
    {Capacity, NetCost, MetaCost, LegacyCost, DriverCost, MiscCost, Slack} \subseteq Nat
\* The static assertion of storage.c on the partition: NVS_MISC_ENTRIES is
\* MiscCost + Slack.
ASSUME BudgetAssumption ==
    2 * MaxNets * NetCost + 2 * MetaCost + MiscCost + Slack <= Capacity

Task == {Main, Server}
Slot == 0 .. MaxNets - 1
Bank == {0, 1}
Count == 0 .. MaxNets
Hint == -1 .. MaxNets - 1

Blob == Profile \cup {Absent, Bad}
Meta == [setting : Setting, count : Count, bank : [Slot -> Bank]]

\* A normalised configuration in RAM: the slots past count, and only they,
\* are zeroed.
Config == {c \in [setting : Setting, count : Count, nets : [Slot -> Profile \cup {Absent}]] :
              \A i \in Slot : c.nets[i] = Absent <=> i >= c.count}
Legacy == [cfg : Config, hint : Hint]

ASSUME SubmittedAssumption == Submitted \subseteq Config
ASSUME KeyAssumption ==
    \A blob \in {Absent, Bad} :
        blob \notin Profile /\ blob \notin Meta /\ blob \notin Legacy /\ blob \notin Config

\* What flash holds for the next load, before the load drops bad slots.
Image == [setting : Setting, count : Count, nets : [Slot -> Blob]]

Defaults == [setting |-> DefaultSetting, count |-> 0, nets |-> [i \in Slot |-> Absent]]

VARIABLES
    net,      \* net[i][b]: the blob of key cfg_net{i}{b}
    meta,     \* the blob of key cfg_meta
    legacy,   \* the blob of key cfg_v2
    driver,   \* the stale nvs.net80211 namespace still occupies entries
    rtc,      \* s_last_success_net, in RTC memory
    noted,    \* history: the profile rtc was recorded for
    missed,   \* history: what a failed read of an intact blob has spoilt
    phase,    \* "boot", "sta" or "portal"
    ram,      \* the configuration app_main joins networks with
    faults    \* how many blobs rotted and how many reads failed so far

VARIABLES
    pc,       \* where each task is in storage.c
    cand,     \* the configuration it loaded or is saving
    hint,     \* that configuration's last_success_network_idx
    prev,     \* the meta blob its save found valid, or Absent
    bank,     \* new_bank: the bank each slot will use
    write,    \* write_slot: the slots that need a write
    pos,      \* loop index
    mig,      \* 0 outside a migration, else which of its saves is running
    before    \* history: what flash held when the save began

hints == <<rtc, noted, missed>>
device == <<phase, ram, faults>>
plan == <<prev, bank, write>>
job == <<cand, hint, mig, before>>
vars == <<net, meta, legacy, driver, hints, device, pc, pos, plan, job>>

Saving == {"erase", "eraseErr", "preflight", "write", "meta", "release", "legacy"}
\* A save that has not switched generations yet.
Started == {"erase", "eraseErr", "preflight", "write", "meta"}
Returned == {"ok", "fail", "nospace", "torn"}

\* "meta": a save took the meta blob for missing and may have touched banks it
\* references.  "ram": app_main works with another configuration than the one in
\* flash.  "hint": rtc was recorded for such a configuration.
Spoilt == {"meta", "ram", "hint"}

PC == {"idle", "drop", "retry", "loaded", "defaults"} \cup Saving \cup Returned

TypeOK ==
    /\ net \in [Slot -> [Bank -> Blob]]
    /\ meta \in Meta \cup {Absent, Bad}
    /\ legacy \in Legacy \cup {Absent, Bad}
    /\ driver \in BOOLEAN
    /\ rtc \in Hint
    /\ noted \in Profile \cup {Absent}
    /\ missed \subseteq Spoilt
    /\ phase \in {"boot", "sta", "portal"}
    /\ ram \in Config
    /\ faults \in 0 .. MaxFaults
    /\ pc \in [Task -> PC]
    /\ cand \in [Task -> Config]
    /\ hint \in [Task -> Hint]
    /\ prev \in [Task -> Meta \cup {Absent}]
    /\ bank \in [Task -> [Slot -> Bank]]
    /\ write \in [Task -> [Slot -> BOOLEAN]]
    /\ pos \in [Task -> 0 .. 2 * MaxNets]
    /\ mig \in [Task -> 0 .. 2]
    /\ before \in [Task -> Image]

-----------------------------------------------------------------------------
(* What a load finds                                                        *)

Generation(m) ==
    [setting |-> m.setting, count |-> m.count,
     nets |-> [i \in Slot |-> IF i < m.count THEN net[i][m.bank[i]] ELSE Absent]]

\* The meta blob is authoritative once it exists; without it the legacy blob is.
Stored ==
    IF meta \in Meta THEN Generation(meta)
    ELSE IF meta = Absent /\ legacy \in Legacy THEN legacy.cfg
    ELSE Defaults

\* Missing and invalid slots are dropped, the others compact down.
Surviving(img) == {i \in Slot : i < img.count /\ img.nets[i] \in Profile}
RankFromOne(S, i) == Cardinality({j \in S : j <= i}) \* mutant
Rank(S, i) == Cardinality({j \in S : j < i})
Compacted(img) ==
    LET kept == Surviving(img)
    IN  [setting |-> img.setting, count |-> Cardinality(kept),
         nets |-> [k \in Slot |->
                     IF \E i \in kept : Rank(kept, i) = k
                     THEN img.nets[CHOOSE i \in kept : Rank(kept, i) = k]
                     ELSE Absent]]

\* A slot was dropped: the slots after it move, and the hint is a bare index.
DroppedUnnoticed(img) == FALSE \* mutant
Dropped(img) == Cardinality(Surviving(img)) # img.count

Clamped(h, c) == IF h >= c.count THEN -1 ELSE h
SetHint(h, p) == rtc' = h /\ noted' = IF h = -1 THEN Absent ELSE p

-----------------------------------------------------------------------------
(* storage_save_v2                                                          *)

SlotLiveByNewCount(t, i) == prev[t] # Absent /\ i < cand[t].count \* mutant
SlotLive(t, i) == prev[t] # Absent /\ i < prev[t].count
ReferencedAnyBank(t, i, b) == SlotLive(t, i) \* mutant
Referenced(t, i, b) == SlotLive(t, i) /\ prev[t].bank[i] = b
Unchanged(t, i) == SlotLive(t, i) /\ net[i][prev[t].bank[i]] = cand[t].nets[i]

\* The meta blob in flash is intact and the save does not know it.
Blind(t) == meta \in Meta /\ prev[t] = Absent

\* The bank a changed profile of a live slot goes to.
SpareIsLive(t, i) == prev[t].bank[i] \* mutant
Spare(t, i) == 1 - prev[t].bank[i]

MetaDiffersCountIgnored(t) == ~(prev[t] # Absent /\ prev[t].setting = cand[t].setting) \* mutant
MetaDiffers(t) ==
    ~ /\ prev[t] # Absent
      /\ prev[t].setting = cand[t].setting
      /\ prev[t].count = cand[t].count

Changed(t) == {i \in Slot : i < cand[t].count /\ ~Unchanged(t, i)}

Used ==
    LET entries(blob, cost) == IF blob = Absent THEN 0 ELSE cost
        nets == {k \in Slot \X Bank : net[k[1]][k[2]] # Absent}
    IN  Cardinality(nets) * NetCost + entries(meta, MetaCost)
        + entries(legacy, LegacyCost) + (IF driver THEN DriverCost ELSE 0) + MiscCost

\* What is to be written: a live bank that cannot be read counts as changed.
Writes(t) == {S \in SUBSET Slot : Changed(t) \subseteq S /\ \A i \in S : i < cand[t].count}

\* The capacity guard would turn a save of these slots away.
Refuses(t, S) ==
    /\ S # {} \/ MetaDiffers(t)
    /\ Capacity - Used < Cardinality(S) * NetCost + MetaCost + Slack

Goto(t, label) == pc' = [pc EXCEPT ![t] = label]

\* A read of an intact blob fails, or none does.
ReadFails(failed) ==
    /\ failed => faults < MaxFaults
    /\ faults' = IF failed THEN faults + 1 ELSE faults
    /\ UNCHANGED <<phase, ram>>

\* Normalise, copy the hint to RTC memory, open the namespace, read the meta.
\* nvs_open and the two allocations can fail once the hint is overwritten.  A
\* meta blob that cannot be read is taken for a missing one.
StartSave(t, c, h, m) ==
    /\ SetHint(Clamped(h, c), IF h = -1 THEN Absent ELSE c.nets[h])
    /\ cand' = [cand EXCEPT ![t] = c]
    /\ hint' = [hint EXCEPT ![t] = Clamped(h, c)]
    /\ mig' = [mig EXCEPT ![t] = m]
    /\ before' = [before EXCEPT ![t] = Stored]
    /\ pos' = [pos EXCEPT ![t] = 0]
    /\ LET hinted == IF m # 0 /\ meta \in Meta THEN missed \cup {"hint", "ram"}
                     ELSE missed \ {"hint"}
       IN  \/ /\ prev' = [prev EXCEPT ![t] = IF meta \in Meta THEN meta ELSE Absent]
              /\ missed' = hinted
              /\ ReadFails(m = 1 /\ meta # Absent)
              /\ Goto(t, "erase") \/ Goto(t, "fail")
           \/ /\ meta \in Meta
              /\ prev' = [prev EXCEPT ![t] = Absent]
              /\ missed' = hinted \cup {"meta"}
              /\ ReadFails(TRUE)
              /\ Goto(t, "erase")
    /\ UNCHANGED <<net, meta, legacy, driver, bank, write>>

\* 1. Erase the banks no stored meta references.  The inner loop over the two
\* banks runs on after an error, and a later commit overwrites that error.
EraseOrphan(t) ==
    LET i == pos[t] \div 2
        b == pos[t] % 2
        failed == pc[t] = "eraseErr"
        next(err) == IF err THEN IF b = 0 THEN "eraseErr" ELSE "fail"
                     ELSE IF pos[t] = 2 * MaxNets - 1 THEN "preflight" ELSE "erase"
    IN  /\ pc[t] \in {"erase", "eraseErr"}
        /\ pos' = [pos EXCEPT ![t] = @ + 1]
        /\ IF Referenced(t, i, b) \/ net[i][b] = Absent
           THEN Goto(t, next(failed)) /\ UNCHANGED net
           ELSE \/ /\ net' = [net EXCEPT ![i][b] = Absent]
                   /\ Goto(t, next(FALSE)) \/ Goto(t, next(TRUE))
                \/ UNCHANGED net /\ Goto(t, next(TRUE))
        /\ UNCHANGED <<meta, legacy, driver, hints, device, plan, job>>

\* 2. Compare each slot with its live bank, choose the banks, check the space.
\* nvs_get_stats can fail, which skips the check.
Preflight(t, S) ==
    /\ pc[t] = "preflight"
    /\ write' = [write EXCEPT ![t] = [i \in Slot |-> i \in S]]
    /\ bank' = [bank EXCEPT ![t] =
                  [i \in Slot |-> IF ~SlotLive(t, i) \/ i >= cand[t].count THEN 0
                                  ELSE IF i \in S THEN Spare(t, i)
                                  ELSE prev[t].bank[i]]]
    /\ pos' = [pos EXCEPT ![t] = 0]
    /\ Goto(t, "write") \/ (Refuses(t, S) /\ Goto(t, "nospace"))
    /\ ReadFails(S # Changed(t))
    /\ UNCHANGED <<net, meta, legacy, driver, hints, prev, job>>

\* 3. Write the changed slots one at a time, each into its other bank.
WriteNet(t) ==
    LET i == pos[t]
    IN  /\ pc[t] = "write"
        /\ i < cand[t].count
        /\ \/ /\ ~write[t][i]
              /\ pos' = [pos EXCEPT ![t] = i + 1]
              /\ UNCHANGED <<net, pc>>
           \/ /\ write[t][i]
              /\ net' = [net EXCEPT ![i][bank[t][i]] = cand[t].nets[i]]
              /\ \/ pos' = [pos EXCEPT ![t] = i + 1] /\ UNCHANGED pc
                 \/ Goto(t, "fail") /\ UNCHANGED pos
           \/ /\ write[t][i]
              /\ Goto(t, "fail") \/ Goto(t, "nospace")
              /\ UNCHANGED <<net, pos>>
        /\ UNCHANGED <<meta, legacy, driver, hints, device, plan, job>>

WritesDone(t) ==
    /\ pc[t] = "write"
    /\ pos[t] = cand[t].count
    /\ pos' = [pos EXCEPT ![t] = 0]
    /\ IF MetaDiffers(t) \/ \E i \in Slot : write[t][i]
       THEN Goto(t, "meta") ELSE Goto(t, "legacy")
    /\ UNCHANGED <<net, meta, legacy, driver, hints, device, plan, job>>

\* 4. The meta blob switches the whole save live.  A call that reports an
\* error can have written the blob all the same ("torn").
WriteMeta(t) ==
    /\ pc[t] = "meta"
    /\ \/ /\ meta' = [setting |-> cand[t].setting, count |-> cand[t].count, bank |-> bank[t]]
          /\ missed' = missed \ {"meta"}
          /\ \/ Goto(t, IF prev[t] = Absent THEN "legacy" ELSE "release")
             \/ Goto(t, "torn")
       \/ /\ Goto(t, "fail") \/ Goto(t, "nospace")
          /\ UNCHANGED <<meta, missed>>
    /\ UNCHANGED <<net, legacy, driver, rtc, noted, device, pos, plan, job>>

\* 5. Release the banks of the old generation the new one does not use.
SupersededAlways(t, i) == TRUE \* mutant
Superseded(t, i) == i >= cand[t].count \/ bank[t][i] # prev[t].bank[i]

Release(t) ==
    LET i == pos[t]
    IN  /\ pc[t] = "release"
        /\ i < prev[t].count
        /\ pos' = [pos EXCEPT ![t] = i + 1]
        /\ \/ Superseded(t, i) /\ net' = [net EXCEPT ![i][prev[t].bank[i]] = Absent]
           \/ UNCHANGED net
        /\ UNCHANGED <<meta, legacy, driver, hints, device, pc, plan, job>>

Released(t) ==
    /\ pc[t] = "release"
    /\ pos[t] = prev[t].count
    /\ Goto(t, "legacy")
    /\ UNCHANGED <<net, meta, legacy, driver, hints, device, pos, plan, job>>

EraseLegacy(t) ==
    /\ pc[t] = "legacy"
    /\ legacy' \in {Absent, legacy}
    /\ Goto(t, "ok")
    /\ UNCHANGED <<net, meta, driver, hints, device, pos, plan, job>>

SaveStep(t) ==
    \/ EraseOrphan(t)
    \/ \E S \in Writes(t) : Preflight(t, S)
    \/ WriteNet(t)
    \/ WritesDone(t)
    \/ WriteMeta(t)
    \/ Release(t)
    \/ Released(t)
    \/ EraseLegacy(t)

-----------------------------------------------------------------------------
(* storage_load_v2                                                          *)

CanLoad(t) ==
    /\ pc[t] = "idle"
    /\ phase = "portal" \/ (phase = "boot" /\ t = Main)

LoadReturns(t, label, c) ==
    /\ Goto(t, label)
    /\ cand' = [cand EXCEPT ![t] = c]
    /\ UNCHANGED <<net, meta, legacy, driver, pos, plan, hint, mig, before>>

\* What flash holds, with the slots in unread passed over like bad ones.
Read(m, unread) ==
    LET g == Generation(m) IN [g EXCEPT !.nets = [i \in Slot |-> IF i \in unread THEN Bad ELSE @[i]]]

LoadV6(t, unread) ==
    /\ CanLoad(t)
    /\ meta \in Meta
    /\ unread \subseteq Surviving(Generation(meta))
    /\ ReadFails(unread # {})
    /\ LET img == Read(meta, unread)
       IN  /\ LoadReturns(t, "loaded", Compacted(img))
           /\ IF Dropped(img) THEN SetHint(-1, Absent) ELSE UNCHANGED <<rtc, noted>>
           /\ missed' = (IF Dropped(img) THEN missed \ {"hint"} ELSE missed)
                         \cup (IF unread # {} THEN {"ram"} ELSE {})

\* A bad meta blob, nothing stored, or nvs_open, a read or an allocation failed.
LoadDefaults(t) ==
    /\ CanLoad(t)
    /\ LoadReturns(t, "defaults", Defaults)
    /\ UNCHANGED <<hints, device>>

\* Without a meta blob, or when looking for it fails, a valid legacy blob is
\* migrated through a save.
LoadLegacy(t) ==
    /\ CanLoad(t)
    /\ legacy \in Legacy
    /\ StartSave(t, legacy.cfg, legacy.hint, 1)

\* The migration's save returned.  Only its success clears the driver's
\* namespace; only its first lack of space is worth a second try.
Migrated(t) ==
    /\ pc[t] \in Returned
    /\ mig[t] # 0
    /\ Goto(t, IF pc[t] = "nospace" /\ mig[t] = 1 THEN "drop" ELSE "loaded")
    /\ driver' \in IF pc[t] = "ok" THEN {FALSE, driver} ELSE {driver}
    /\ UNCHANGED <<net, meta, legacy, hints, device, pos, plan, job>>

\* Make room by erasing the legacy blob first, then save once more.
DropLegacy(t) ==
    /\ pc[t] = "drop"
    /\ legacy' \in {Absent, legacy}
    /\ Goto(t, "retry")
    /\ UNCHANGED <<net, meta, driver, hints, device, pos, plan, job>>

Retry(t) ==
    /\ pc[t] = "retry"
    /\ StartSave(t, cand[t], hint[t], 2)

LoadStep(t) ==
    \/ \E unread \in SUBSET Slot : LoadV6(t, unread)
    \/ LoadDefaults(t)
    \/ LoadLegacy(t)
    \/ Migrated(t)
    \/ DropLegacy(t)
    \/ Retry(t)

-----------------------------------------------------------------------------
(* Callers                                                                  *)

\* Freed buffers, locals out of scope.
Idle(t) ==
    /\ Goto(t, "idle")
    /\ cand' = [cand EXCEPT ![t] = Defaults]
    /\ hint' = [hint EXCEPT ![t] = -1]
    /\ prev' = [prev EXCEPT ![t] = Absent]
    /\ bank' = [bank EXCEPT ![t] = [i \in Slot |-> 0]]
    /\ write' = [write EXCEPT ![t] = [i \in Slot |-> FALSE]]
    /\ pos' = [pos EXCEPT ![t] = 0]
    /\ mig' = [mig EXCEPT ![t] = 0]
    /\ before' = [before EXCEPT ![t] = Defaults]

\* app_main overlays the RTC hint on the loaded configuration.  It opens the
\* portal when there is no network or BOOT asked for it; else it joins with it.
BootDone ==
    /\ phase = "boot"
    /\ pc[Main] \in {"loaded", "defaults"}
    /\ SetHint(Clamped(rtc, cand[Main]), noted)
    /\ UNCHANGED missed
    /\ \/ phase' = "portal" /\ UNCHANGED ram
       \/ cand[Main].count > 0 /\ phase' = "sta" /\ ram' = cand[Main]
    /\ Idle(Main)
    /\ UNCHANGED <<net, meta, legacy, driver, faults>>

\* storage_note_last_success after wifi_roam_connect joined network i.
NoteSuccess(i) ==
    /\ phase = "sta"
    /\ i < ram.count
    /\ SetHint(i, ram.nets[i])
    /\ missed' = IF "ram" \in missed THEN missed \cup {"hint"} ELSE missed \ {"hint"}
    /\ UNCHANGED <<net, meta, legacy, driver, device, pc, pos, plan, job>>

\* handler_save: the form replaces every network; it carries no hint.
Submit(c) ==
    /\ phase = "portal"
    /\ pc[Server] \in {"loaded", "defaults"}
    /\ StartSave(Server, c, -1, 0)

\* reset_clear_networks: keep the header, drop every network.
Cleared(c) == [setting |-> c.setting, count |-> 0, nets |-> [i \in Slot |-> Absent]]
Clear ==
    /\ phase = "portal"
    /\ pc[Main] \in {"loaded", "defaults"}
    /\ StartSave(Main, Cleared(cand[Main]), -1, 0)

\* A caller that only loads, or whose save returned, is done.
Done(t) ==
    /\ phase = "portal"
    /\ \/ pc[t] \in {"loaded", "defaults"}
       \/ pc[t] \in Returned /\ mig[t] = 0
    /\ Idle(t)
    /\ UNCHANGED <<net, meta, legacy, driver, hints, device>>

\* A power cut, a software or USB reset, or a wake from deep sleep.  Only a
\* wake is sure to keep RTC memory and only a power cut is sure to lose it.
Reboot ==
    /\ phase' = "boot"
    /\ \/ SetHint(rtc, noted) /\ missed' = missed \ {"ram"}
       \/ SetHint(-1, Absent) /\ missed' = missed \ {"ram", "hint"}
    /\ ram' = Defaults
    /\ pc' = [t \in Task |-> "idle"]
    /\ cand' = [t \in Task |-> Defaults]
    /\ hint' = [t \in Task |-> -1]
    /\ prev' = [t \in Task |-> Absent]
    /\ bank' = [t \in Task |-> [i \in Slot |-> 0]]
    /\ write' = [t \in Task |-> [i \in Slot |-> FALSE]]
    /\ pos' = [t \in Task |-> 0]
    /\ mig' = [t \in Task |-> 0]
    /\ before' = [t \in Task |-> Defaults]
    /\ UNCHANGED <<net, meta, legacy, driver, faults>>

\* A stored blob no longer passes its check; the next boot finds it so.
Rot ==
    /\ phase = "boot"
    /\ pc[Main] = "idle"
    /\ faults < MaxFaults
    /\ faults' = faults + 1
    /\ \/ /\ \E i \in Slot, b \in Bank :
               net[i][b] # Absent /\ net' = [net EXCEPT ![i][b] = Bad]
          /\ UNCHANGED <<meta, legacy>>
       \/ meta \in Meta /\ meta' = Bad /\ UNCHANGED <<net, legacy>>
       \/ legacy \in Legacy /\ legacy' = Bad /\ UNCHANGED <<net, meta>>
    /\ UNCHANGED <<driver, hints, phase, ram, pc, pos, plan, job>>

\* A fresh partition, or one an older firmware left with its single blob.
Init ==
    /\ net = [i \in Slot |-> [b \in Bank |-> Absent]]
    /\ meta = Absent
    /\ \/ legacy = Absent /\ driver = FALSE
       \/ legacy \in {l \in [cfg : Submitted, hint : Hint] : l.hint < l.cfg.count} /\ driver = TRUE
    /\ rtc = -1
    /\ noted = Absent
    /\ missed = {}
    /\ phase = "boot"
    /\ ram = Defaults
    /\ faults = 0
    /\ pc = [t \in Task |-> "idle"]
    /\ cand = [t \in Task |-> Defaults]
    /\ hint = [t \in Task |-> -1]
    /\ prev = [t \in Task |-> Absent]
    /\ bank = [t \in Task |-> [i \in Slot |-> 0]]
    /\ write = [t \in Task |-> [i \in Slot |-> FALSE]]
    /\ pos = [t \in Task |-> 0]
    /\ mig = [t \in Task |-> 0]
    /\ before = [t \in Task |-> Defaults]

Next ==
    \/ \E t \in Task : SaveStep(t) \/ LoadStep(t) \/ Done(t)
    \/ \E c \in Submitted : Submit(c)
    \/ Clear
    \/ \E i \in Slot : NoteSuccess(i)
    \/ BootDone
    \/ Reboot
    \/ Rot

Spec == Init /\ [][Next]_vars
-----------------------------------------------------------------------------
(* Properties                                                               *)

Format == IF meta # Absent THEN "v6" ELSE IF legacy # Absent THEN "legacy" ELSE "none"
Pending == [t \in Task |-> IF pc[t] \in Saving THEN cand[t] ELSE Absent]

BlindSaves == {t \in Task : pc[t] \in Started /\ Blind(t)}

Register == INSTANCE ConfigRegister
    WITH disk <- Stored, format <- Format, pending <- Pending, blind <- BlindSaves,
         Nothing <- Defaults, None <- Absent

\* The store implements the register: a power cut, restart or NVS error between
\* any two flash writes of storage_save_v2 leaves the old or the new
\* configuration, never a mixture of their networks and headers.  Only a save
\* that could not read the meta blob mixes: it erases and replaces networks one
\* by one, under the old header.
ImplementsRegister == Register!Spec

\* The header and the places of old; each place as in old, empty or as in new.
SmearOf(img, old, new) ==
    /\ img.setting = old.setting /\ img.count = old.count
    /\ \A i \in Slot : img.nets[i] \in {old.nets[i], Absent, new.nets[i]}

\* Whatever bank the live meta blob references exists: no save, failed save,
\* cleanup or migration erases a profile the next load needs, but for a save that
\* could not read the meta blob, until the next one is written.
ReferencedPresent ==
    meta \in Meta /\ "meta" \notin missed =>
        \A i \in Slot : i < meta.count => net[i][meta.bank[i]] # Absent

\* A save that returned an error before the new meta blob reached flash has
\* changed nothing the next load can see, whichever of its calls failed.  One
\* that could not read the meta blob has kept the header and the slots in use;
\* a slot then holds what it did, nothing, or what was to be saved.
FailedSaveKeepsOld ==
    \A t \in Task : pc[t] \in {"fail", "nospace"} =>
        IF Blind(t) THEN SmearOf(Stored, before[t], cand[t]) ELSE Stored = before[t]

\* From the meta write on, and when storage_save_v2 returns ESP_OK, the next
\* load finds exactly the configuration that was saved: every profile in
\* place, although unchanged slots were not rewritten and old banks are gone.
SuccessIsLive ==
    \A t \in Task : pc[t] \in {"release", "legacy", "ok"} => Stored = cand[t]

\* The capacity guard never turns a save away once the partition holds this
\* firmware's keys only: orphans of earlier failures were erased before it.
RefusalNeedsForeignKeys ==
    \A t \in Task : pc[t] = "preflight" /\ (\E S \in Writes(t) : Refuses(t, S)) =>
        legacy # Absent \/ driver

\* The reconnect hint that survives a reboot never designates another network
\* than the one it was recorded for, although it is a bare index and slots are
\* dropped, replaced, migrated and compacted under it.  Only a hint recorded in a
\* boot whose reads had missed an intact blob can mislead a later boot.
HintSound == phase = "sta" /\ rtc # -1 /\ "hint" \notin missed => ram.nets[rtc] = noted
=============================================================================
