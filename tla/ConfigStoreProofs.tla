------------------------- MODULE ConfigStoreProofs -------------------------
(***************************************************************************)
(* Theorems about ConfigStore, for every number of slots, every set of     *)
(* profiles and headers, and every partition that meets the assumptions.   *)
(***************************************************************************)
EXTENDS ConfigStore, FiniteSetTheorems, TLAPS

-----------------------------------------------------------------------------
(* Types                                                                    *)

\* What TypeOK needs to be inductive: where the loop indices can be.
LoopsOK ==
    \A t \in Task :
        /\ pc[t] \in {"erase", "eraseErr"} => pos[t] < 2 * MaxNets
        /\ pc[t] = "release" => prev[t] # Absent

TypeInv == TypeOK /\ LoopsOK

\* The image a load reads has one value per slot.
LEMMA GenerationType ==
    ASSUME TypeOK, NEW m \in Meta
    PROVE  Generation(m) \in Image
BY SizeAssumption DEF TypeOK, Generation, Image, Meta, Blob, Slot, Count, Bank

LEMMA DefaultsType == Defaults \in Config /\ Defaults \in Image
BY SizeAssumption, ValueAssumption DEF Defaults, Config, Image, Count, Slot, Blob

LEMMA ConfigIsImage == Config \subseteq Image
BY DEF Config, Image, Blob

LEMMA StoredType ==
    ASSUME TypeOK PROVE Stored \in Image
BY GenerationType, DefaultsType, ConfigIsImage DEF TypeOK, Stored, Legacy

\* Ranking a finite set of slots numbers its members 0, 1, ... without a gap.
LEMMA RankOnto ==
    ASSUME NEW S \in SUBSET Slot
    PROVE  /\ IsFiniteSet(S) /\ Cardinality(S) \in Count
           /\ \A i \in S : Rank(S, i) \in 0 .. Cardinality(S) - 1
           /\ \A k \in 0 .. Cardinality(S) - 1 : \E i \in S : Rank(S, i) = k
<1> DEFINE n == Cardinality(S)
           below(i) == {j \in S : j < i}
           rank == [i \in S |-> Rank(S, i)]
<1>1. IsFiniteSet(Slot) /\ Cardinality(Slot) = MaxNets
  BY FS_Interval, SizeAssumption DEF Slot
<1>2. IsFiniteSet(S) /\ n \in Count
  BY <1>1, FS_Subset, FS_CardinalityType, SizeAssumption DEF Count
<1>3. S \subseteq Int
  BY SizeAssumption DEF Slot
<1>4. ASSUME NEW i \in S, NEW T \in SUBSET S, below(i) \subseteq T \ {i}, i \in T
      PROVE  IsFiniteSet(T) /\ Rank(S, i) \in Nat /\ Rank(S, i) < Cardinality(T)
  <2>1. IsFiniteSet(T) /\ Cardinality(T) \in Nat
    BY <1>2, FS_Subset, FS_CardinalityType
  <2>2. IsFiniteSet(T \ {i}) /\ Cardinality(T \ {i}) = Cardinality(T) - 1
    BY <1>4, <2>1, FS_RemoveElement
  <2>3. Cardinality(below(i)) \in Nat /\ Cardinality(below(i)) <= Cardinality(T) - 1
    BY <1>4, <2>2, FS_Subset, FS_CardinalityType
  <2> QED
    BY <2>1, <2>3 DEF Rank
<1>5. \A i \in S : Rank(S, i) \in 0 .. n - 1
  <2> SUFFICES ASSUME NEW i \in S PROVE Rank(S, i) \in 0 .. n - 1
    OBVIOUS
  <2>1. below(i) \subseteq S \ {i}
    BY <1>3
  <2> QED
    BY <1>2, <1>4, <2>1 DEF Count
<1>6. \A i, j \in S : i # j => Rank(S, i) # Rank(S, j)
  <2>1. ASSUME NEW i \in S, NEW j \in S, i < j PROVE Rank(S, i) < Rank(S, j)
    <3>1. i \in Int /\ j \in Int /\ \A x \in S : x \in Int
      BY <1>3
    <3>2. \A x \in S : x < i => x < j /\ x # i
      BY <2>1, <3>1
    <3>3. below(i) \subseteq below(j) \ {i} /\ i \in below(j) /\ below(j) \in SUBSET S
      BY <2>1, <3>2
    <3> QED
      BY <1>4, <3>3 DEF Rank
  <2>2. \A i \in S : Rank(S, i) \in Int
    BY <1>5
  <2> QED
    BY <1>3, <2>1, <2>2
<1>7. rank \in Injection(S, 0 .. n - 1)
  BY <1>5, <1>6 DEF Injection, IsInjective
<1>8. IsFiniteSet(0 .. n - 1) /\ Cardinality(0 .. n - 1) = n
  BY <1>2, FS_Interval DEF Count
<1>9. rank \in Surjection(S, 0 .. n - 1)
  BY <1>7, <1>8, FS_Injection
<1>10. \A k \in 0 .. n - 1 : \E i \in S : Rank(S, i) = k
  BY <1>9 DEF Surjection
<1> QED
  BY <1>2, <1>5, <1>10

\* A load that drops slots returns a normalised configuration: the networks
\* left close up, and exactly the slots past the new count are zeroed.
LEMMA CompactedType ==
    ASSUME NEW img \in Image
    PROVE  Compacted(img) \in Config
<1> DEFINE kept == Surviving(img)
           n == Cardinality(kept)
           at(k) == CHOOSE i \in kept : Rank(kept, i) = k
           nets == [k \in Slot |-> IF \E i \in kept : Rank(kept, i) = k
                                   THEN img.nets[at(k)] ELSE Absent]
<1>1. kept \in SUBSET Slot
  BY DEF Surviving
<1>2. /\ n \in Count
      /\ \A k \in Slot : (\E i \in kept : Rank(kept, i) = k) <=> k < n
  BY <1>1, RankOnto DEF Slot, Count
<1>3. \A i \in kept : img.nets[i] \in Profile
  BY DEF Surviving
<1>4. ASSUME NEW k \in Slot, k < n PROVE nets[k] \in Profile
  <2>1. at(k) \in kept
    BY <1>2, <1>4
  <2> QED
    BY <1>2, <1>3, <1>4, <2>1
<1>5. ASSUME NEW k \in Slot, ~(k < n) PROVE nets[k] = Absent
  BY <1>2, <1>5
<1>6. Compacted(img) = [setting |-> img.setting, count |-> n, nets |-> nets]
  BY DEF Compacted
<1>7. nets \in [Slot -> Profile \cup {Absent}]
  BY <1>4, <1>5
<1>8. \A k \in Slot : nets[k] = Absent <=> k >= n
  BY <1>2, <1>4, <1>5, KeyAssumption DEF Slot, Count
<1>9. img.setting \in Setting
  BY DEF Image
<1> HIDE DEF kept, n, nets
<1> QED
  BY <1>2, <1>6, <1>7, <1>8, <1>9 DEF Config

\* Writing or erasing one key leaves the others in their type.
LEMMA NetUpdate ==
    ASSUME TypeOK, NEW i \in Slot, NEW b \in Bank, NEW v \in Blob
    PROVE  [net EXCEPT ![i][b] = v] \in [Slot -> [Bank -> Blob]]
<1>1. net \in [Slot -> [Bank -> Blob]]
  BY DEF TypeOK
<1>2. [net[i] EXCEPT ![b] = v] \in [Bank -> Blob]
  BY <1>1
<1> QED
  BY <1>1, <1>2

LEMMA NetUnchanged == TypeOK => net \in [Slot -> [Bank -> Blob]]
BY DEF TypeOK

LEMMA BlobMembers == Absent \in Blob /\ Bad \in Blob
BY DEF Blob

\* At most MaxFaults reads fail.
LEMMA ReadFailsType ==
    ASSUME TypeOK, NEW failed \in BOOLEAN, ReadFails(failed)
    PROVE  faults' \in 0 .. MaxFaults /\ UNCHANGED <<phase, ram>>
BY SizeAssumption DEF ReadFails, TypeOK

\* Every save begins typed, whoever calls storage_save_v2.
LEMMA StartSaveType ==
    ASSUME TypeInv, NEW t \in Task, NEW c \in Config, NEW h \in Hint, NEW m \in 0 .. 2,
           StartSave(t, c, h, m)
    PROVE  TypeInv'
<1> USE DEF TypeInv
<1>1. Clamped(h, c) \in Hint
  BY SizeAssumption DEF Clamped, Hint
<1>2. Stored \in Image
  BY StoredType
<1>3. rtc' \in Hint /\ noted' \in Profile \cup {Absent}
  BY <1>1, SizeAssumption DEF StartSave, SetHint, Clamped, Hint, Config, Slot, Count
<1>7. missed' \subseteq Spoilt
  <2>1. missed' \subseteq missed \cup Spoilt
    BY DEF StartSave, Spoilt
  <2> QED
    BY <2>1 DEF TypeOK
<1>8. faults' \in 0 .. MaxFaults /\ UNCHANGED <<phase, ram>>
  <2>1. ReadFails(TRUE) \/ ReadFails(m = 1 /\ meta # Absent)
    BY DEF StartSave
  <2> QED
    BY <2>1, ReadFailsType
<1>9. pc' = [pc EXCEPT ![t] = "erase"] \/ pc' = [pc EXCEPT ![t] = "fail"]
  BY DEF StartSave, Goto
<1>4. pc' \in [Task -> PC] /\ LoopsOK'
  <2>1. pc' \in [Task -> PC]
    BY <1>9 DEF TypeOK, PC, Saving, Returned
  <2>2. \A u \in Task \ {t} : pc'[u] = pc[u] /\ pos'[u] = pos[u] /\ prev'[u] = prev[u]
    BY <1>9 DEF StartSave, TypeOK
  <2>3. pc'[t] # "release" /\ pos'[t] = 0
    BY <1>9 DEF StartSave, TypeOK
  <2> QED
    BY <2>1, <2>2, <2>3, SizeAssumption DEF LoopsOK
<1>5. prev' \in [Task -> Meta \cup {Absent}]
  BY DEF StartSave, TypeOK
<1>6. /\ cand' \in [Task -> Config] /\ hint' \in [Task -> Hint]
      /\ mig' \in [Task -> 0 .. 2] /\ before' \in [Task -> Image]
      /\ pos' \in [Task -> 0 .. 2 * MaxNets]
  BY <1>1, <1>2, SizeAssumption DEF StartSave, TypeOK
<1> QED
  BY <1>3, <1>4, <1>5, <1>6, <1>7, <1>8 DEF StartSave, TypeOK

LEMMA SaveStepType ==
    ASSUME TypeInv, NEW t \in Task, SaveStep(t)
    PROVE  TypeInv'
<1> USE SizeAssumption DEF TypeInv, Goto, hints, device, plan, job
<1>1. CASE EraseOrphan(t)
  <2> DEFINE i == pos[t] \div 2
             b == pos[t] % 2
  <2>1. pos[t] \in 0 .. 2 * MaxNets /\ pos[t] < 2 * MaxNets
    BY <1>1 DEF EraseOrphan, TypeOK, LoopsOK
  <2>2. i \in Slot /\ b \in Bank
    BY <2>1 DEF Slot, Bank
  <2>3. net' \in [Slot -> [Bank -> Blob]]
    <3>1. net' = net \/ net' = [net EXCEPT ![i][b] = Absent]
      BY <1>1 DEF EraseOrphan
    <3> QED
      BY <2>2, <3>1, NetUpdate, NetUnchanged, BlobMembers
  <2>4. pos' \in [Task -> 0 .. 2 * MaxNets] /\ pos'[t] = pos[t] + 1
    BY <1>1, <2>1 DEF EraseOrphan, TypeOK
  <2>5. /\ pc' \in [Task -> PC]
        /\ \A u \in Task \ {t} : pc'[u] = pc[u] /\ pos'[u] = pos[u]
        /\ pc'[t] \in {"erase", "eraseErr"} => pos'[t] < 2 * MaxNets
        /\ pc'[t] # "release"
    <3>1. \/ pc' = [pc EXCEPT ![t] = "preflight"]
          \/ pc' = [pc EXCEPT ![t] = "fail"]
          \/ pc' \in {[pc EXCEPT ![t] = "erase"], [pc EXCEPT ![t] = "eraseErr"]}
             /\ pos[t] + 1 < 2 * MaxNets
      BY <1>1, <2>1 DEF EraseOrphan
    <3>2. \A u \in Task \ {t} : pos'[u] = pos[u]
      BY <1>1 DEF EraseOrphan, TypeOK
    <3> QED
      BY <2>4, <3>1, <3>2 DEF TypeOK, PC, Saving, Returned
  <2>6. LoopsOK'
    BY <1>1, <2>4, <2>5 DEF EraseOrphan, LoopsOK, TypeOK
  <2> QED
    BY <1>1, <2>3, <2>4, <2>5, <2>6 DEF EraseOrphan, TypeOK
<1>2. ASSUME NEW S \in SUBSET Slot, Preflight(t, S) PROVE TypeInv'
  <2>1. write' \in [Task -> [Slot -> BOOLEAN]]
    BY <1>2 DEF Preflight, TypeOK
  <2>8. faults' \in 0 .. MaxFaults /\ UNCHANGED <<phase, ram>>
    BY <1>2, ReadFailsType DEF Preflight
  <2>2. ASSUME NEW i \in Slot, SlotLive(t, i) PROVE prev[t].bank[i] \in Bank
    BY <2>2 DEF SlotLive, TypeOK, Meta
  <2>3. bank' \in [Task -> [Slot -> Bank]]
    BY <1>2, <2>2 DEF Preflight, Spare, TypeOK, Bank
  <2>4. pos' \in [Task -> 0 .. 2 * MaxNets]
    BY <1>2 DEF Preflight, TypeOK
  <2>5. pc' = [pc EXCEPT ![t] = "write"] \/ pc' = [pc EXCEPT ![t] = "nospace"]
    BY <1>2 DEF Preflight
  <2>6. pc' \in [Task -> PC]
    BY <2>5 DEF TypeOK, PC, Saving, Returned
  <2>7. LoopsOK'
    BY <1>2, <2>5 DEF Preflight, TypeOK, LoopsOK
  <2> QED
    BY <1>2, <2>1, <2>3, <2>4, <2>6, <2>7, <2>8 DEF Preflight, TypeOK
<1>3. CASE WriteNet(t)
  <2>1. /\ pos[t] \in Slot /\ pos[t] + 1 \in 0 .. 2 * MaxNets
        /\ cand[t].nets[pos[t]] \in Blob /\ bank[t][pos[t]] \in Bank
    BY <1>3 DEF WriteNet, TypeOK, Config, Count, Slot, Blob
  <2>2. net' \in [Slot -> [Bank -> Blob]]
    <3>1. net' = net \/ net' = [net EXCEPT ![pos[t]][bank[t][pos[t]]] = cand[t].nets[pos[t]]]
      BY <1>3 DEF WriteNet
    <3>2. \A v \in Blob : [net EXCEPT ![pos[t]][bank[t][pos[t]]] = v] \in [Slot -> [Bank -> Blob]]
      BY <2>1, NetUpdate
    <3> QED
      BY <2>1, <3>1, <3>2, NetUnchanged
  <2>3. pc' \in [Task -> PC] /\ pos' \in [Task -> 0 .. 2 * MaxNets]
    <3>1. pos' = pos \/ pos' = [pos EXCEPT ![t] = pos[t] + 1]
      BY <1>3 DEF WriteNet
    <3>2. pc' = pc \/ pc' = [pc EXCEPT ![t] = "fail"] \/ pc' = [pc EXCEPT ![t] = "nospace"]
      BY <1>3 DEF WriteNet
    <3>3. pc' \in [Task -> PC]
      BY <3>2 DEF TypeOK, PC, Returned
    <3>4. pos' \in [Task -> 0 .. 2 * MaxNets]
      BY <2>1, <3>1 DEF TypeOK
    <3> QED
      BY <3>3, <3>4
  <2>4. LoopsOK'
    BY <1>3 DEF WriteNet, TypeOK, LoopsOK
  <2> QED
    BY <1>3, <2>2, <2>3, <2>4 DEF WriteNet, TypeOK
<1>4. CASE WritesDone(t)
  <2>1. pc' = [pc EXCEPT ![t] = "meta"] \/ pc' = [pc EXCEPT ![t] = "legacy"]
    BY <1>4 DEF WritesDone
  <2>2. pc' \in [Task -> PC] /\ LoopsOK'
    BY <1>4, <2>1 DEF WritesDone, TypeOK, LoopsOK, PC, Saving
  <2> QED
    BY <1>4, <2>2 DEF WritesDone, TypeOK
<1>5. CASE WriteMeta(t)
  <2>1. meta' \in Meta \cup {Absent, Bad}
    BY <1>5 DEF WriteMeta, TypeOK, Meta, Config
  <2>2. pc' \in [Task -> PC] /\ LoopsOK'
    BY <1>5 DEF WriteMeta, TypeOK, LoopsOK, PC, Saving, Returned
  <2>3. missed' \subseteq Spoilt
    BY <1>5 DEF WriteMeta, TypeOK
  <2> QED
    BY <1>5, <2>1, <2>2, <2>3 DEF WriteMeta, TypeOK
<1>6. CASE Release(t)
  <2>1. pos[t] \in Slot /\ pos[t] + 1 \in 0 .. 2 * MaxNets /\ prev[t].bank[pos[t]] \in Bank
    <3>1. prev[t] \in Meta /\ pos[t] \in 0 .. 2 * MaxNets /\ pos[t] < prev[t].count
      BY <1>6 DEF Release, TypeOK, LoopsOK
    <3>2. prev[t].count \in Count /\ prev[t].bank \in [Slot -> Bank]
      BY <3>1 DEF Meta
    <3> QED
      BY <3>1, <3>2 DEF Count, Slot
  <2>2. net' \in [Slot -> [Bank -> Blob]]
    <3>1. net' = net \/ net' = [net EXCEPT ![pos[t]][prev[t].bank[pos[t]]] = Absent]
      BY <1>6 DEF Release
    <3> QED
      BY <2>1, <3>1, NetUpdate, NetUnchanged, BlobMembers
  <2> QED
    BY <1>6, <2>1, <2>2 DEF Release, TypeOK, LoopsOK
<1>7. CASE Released(t)
  BY <1>7 DEF Released, TypeOK, LoopsOK, PC, Saving, Returned
<1>8. CASE EraseLegacy(t)
  BY <1>8 DEF EraseLegacy, TypeOK, LoopsOK, PC, Saving, Returned
<1> QED
  BY <1>1, <1>2, <1>3, <1>4, <1>5, <1>6, <1>7, <1>8 DEF SaveStep, Writes

\* A slot that does not read back is like one that is missing.
LEMMA ReadType ==
    ASSUME TypeOK, NEW m \in Meta, NEW unread \in SUBSET Slot
    PROVE  Read(m, unread) \in Image
<1>1. Generation(m) \in Image
  BY GenerationType
<1> QED
  BY <1>1, BlobMembers DEF Read, Image

LEMMA LoadStepType ==
    ASSUME TypeInv, NEW t \in Task, LoadStep(t)
    PROVE  TypeInv'
<1> USE SizeAssumption DEF TypeInv, Goto, hints, device, plan, job
<1>1. ASSUME NEW unread \in SUBSET Slot, LoadV6(t, unread) PROVE TypeInv'
  <2>1. Compacted(Read(meta, unread)) \in Config
    BY <1>1, ReadType, CompactedType DEF LoadV6
  <2>2. rtc' \in Hint /\ noted' \in Profile \cup {Absent}
    BY <1>1 DEF LoadV6, SetHint, TypeOK, Hint
  <2>3. missed' \subseteq Spoilt
    BY <1>1 DEF LoadV6, TypeOK, Spoilt
  <2>4. faults' \in 0 .. MaxFaults /\ UNCHANGED <<phase, ram>>
    BY <1>1, ReadFailsType DEF LoadV6
  <2> QED
    BY <1>1, <2>1, <2>2, <2>3, <2>4 DEF LoadV6, LoadReturns, TypeOK, LoopsOK, PC
<1>2. CASE LoadDefaults(t)
  BY <1>2, DefaultsType DEF LoadDefaults, LoadReturns, TypeOK, LoopsOK, PC
<1>3. CASE LoadLegacy(t)
  BY <1>3, StartSaveType DEF LoadLegacy, Legacy
<1>4. CASE Migrated(t)
  BY <1>4 DEF Migrated, TypeOK, LoopsOK, PC
<1>5. CASE DropLegacy(t)
  BY <1>5 DEF DropLegacy, TypeOK, LoopsOK, PC
<1>6. CASE Retry(t)
  <2>1. cand[t] \in Config /\ hint[t] \in Hint
    BY DEF TypeOK
  <2> QED
    BY <1>6, <2>1, StartSaveType DEF Retry
<1> QED
  BY <1>1, <1>2, <1>3, <1>4, <1>5, <1>6 DEF LoadStep

LEMMA CallerType ==
    ASSUME TypeInv,
           \/ \E t \in Task : Done(t)
           \/ \E c \in Submitted : Submit(c)
           \/ \E i \in Slot : NoteSuccess(i)
           \/ Clear \/ BootDone \/ Reboot \/ Rot
    PROVE  TypeInv'
<1> USE SizeAssumption DEF TypeInv, hints, device, plan, job
<1>1. ASSUME NEW t \in Task, Idle(t)
      PROVE  /\ pc' \in [Task -> PC] /\ cand' \in [Task -> Config] /\ hint' \in [Task -> Hint]
             /\ prev' \in [Task -> Meta \cup {Absent}] /\ bank' \in [Task -> [Slot -> Bank]]
             /\ write' \in [Task -> [Slot -> BOOLEAN]] /\ pos' \in [Task -> 0 .. 2 * MaxNets]
             /\ mig' \in [Task -> 0 .. 2] /\ before' \in [Task -> Image]
             /\ LoopsOK'
  <2>1. pc' \in [Task -> PC] /\ LoopsOK'
    BY <1>1 DEF Idle, Goto, TypeOK, LoopsOK, PC
  <2>2. cand' \in [Task -> Config] /\ before' \in [Task -> Image]
    BY <1>1, DefaultsType DEF Idle, TypeOK
  <2>3. bank' \in [Task -> [Slot -> Bank]] /\ write' \in [Task -> [Slot -> BOOLEAN]]
    BY <1>1 DEF Idle, TypeOK, Bank
  <2>4. hint' \in [Task -> Hint] /\ pos' \in [Task -> 0 .. 2 * MaxNets] /\ mig' \in [Task -> 0 .. 2]
    BY <1>1 DEF Idle, TypeOK, Hint
  <2>5. prev' \in [Task -> Meta \cup {Absent}]
    BY <1>1 DEF Idle, TypeOK
  <2> QED
    BY <2>1, <2>2, <2>3, <2>4, <2>5
<1>2. CASE \E t \in Task : Done(t)
  BY <1>1, <1>2 DEF Done, TypeOK
<1>3. CASE \E c \in Submitted : Submit(c)
  BY <1>3, StartSaveType, SubmittedAssumption DEF Submit, Task, Hint
<1>4. CASE \E i \in Slot : NoteSuccess(i)
  <2>1. rtc' \in Hint /\ noted' \in Profile \cup {Absent}
    BY <1>4 DEF NoteSuccess, SetHint, TypeOK, Slot, Hint, Config
  <2>2. missed' \subseteq Spoilt
    BY <1>4 DEF NoteSuccess, TypeOK, Spoilt
  <2> QED
    BY <1>4, <2>1, <2>2 DEF NoteSuccess, TypeOK, LoopsOK
<1>5. CASE Clear
  <2>1. Cleared(cand[Main]) \in Config
    <3>1. cand[Main] \in [setting : Setting, count : Count, nets : [Slot -> Profile \cup {Absent}]]
      BY DEF TypeOK, Task, Config
    <3>2. Cleared(cand[Main]) = [setting |-> cand[Main].setting, count |-> 0,
                                 nets |-> [i \in Slot |-> Absent]]
      BY DEF Cleared
    <3>3. cand[Main].setting \in Setting /\ 0 \in Count /\ \A i \in Slot : i >= 0
      BY <3>1 DEF Count, Slot
    <3> QED
      BY <3>2, <3>3 DEF Config
  <2> QED
    BY <1>5, <2>1, StartSaveType DEF Clear, Task, Hint
<1>6. CASE BootDone
  <2>1. rtc' \in Hint /\ noted' \in Profile \cup {Absent}
    BY <1>6 DEF BootDone, SetHint, Clamped, TypeOK, Hint
  <2>2. Main \in Task
    BY DEF Task
  <2>3. ram' \in Config /\ phase' \in {"boot", "sta", "portal"}
    BY <1>6, <2>2 DEF BootDone, TypeOK
  <2> QED
    BY <1>1, <1>6, <2>1, <2>2, <2>3 DEF BootDone, TypeOK
<1>7. CASE Reboot
  <2>1. rtc' \in Hint /\ noted' \in Profile \cup {Absent}
    BY <1>7 DEF Reboot, SetHint, TypeOK, Hint
  <2>2. pc' \in [Task -> PC] /\ LoopsOK' /\ pos' \in [Task -> 0 .. 2 * MaxNets]
    BY <1>7 DEF Reboot, LoopsOK, PC
  <2>3. bank' \in [Task -> [Slot -> Bank]] /\ write' \in [Task -> [Slot -> BOOLEAN]]
    BY <1>7 DEF Reboot, Bank
  <2>4. hint' \in [Task -> Hint] /\ mig' \in [Task -> 0 .. 2]
    BY <1>7 DEF Reboot, Hint
  <2>5. missed' \subseteq Spoilt
    BY <1>7 DEF Reboot, TypeOK
  <2> QED
    BY <1>7, <2>1, <2>2, <2>3, <2>4, <2>5, DefaultsType DEF Reboot, TypeOK
<1>8. CASE Rot
  <2>1. net' \in [Slot -> [Bank -> Blob]]
    <3>1. net' = net \/ \E i \in Slot, b \in Bank : net' = [net EXCEPT ![i][b] = Bad]
      BY <1>8 DEF Rot
    <3> QED
      BY <3>1, NetUpdate, NetUnchanged, BlobMembers
  <2>2. faults' \in 0 .. MaxFaults
    BY <1>8 DEF Rot, TypeOK
  <2> QED
    BY <1>8, <2>1, <2>2 DEF Rot, TypeOK, LoopsOK
<1> QED
  BY <1>2, <1>3, <1>4, <1>5, <1>6, <1>7, <1>8

LEMMA InitType == Init => TypeInv
<1> SUFFICES ASSUME Init PROVE TypeInv
  OBVIOUS
<1>1. legacy \in Legacy \cup {Absent, Bad}
  BY SubmittedAssumption DEF Init, Legacy
<1>2. net \in [Slot -> [Bank -> Blob]] /\ driver \in BOOLEAN
  BY DEF Init, Blob
<1>3. rtc \in Hint /\ faults \in 0 .. MaxFaults
  BY SizeAssumption DEF Init, Hint
<1>4. pc \in [Task -> PC] /\ LoopsOK /\ pos \in [Task -> 0 .. 2 * MaxNets]
  BY SizeAssumption DEF Init, LoopsOK, PC
<1>5. bank \in [Task -> [Slot -> Bank]] /\ write \in [Task -> [Slot -> BOOLEAN]]
  BY DEF Init, Bank
<1>6. hint \in [Task -> Hint] /\ mig \in [Task -> 0 .. 2]
  BY SizeAssumption DEF Init, Hint
<1> QED
  BY <1>1, <1>2, <1>3, <1>4, <1>5, <1>6, DefaultsType DEF Init, TypeInv, TypeOK

LEMMA StutterType == TypeInv /\ UNCHANGED vars => TypeInv'
BY DEF TypeInv, TypeOK, LoopsOK, vars, hints, device, plan, job

LEMMA NextType == TypeInv /\ [Next]_vars => TypeInv'
BY SaveStepType, LoadStepType, CallerType, StutterType DEF Next

\* Every flash blob, loop index and buffer stays in its type, whatever the
\* number of slots: no index of the save's loops leaves the arrays.
THEOREM TypeCorrect == Spec => []TypeOK
<1>1. Spec => []TypeInv
  BY InitType, NextType, PTL DEF Spec
<1>2. TypeInv => TypeOK
  BY DEF TypeInv
<1> QED
  BY <1>1, <1>2, PTL

-----------------------------------------------------------------------------
(* Durability, when the calls of the two tasks never overlap                *)

\* A slot to write has a bank the live meta blob does not reference; a slot to
\* keep already holds its profile in the bank it keeps.
Planned(t) ==
    \A i \in Slot :
        IF write[t][i]
        THEN i < cand[t].count /\ ~Referenced(t, i, bank[t][i])
        ELSE i < cand[t].count => /\ Referenced(t, i, bank[t][i])
                                  /\ net[i][bank[t][i]] = cand[t].nets[i]

\* The slots the write loop has passed hold their profile.
Written(t) ==
    \A i \in Slot :
        write[t][i] /\ (pc[t] = "meta" \/ i < pos[t]) => net[i][bank[t][i]] = cand[t].nets[i]

\* What a save that has not switched generations has done to the content.
KeepsOld(t) ==
    IF Blind(t) THEN SmearOf(Stored, before[t], cand[t]) ELSE Stored = before[t]

SaveInv(t) ==
    /\ pc[t] \in Started \cup {"fail", "nospace"} =>
          /\ (prev[t] = Absent \/ (meta \in Meta /\ prev[t] = meta))
          /\ Blind(t) => "meta" \in missed
          /\ KeepsOld(t)
    /\ pc[t] \in {"write", "meta"} => Planned(t) /\ Written(t)
    /\ pc[t] \in {"release", "legacy", "ok", "torn"} => meta \in Meta /\ Generation(meta) = cand[t]
    /\ pc[t] = "release" => meta.bank = bank[t]
    /\ pc[t] = "write" => pos[t] <= cand[t].count

Durable == TypeInv /\ ReferencedPresent /\ \A t \in Task : SaveInv(t)

\* What the next load finds depends on the referenced banks only, and on the
\* legacy blob only while there is no meta blob.
LEMMA SameStored ==
    ASSUME TypeOK, meta' = meta, meta \in Meta \/ legacy' = legacy,
           "meta" \in missed => "meta" \in missed',
           meta \in Meta =>
              \A i \in Slot : i < meta.count => net'[i][meta.bank[i]] = net[i][meta.bank[i]]
    PROVE  /\ Stored' = Stored
           /\ ReferencedPresent => ReferencedPresent'
           /\ meta \in Meta => Generation(meta)' = Generation(meta)
<1>1. meta \in Meta => Generation(meta)' = Generation(meta)
  BY DEF Generation
<1>2. Stored' = Stored
  BY <1>1 DEF Stored
<1>3. ReferencedPresent => ReferencedPresent'
  BY DEF ReferencedPresent
<1> QED
  BY <1>1, <1>2, <1>3

\* A save that could not read the meta blob has changed one slot of the content,
\* to nothing or to what it saves, or none.
LEMMA Smeared ==
    ASSUME TypeOK, NEW t \in Task, Blind(t), KeepsOld(t), "meta" \in missed,
           UNCHANGED <<meta, prev, before, cand, missed>>,
           NEW i \in Slot, NEW b \in Bank, NEW v \in {Absent, cand[t].nets[i]},
           net' = net \/ net' = [net EXCEPT ![i][b] = v]
    PROVE  /\ KeepsOld(t)' /\ Blind(t)' /\ ReferencedPresent'
           /\ Stored' = Stored \/ Stored' = [Stored EXCEPT !.nets[i] = v]
<1> DEFINE G == Generation(meta)
           old == before[t]
<1>1. meta \in Meta /\ prev[t] = Absent /\ Stored = G /\ Stored' = G'
  BY DEF Blind, Stored
<1>2. /\ G = [setting |-> meta.setting, count |-> meta.count, nets |-> G.nets]
      /\ G.nets = [k \in Slot |-> IF k < meta.count THEN net[k][meta.bank[k]] ELSE Absent]
      /\ G' = [setting |-> meta.setting, count |-> meta.count, nets |-> G'.nets]
      /\ G'.nets = [k \in Slot |-> IF k < meta.count THEN net'[k][meta.bank[k]] ELSE Absent]
  BY DEF Generation
<1>3. \A k \in Slot : meta.bank[k] \in Bank
  BY <1>1 DEF Meta
<1>4. \A k \in Slot, c \in Bank :
        net'[k][c] = net[k][c] \/ (k = i /\ c = b /\ net'[k][c] = v)
  BY DEF TypeOK
<1>5. \A k \in Slot : G'.nets[k] = G.nets[k] \/ (k = i /\ G'.nets[k] = v)
  BY <1>2, <1>3, <1>4
<1>6. G' = G \/ G' = [G EXCEPT !.nets[i] = v]
  <2>1. CASE G'.nets[i] = v
    <3>1. G'.nets = [G.nets EXCEPT ![i] = v]
      BY <1>2, <1>5, <2>1
    <3> QED
      BY <1>2, <3>1
  <2>2. CASE G'.nets[i] # v
    <3>1. G'.nets = G.nets
      BY <1>2, <1>5, <2>2
    <3> QED
      BY <1>2, <3>1
  <2> QED
    BY <2>1, <2>2
<1>7. SmearOf(G, old, cand[t])
  BY <1>1 DEF KeepsOld
<1>8. SmearOf(G', old, cand[t])
  <2>1. \A k \in Slot : G'.nets[k] \in {old.nets[k], Absent, cand[t].nets[k]}
    BY <1>5, <1>7 DEF SmearOf
  <2> QED
    BY <1>2, <1>7, <2>1 DEF SmearOf
<1>9. Blind(t)' /\ SmearOf(Stored, before[t], cand[t])'
  <2>1. SmearOf(Stored, before[t], cand[t])' <=> SmearOf(Stored', before[t], cand[t])
    BY DEF SmearOf
  <2> QED
    BY <1>1, <1>8, <2>1 DEF Blind
<1> QED
  BY <1>1, <1>6, <1>9 DEF KeepsOld, ReferencedPresent

LEMMA OneTask == ASSUME Main = Server PROVE Task = {Main}
BY DEF Task

\* A step that ends every call of storage.c, or starts none, and leaves the
\* flash alone keeps the invariant.
LEMMA QuietStep ==
    ASSUME Durable, TypeInv', UNCHANGED <<net, meta, legacy>>,
           "meta" \in missed => "meta" \in missed',
           \A t \in Task : pc'[t] \notin Saving \cup Returned
    PROVE  Durable'
<1>1. ReferencedPresent'
  BY SameStored DEF Durable, TypeInv
<1>2. \A t \in Task : SaveInv(t)'
  BY DEF SaveInv, Started, Saving, Returned
<1> QED
  BY <1>1, <1>2 DEF Durable

\* A step of another variable than those a save works with.
LEMMA OtherStep ==
    ASSUME Durable, TypeInv', "meta" \in missed => "meta" \in missed', UNCHANGED <<net, meta, legacy, pc, cand, prev, bank, write, pos, before>>
    PROVE  Durable'
<1>1. ReferencedPresent' /\ Stored' = Stored /\ (meta \in Meta => Generation(meta)' = Generation(meta))
  BY SameStored DEF Durable, TypeInv
<1>2. ASSUME NEW t \in Task PROVE SaveInv(t)'
  <2>1. SaveInv(t)
    BY DEF Durable
  <2>2. Planned(t)' = Planned(t) /\ Written(t)' = Written(t)
    BY DEF Planned, Written, Referenced, SlotLive
  <2> QED
    BY <1>1, <2>1, <2>2 DEF SaveInv, Blind, KeepsOld, SmearOf
<1> QED
  BY <1>1, <1>2 DEF Durable

\* A save starts with the flash as it found it.
LEMMA StartSaveDurable ==
    ASSUME Main = Server, Durable, TypeInv', NEW t \in Task,
           NEW c, NEW h, NEW m, StartSave(t, c, h, m)
    PROVE  Durable'
<1>1. ReferencedPresent' /\ Stored' = Stored
  BY SameStored DEF Durable, TypeInv, StartSave
<1>2. /\ pc'[t] \in {"erase", "fail"} /\ before'[t] = Stored /\ meta' = meta
      /\ \/ prev'[t] = IF meta \in Meta THEN meta ELSE Absent
         \/ meta \in Meta /\ prev'[t] = Absent /\ "meta" \in missed'
  BY DEF Durable, TypeInv, TypeOK, StartSave, Goto
<1>3. KeepsOld(t)' /\ (Blind(t)' => "meta" \in missed')
  <2>1. SmearOf(Stored, before[t], cand[t])'
    BY <1>1, <1>2 DEF SmearOf
  <2> QED
    BY <1>1, <1>2, <2>1, KeyAssumption DEF KeepsOld, Blind
<1>4. SaveInv(t)'
  BY <1>1, <1>2, <1>3 DEF SaveInv, Started
<1> QED
  BY <1>1, <1>4, OneTask DEF Durable

\* Each step of a save, by the one task that runs.
LEMMA SaveStepDurable ==
    ASSUME Main = Server, Durable, TypeInv', NEW t \in Task, SaveStep(t)
    PROVE  Durable'
<1> USE SizeAssumption DEF Goto, hints, device, plan, job
<1> SUFFICES ReferencedPresent' /\ SaveInv(t)'
  BY OneTask DEF Durable
<1>0. TypeOK /\ TypeOK' /\ SaveInv(t) /\ ReferencedPresent /\ t \in Task
  BY DEF Durable, TypeInv
<1>1. CASE EraseOrphan(t)
  <2> DEFINE i == pos[t] \div 2
             b == pos[t] % 2
  <2>1. /\ pc[t] \in {"erase", "eraseErr"} /\ (prev[t] = Absent \/ (meta \in Meta /\ prev[t] = meta))
        /\ KeepsOld(t) /\ (Blind(t) => "meta" \in missed)
    BY <1>0, <1>1 DEF EraseOrphan, SaveInv, Started
  <2>2. /\ pc'[t] \in {"erase", "eraseErr", "preflight", "fail"}
        /\ UNCHANGED <<meta, legacy, prev, before, cand, missed>>
    BY <1>0, <1>1 DEF EraseOrphan, TypeOK
  <2>3. net' = net \/ (net' = [net EXCEPT ![i][b] = Absent] /\ ~Referenced(t, i, b))
    BY <1>1 DEF EraseOrphan
  <2>7. i \in Slot /\ b \in Bank
    <3>1. LoopsOK
      BY DEF Durable, TypeInv
    <3>2. pos[t] \in 0 .. 2 * MaxNets /\ pos[t] < 2 * MaxNets
      BY <1>0, <2>1, <3>1 DEF TypeOK, LoopsOK
    <3> QED
      BY <3>2 DEF Slot, Bank
  <2>4. ASSUME ~Blind(t), meta \in Meta, NEW k \in Slot, k < meta.count
        PROVE  net'[k][meta.bank[k]] = net[k][meta.bank[k]]
    <3>1. prev[t] = meta /\ prev[t] # Absent
      BY <2>1, <2>4, KeyAssumption DEF Blind
    <3>2. ~Referenced(t, i, b) => i # k \/ b # meta.bank[k]
      BY <2>4, <3>1 DEF Referenced, SlotLive
    <3>3. meta.bank[k] \in Bank
      BY <2>4 DEF Meta
    <3> QED
      BY <1>0, <2>3, <2>7, <3>2, <3>3 DEF TypeOK
  <2>5. CASE ~Blind(t)
    <3>1. Stored' = Stored /\ ReferencedPresent'
      BY <1>0, <2>2, <2>4, <2>5, SameStored
    <3> QED
      BY <2>1, <2>2, <2>5, <3>1 DEF SaveInv, Started, KeepsOld, Blind
  <2>6. CASE Blind(t)
    <3>1. KeepsOld(t)' /\ Blind(t)' /\ ReferencedPresent'
      BY <1>0, <2>1, <2>2, <2>3, <2>6, <2>7, Smeared
    <3> QED
      BY <2>1, <2>2, <2>6, <3>1 DEF SaveInv, Started
  <2> QED
    BY <2>5, <2>6
<1>2. ASSUME NEW S \in Writes(t), Preflight(t, S) PROVE ReferencedPresent' /\ SaveInv(t)'
  <2>1. /\ pc[t] = "preflight" /\ (prev[t] = Absent \/ (meta \in Meta /\ prev[t] = meta))
        /\ KeepsOld(t) /\ (Blind(t) => "meta" \in missed)
    BY <1>0, <1>2 DEF Preflight, SaveInv, Started
  <2>2. UNCHANGED <<net, meta, legacy, prev, before, cand, missed>>
    BY <1>2 DEF Preflight
  <2>3. Stored' = Stored /\ ReferencedPresent' /\ KeepsOld(t)' /\ Blind(t)' = Blind(t)
    BY <1>0, <2>1, <2>2, SameStored DEF KeepsOld, Blind, SmearOf
  <2>9. Changed(t) \subseteq S /\ S \in SUBSET Slot /\ \A i \in S : i < cand[t].count
    BY DEF Writes
  <2>4. /\ pc'[t] \in {"write", "nospace"} /\ pos'[t] = 0
        /\ write'[t] = [i \in Slot |-> i \in S]
        /\ bank'[t] = [i \in Slot |-> IF ~SlotLive(t, i) \/ i >= cand[t].count THEN 0
                                      ELSE IF i \in S THEN Spare(t, i)
                                      ELSE prev[t].bank[i]]
    BY <1>0, <1>2 DEF Preflight, TypeOK
  <2>5. cand[t].count \in Count
    BY <1>0 DEF TypeOK, Config
  <2>6. ASSUME NEW i \in Slot, SlotLive(t, i) PROVE prev[t].bank[i] \in {0, 1}
    BY <1>0, <2>6 DEF SlotLive, TypeOK, Meta, Bank
  <2>7. Planned(t)'
    <3> SUFFICES ASSUME NEW i \in Slot
                 PROVE  IF write'[t][i]
                        THEN i < cand[t].count /\ ~Referenced(t, i, bank'[t][i])
                        ELSE i < cand[t].count => /\ Referenced(t, i, bank'[t][i])
                                                  /\ net[i][bank'[t][i]] = cand[t].nets[i]
      BY <2>2 DEF Planned, Referenced, SlotLive
    <3>1. write'[t][i] = (i \in S)
      BY <2>4
    <3>2. CASE i \in S
      <4>1. i < cand[t].count
        BY <2>9, <3>2
      <4>2. SlotLive(t, i) => bank'[t][i] = 1 - prev[t].bank[i]
        BY <2>4, <2>5, <3>2, <4>1 DEF Spare, Count, Slot
      <4>3. ~Referenced(t, i, bank'[t][i])
        BY <2>6, <4>2 DEF Referenced
      <4> QED
        BY <3>1, <3>2, <4>1, <4>3
    <3>3. CASE i \notin S /\ i < cand[t].count
      <4>1. Unchanged(t, i)
        BY <2>9, <3>3 DEF Changed
      <4>2. bank'[t][i] = prev[t].bank[i]
        BY <2>4, <2>5, <3>3, <4>1 DEF Unchanged, Count, Slot
      <4> QED
        BY <3>1, <3>3, <4>1, <4>2 DEF Unchanged, Referenced
    <3> QED
      BY <3>1, <3>2, <3>3
  <2>8. Written(t)'
    BY <2>4 DEF Written, Slot
  <2> QED
    BY <2>1, <2>2, <2>3, <2>4, <2>5, <2>7, <2>8 DEF SaveInv, Started, Count
<1>3. CASE WriteNet(t)
  <2> DEFINE i == pos[t]
             b == bank[t][i]
  <2>1. /\ pc[t] = "write" /\ (prev[t] = Absent \/ (meta \in Meta /\ prev[t] = meta))
        /\ KeepsOld(t) /\ (Blind(t) => "meta" \in missed)
        /\ Planned(t) /\ Written(t) /\ i < cand[t].count
    BY <1>0, <1>3 DEF WriteNet, SaveInv, Started
  <2>2. UNCHANGED <<meta, legacy, prev, before, cand, write, bank, missed>>
    BY <1>3 DEF WriteNet
  <2>3. i \in Slot /\ b \in Bank /\ cand[t].count \in Count
    BY <1>0, <2>1 DEF TypeOK, Config, Count, Slot
  <2>4. \/ net' = net /\ ~write[t][i] /\ pc' = pc /\ pos' = [pos EXCEPT ![t] = i + 1]
        \/ /\ net' = [net EXCEPT ![i][b] = cand[t].nets[i]] /\ write[t][i]
           /\ pc' = pc /\ pos' = [pos EXCEPT ![t] = i + 1]
        \/ /\ net' = net \/ (net' = [net EXCEPT ![i][b] = cand[t].nets[i]] /\ write[t][i])
           /\ pc'[t] \in {"fail", "nospace"}
    BY <1>0, <1>3 DEF WriteNet, TypeOK
  <2>5. ASSUME NEW k \in Slot, NEW c \in Bank, k # i \/ c # b
        PROVE  net'[k][c] = net[k][c]
    BY <1>0, <2>3, <2>4, <2>5 DEF TypeOK
  <2>6. ASSUME ~Blind(t), meta \in Meta, NEW k \in Slot, k < meta.count
        PROVE  net'[k][meta.bank[k]] = net[k][meta.bank[k]]
    <3>1. meta.bank[k] \in Bank
      BY <2>6 DEF Meta
    <3>2. write[t][i] => k # i \/ meta.bank[k] # b
      <4>1. prev[t] = meta /\ prev[t] # Absent
        BY <2>1, <2>6, KeyAssumption DEF Blind
      <4> QED
        BY <2>1, <2>3, <2>6, <4>1 DEF Planned, Referenced, SlotLive
    <3> QED
      BY <2>4, <2>5, <3>1, <3>2
  <2>7. KeepsOld(t)' /\ Blind(t)' = Blind(t) /\ ReferencedPresent'
    <3>1. CASE ~Blind(t)
      <4>1. Stored' = Stored /\ ReferencedPresent'
        BY <1>0, <2>2, <2>6, <3>1, SameStored
      <4> QED
        BY <2>1, <2>2, <3>1, <4>1 DEF KeepsOld, Blind
    <3>2. CASE Blind(t)
      BY <1>0, <2>1, <2>2, <2>3, <2>4, <3>2, Smeared
    <3> QED
      BY <3>1, <3>2
  <2>8. ASSUME pc'[t] = "write" PROVE Planned(t)' /\ Written(t)' /\ pos'[t] <= cand[t].count
    <3>1. pos'[t] = i + 1
      BY <1>0, <2>4, <2>8 DEF TypeOK
    <3>2. ASSUME NEW k \in Slot, k # i PROVE net'[k][bank[t][k]] = net[k][bank[t][k]]
      BY <1>0, <2>5, <3>2 DEF TypeOK
    <3>3. write[t][i] => net'[i][b] = cand[t].nets[i]
      BY <1>0, <2>3, <2>4, <2>8 DEF TypeOK
    <3>4. ~write[t][i] => net' = net
      BY <2>4
    <3>5. Planned(t)'
      BY <2>1, <2>2, <3>2, <3>4 DEF Planned, Referenced, SlotLive
    <3>6. ASSUME NEW k \in Slot, write[t][k], k < i + 1 PROVE net'[k][bank[t][k]] = cand[t].nets[k]
      <4>1. CASE k = i
        BY <3>3, <3>6, <4>1
      <4>2. CASE k # i
        BY <2>1, <2>3, <3>2, <3>6, <4>2 DEF Written, Slot
      <4> QED
        BY <4>1, <4>2
    <3>7. Written(t)'
      BY <2>2, <2>8, <3>1, <3>6 DEF Written
    <3> QED
      BY <2>1, <2>3, <3>1, <3>5, <3>7 DEF Slot, Count
  <2>9. pc'[t] \in {"write", "fail", "nospace"}
    BY <2>1, <2>4
  <2> QED
    BY <2>1, <2>2, <2>7, <2>8, <2>9 DEF SaveInv, Started
<1>4. CASE WritesDone(t)
  <2>1. /\ pc[t] = "write" /\ (prev[t] = Absent \/ (meta \in Meta /\ prev[t] = meta))
        /\ KeepsOld(t) /\ (Blind(t) => "meta" \in missed)
        /\ Planned(t) /\ Written(t) /\ pos[t] = cand[t].count
    BY <1>0, <1>4 DEF WritesDone, SaveInv, Started
  <2>2. UNCHANGED <<net, meta, legacy, prev, before, cand, write, bank, missed>>
    BY <1>4 DEF WritesDone
  <2>3. Stored' = Stored /\ ReferencedPresent' /\ KeepsOld(t)' /\ Blind(t)' = Blind(t)
    BY <1>0, <2>1, <2>2, SameStored DEF KeepsOld, Blind, SmearOf
  <2>4. IF MetaDiffers(t) \/ \E i \in Slot : write[t][i] THEN pc'[t] = "meta" ELSE pc'[t] = "legacy"
    BY <1>0, <1>4 DEF WritesDone, TypeOK
  <2>5. cand[t] \in Config
    BY <1>0 DEF TypeOK
  <2>6. CASE pc'[t] = "meta"
    <3>1. \A i \in Slot : write[t][i] => i < pos[t]
      BY <2>1 DEF Planned
    <3>2. Planned(t)' /\ Written(t)'
      BY <2>1, <2>2, <3>1 DEF Planned, Written, Referenced, SlotLive
    <3> QED
      BY <2>1, <2>2, <2>3, <2>6, <3>2 DEF SaveInv, Started
  <2>7. CASE pc'[t] = "legacy"
    <3>1. ~MetaDiffers(t) /\ \A i \in Slot : ~write[t][i]
      BY <2>4, <2>7
    <3>2. /\ prev[t] = meta /\ meta \in Meta
          /\ meta.setting = cand[t].setting /\ meta.count = cand[t].count
      BY <2>1, <3>1 DEF MetaDiffers
    <3>3. \A i \in Slot : i < cand[t].count => net[i][meta.bank[i]] = cand[t].nets[i]
      BY <2>1, <3>1, <3>2 DEF Planned, Referenced
    <3>4. Generation(meta) = cand[t]
      <4> DEFINE nets == [i \in Slot |-> IF i < meta.count THEN net[i][meta.bank[i]] ELSE Absent]
      <4>1. /\ cand[t] = [setting |-> cand[t].setting, count |-> cand[t].count, nets |-> cand[t].nets]
            /\ cand[t].nets = [i \in Slot |-> cand[t].nets[i]]
            /\ cand[t].count \in Int
            /\ \A i \in Slot : i >= cand[t].count => cand[t].nets[i] = Absent
        BY <2>5, SizeAssumption DEF Config, Count
      <4>2. \A i \in Slot : nets[i] = cand[t].nets[i]
        BY <3>2, <3>3, <4>1, SizeAssumption DEF Slot
      <4>3. nets = cand[t].nets
        BY <4>1, <4>2
      <4> QED
        BY <3>2, <4>1, <4>3 DEF Generation
    <3>5. Generation(meta)' = Generation(meta)
      BY <2>2 DEF Generation
    <3> QED
      BY <2>2, <2>3, <2>7, <3>2, <3>4, <3>5 DEF SaveInv, Started
  <2> QED
    BY <2>4, <2>6, <2>7
<1>5. CASE WriteMeta(t)
  <2>1. /\ pc[t] = "meta" /\ (prev[t] = Absent \/ (meta \in Meta /\ prev[t] = meta))
        /\ KeepsOld(t) /\ (Blind(t) => "meta" \in missed)
        /\ Planned(t) /\ Written(t)
    BY <1>0, <1>5 DEF WriteMeta, SaveInv, Started
  <2>2. UNCHANGED <<net, legacy, prev, before, cand, write, bank>>
    BY <1>5 DEF WriteMeta
  <2>3. CASE meta' = meta /\ missed' = missed /\ pc'[t] \in {"fail", "nospace"}
    <3>1. Stored' = Stored /\ ReferencedPresent' /\ KeepsOld(t)' /\ Blind(t)' = Blind(t)
      BY <1>0, <2>1, <2>2, <2>3, SameStored DEF KeepsOld, Blind, SmearOf
    <3> QED
      BY <2>1, <2>2, <2>3, <3>1 DEF SaveInv, Started
  <2>4. CASE /\ meta' = [setting |-> cand[t].setting, count |-> cand[t].count, bank |-> bank[t]]
             /\ pc'[t] \in {"legacy", "release", "torn"}
    <3>1. cand[t] \in Config /\ bank[t] \in [Slot -> Bank]
      BY <1>0 DEF TypeOK
    <3>2. meta' \in Meta /\ meta'.bank = bank[t] /\ meta'.count = cand[t].count
          /\ meta'.setting = cand[t].setting
      BY <2>4, <3>1 DEF Meta, Config
    <3>3. \A i \in Slot : i < cand[t].count => net[i][bank[t][i]] = cand[t].nets[i]
      BY <2>1 DEF Planned, Written
    <3>4. Generation(meta)' = cand[t]
      <4> DEFINE nets == [i \in Slot |-> IF i < cand[t].count THEN net[i][bank[t][i]] ELSE Absent]
      <4>1. nets = cand[t].nets
        <5>1. cand[t].nets \in [Slot -> Profile \cup {Absent}] /\ cand[t].count \in Count
          BY <3>1 DEF Config
        <5>2. \A i \in Slot : ~(i < cand[t].count) => cand[t].nets[i] = Absent
          BY <3>1, <5>1 DEF Config, Slot, Count
        <5>3. \A i \in Slot : nets[i] = cand[t].nets[i]
          BY <3>3, <5>2
        <5> QED
          BY <5>1, <5>3
      <4>2. Generation(meta)' = [setting |-> cand[t].setting, count |-> cand[t].count, nets |-> nets]
        BY <2>2, <3>2 DEF Generation
      <4> HIDE DEF nets
      <4> QED
        BY <3>1, <4>1, <4>2 DEF Config
    <3>5. \A i \in Slot : i < cand[t].count => cand[t].nets[i] # Absent
      BY <3>1 DEF Config, Slot, Count
    <3>6. ReferencedPresent'
      BY <2>2, <3>2, <3>3, <3>5 DEF ReferencedPresent
    <3> QED
      BY <2>2, <2>4, <3>2, <3>4, <3>6 DEF SaveInv, Started
  <2> QED
    BY <1>0, <1>5, <2>3, <2>4 DEF WriteMeta, TypeOK
<1>6. CASE Release(t)
  <2> DEFINE i == pos[t]
             b == prev[t].bank[i]
  <2>1. pc[t] = "release" /\ i < prev[t].count /\ meta \in Meta /\ Generation(meta) = cand[t]
        /\ meta.bank = bank[t]
    BY <1>0, <1>6 DEF Release, SaveInv
  <2>2. UNCHANGED <<meta, legacy, pc, prev, before, cand, write, bank, missed>>
    BY <1>6 DEF Release
  <2>3. net' = net \/ (net' = [net EXCEPT ![i][b] = Absent] /\ Superseded(t, i))
    BY <1>6 DEF Release
  <2>4. i \in Slot /\ b \in Bank
    <3>1. prev[t] \in Meta /\ i \in 0 .. 2 * MaxNets
      BY <1>0, <2>1 DEF TypeOK, Durable, TypeInv, LoopsOK
    <3>2. prev[t].count \in Count /\ prev[t].bank \in [Slot -> Bank]
      BY <3>1 DEF Meta
    <3> QED
      BY <2>1, <3>1, <3>2 DEF Count, Slot
  <2>5. meta.count = cand[t].count
    BY <2>1 DEF Generation
  <2>6. ASSUME NEW k \in Slot, k < meta.count
        PROVE  net'[k][meta.bank[k]] = net[k][meta.bank[k]]
    <3>1. Superseded(t, i) => k # i \/ meta.bank[k] # b
      BY <2>1, <2>4, <2>5, <2>6 DEF Superseded, Slot, Count, Meta
    <3>2. meta.bank[k] \in Bank
      BY <2>1 DEF Meta
    <3> QED
      BY <1>0, <2>3, <2>4, <3>1, <3>2 DEF TypeOK
  <2>7. Stored' = Stored /\ ReferencedPresent' /\ Generation(meta)' = Generation(meta)
    BY <1>0, <2>1, <2>2, <2>6, SameStored
  <2> QED
    BY <2>1, <2>2, <2>7 DEF SaveInv, Started
<1>7. CASE Released(t)
  <2>1. pc[t] = "release" /\ meta \in Meta /\ Generation(meta) = cand[t]
    BY <1>0, <1>7 DEF Released, SaveInv
  <2>2. UNCHANGED <<net, meta, legacy, cand, missed>> /\ pc'[t] = "legacy"
    BY <1>0, <1>7 DEF Released, TypeOK
  <2>3. ReferencedPresent' /\ Generation(meta)' = Generation(meta)
    BY <1>0, <2>1, <2>2, SameStored
  <2> QED
    BY <2>1, <2>2, <2>3 DEF SaveInv, Started
<1>8. CASE EraseLegacy(t)
  <2>1. pc[t] = "legacy" /\ meta \in Meta /\ Generation(meta) = cand[t]
    BY <1>0, <1>8 DEF EraseLegacy, SaveInv
  <2>2. UNCHANGED <<net, meta, cand, missed>> /\ pc'[t] = "ok"
    BY <1>0, <1>8 DEF EraseLegacy, TypeOK
  <2>3. ReferencedPresent' /\ Generation(meta)' = Generation(meta)
    BY <1>0, <2>1, <2>2, SameStored
  <2> QED
    BY <2>1, <2>2, <2>3 DEF SaveInv, Started
<1> QED
  BY <1>1, <1>2, <1>3, <1>4, <1>5, <1>6, <1>7, <1>8 DEF SaveStep

LEMMA LoadStepDurable ==
    ASSUME Main = Server, Durable, TypeInv', NEW t \in Task, LoadStep(t)
    PROVE  Durable'
<1>0. TypeOK /\ pc[t] \in PC
  BY DEF Durable, TypeInv, TypeOK
<1>1. CASE (\E unread \in SUBSET Slot : LoadV6(t, unread)) \/ LoadDefaults(t)
  <2>1. /\ UNCHANGED <<net, meta, legacy>> /\ pc'[t] \in {"loaded", "defaults"}
        /\ "meta" \in missed => "meta" \in missed'
    BY <1>0, <1>1 DEF LoadV6, LoadDefaults, LoadReturns, Goto, TypeOK, hints
  <2> QED
    BY <2>1, OneTask, QuietStep DEF Saving, Returned
<1>2. CASE LoadLegacy(t)
  BY <1>2, StartSaveDurable DEF LoadLegacy
<1>3. CASE Migrated(t)
  <2>1. UNCHANGED <<net, meta, legacy, missed>> /\ pc'[t] \in {"drop", "loaded"}
    BY <1>0, <1>3 DEF Migrated, Goto, TypeOK, hints
  <2> QED
    BY <2>1, OneTask, QuietStep DEF Saving, Returned
<1>4. CASE DropLegacy(t)
  <2>1. UNCHANGED <<net, meta, missed>> /\ pc'[t] = "retry"
    BY <1>0, <1>4 DEF DropLegacy, Goto, TypeOK, hints
  <2>2. ReferencedPresent'
    BY <2>1 DEF Durable, ReferencedPresent
  <2>3. \A u \in Task : SaveInv(u)'
    BY <2>1, OneTask DEF SaveInv, Started
  <2> QED
    BY <2>2, <2>3 DEF Durable
<1>5. CASE Retry(t)
  BY <1>5, StartSaveDurable DEF Retry
<1> QED
  BY <1>1, <1>2, <1>3, <1>4, <1>5 DEF LoadStep

LEMMA CallerDurable ==
    ASSUME Main = Server, Durable, TypeInv',
           \/ \E t \in Task : Done(t)
           \/ \E c \in Submitted : Submit(c)
           \/ \E i \in Slot : NoteSuccess(i)
           \/ Clear \/ BootDone \/ Reboot \/ Rot
    PROVE  Durable'
<1>0. TypeOK
  BY DEF Durable, TypeInv
<1>1. CASE (\E t \in Task : Done(t)) \/ BootDone \/ Reboot
  <2>1. /\ UNCHANGED <<net, meta, legacy>> /\ \A t \in Task : pc'[t] = "idle"
        /\ "meta" \in missed => "meta" \in missed'
    BY <1>0, <1>1, OneTask DEF Done, BootDone, Reboot, Idle, Goto, TypeOK, hints
  <2> QED
    BY <2>1, QuietStep DEF Saving, Returned
<1>2. CASE (\E c \in Submitted : Submit(c)) \/ Clear
  BY <1>2, StartSaveDurable DEF Submit, Clear, Task
<1>3. CASE \E i \in Slot : NoteSuccess(i)
  BY <1>3, OtherStep DEF NoteSuccess, plan, job
<1>4. CASE Rot
  <2>1. \A t \in Task : pc'[t] = "idle"
    BY <1>4, OneTask DEF Rot
  <2>2. \A t \in Task : SaveInv(t)'
    BY <2>1 DEF SaveInv, Started
  <2>4. missed' = missed
    BY <1>4 DEF Rot, hints
  <2>3. ReferencedPresent'
    <3>1. CASE meta' = Bad
      BY <3>1, KeyAssumption DEF ReferencedPresent
    <3>2. CASE meta' = meta /\ \E i \in Slot, b \in Bank :
                                  net[i][b] # Absent /\ net' = [net EXCEPT ![i][b] = Bad]
      <4>1. \A k \in Slot, c \in Bank : net[k][c] # Absent => net'[k][c] # Absent
        BY <1>0, <3>2, ValueAssumption DEF TypeOK
      <4> QED
        BY <2>4, <3>2, <4>1 DEF Durable, ReferencedPresent, Meta
    <3>3. CASE UNCHANGED <<meta, net>>
      BY <2>4, <3>3 DEF Durable, ReferencedPresent
    <3> QED
      BY <1>4, <3>1, <3>2, <3>3 DEF Rot
  <2> QED
    BY <2>2, <2>3 DEF Durable
<1> QED
  BY <1>1, <1>2, <1>3, <1>4

LEMMA InitDurable == Init => Durable
<1> SUFFICES ASSUME Init PROVE Durable
  OBVIOUS
<1>1. meta \notin Meta /\ \A t \in Task : pc[t] = "idle"
  BY KeyAssumption DEF Init
<1> QED
  BY <1>1, InitType DEF Durable, ReferencedPresent, SaveInv, Started

LEMMA NextDurable == Main = Server /\ Durable /\ [Next]_vars => Durable'
<1> SUFFICES ASSUME Main = Server, Durable, [Next]_vars PROVE Durable'
  OBVIOUS
<1>1. TypeInv'
  BY NextType DEF Durable
<1>2. CASE UNCHANGED vars
  BY <1>1, <1>2, OtherStep DEF vars, hints, plan, job
<1>3. CASE Next
  BY <1>1, <1>3, SaveStepDurable, LoadStepDurable, CallerDurable, QuietStep DEF Next
<1> QED
  BY <1>2, <1>3

LEMMA AlwaysDurable == Main = Server /\ Spec => []Durable
<1>1. Main = Server /\ Spec => Init /\ [][Next]_vars
  BY DEF Spec
<1>2. SUFFICES ASSUME Main = Server PROVE Spec => []Durable
  OBVIOUS
<1>3. Durable /\ [Next]_vars => Durable'
  BY <1>2, NextDurable
<1> QED
  BY <1>3, InitDurable, PTL DEF Spec

\* No save, failed save, cleanup or migration, cut off anywhere, erases a
\* network blob the live meta blob references, as long as calls do not overlap.
THEOREM NothingReferencedIsLost == Main = Server /\ Spec => []ReferencedPresent
BY AlwaysDurable, PTL DEF Durable

\* storage_save_v2 that fails before its meta blob reaches flash leaves what
\* the next load finds as it was.
THEOREM FailureIsHarmless == Main = Server /\ Spec => []FailedSaveKeepsOld
<1>1. Durable => FailedSaveKeepsOld
  BY DEF Durable, FailedSaveKeepsOld, SaveInv, KeepsOld
<1> QED
  BY <1>1, AlwaysDurable, PTL

\* storage_save_v2 that returns ESP_OK has made exactly its configuration the
\* one the next load finds.
THEOREM SuccessIsDurable == Main = Server /\ Spec => []SuccessIsLive
<1>1. Durable => SuccessIsLive
  BY DEF Durable, SuccessIsLive, SaveInv, Stored
<1> QED
  BY <1>1, AlwaysDurable, PTL

-----------------------------------------------------------------------------
(* The store implements the register                                        *)

\* What the register has pending, in the one task that runs.
LEMMA PendingStep ==
    ASSUME Main = Server, TypeInv, TypeInv', NEW t \in Task
    PROVE  /\ pc[t] \notin Saving => Pending[t] = Absent
           /\ pc[t] \in Saving => Pending[t] = cand[t] /\ Pending[t] # Absent
           /\ pc'[t] \in Saving => Pending'[t] = cand'[t] /\ Pending'[t] \in Config
           /\ pc'[t] \notin Saving => Pending' = [Pending EXCEPT ![t] = Absent]
           /\ Pending' = [Pending EXCEPT ![t] = Pending'[t]]
           /\ ((pc[t] \in Saving <=> pc'[t] \in Saving) /\ cand'[t] = cand[t]) => Pending' = Pending
           /\ (pc[t] \notin Saving /\ pc'[t] \notin Saving) => Pending' = Pending
<1>1. Task = {t}
  BY OneTask
<1>2. cand[t] \in Config /\ cand'[t] \in Config
  BY DEF TypeInv, TypeOK
<1>3. cand[t] # Absent
  BY <1>2, KeyAssumption
<1> QED
  BY <1>1, <1>2, <1>3 DEF Pending

\* Only a save that has not switched generations is blind.
LEMMA NoBlindSave ==
    ASSUME Main = Server, NEW t \in Task
    PROVE  /\ pc[t] \notin Started => BlindSaves = {}
           /\ pc[t] \in Started /\ Blind(t) => BlindSaves = {t}
           /\ pc'[t] \notin Started => BlindSaves' = {}
           /\ pc'[t] \in Started /\ Blind(t)' => BlindSaves' = {t}
           /\ Blind(t)' = Blind(t) /\ (pc[t] \in Started <=> pc'[t] \in Started)
                => BlindSaves' = BlindSaves
BY OneTask DEF BlindSaves

LEMMA SameFlash == UNCHANGED <<net, meta, legacy>> => Stored' = Stored /\ Format' = Format
BY DEF Stored, Generation, Format

\* A step that leaves the content and its format alone ends the save or is none
\* of the register's business.
LEMMA QuietRegister ==
    ASSUME Main = Server, TypeInv, TypeInv', NEW t \in Task,
           Stored' = Stored, Format' = Format,
           \/ pc'[t] \notin Saving
           \/ pc[t] \in Saving /\ cand'[t] = cand[t] /\ BlindSaves' = BlindSaves
    PROVE  [Register!Next]_(Register!vars)
<1>0. pc'[t] \notin Saving => BlindSaves' = {}
  BY NoBlindSave DEF Started, Saving
<1>1. CASE pc[t] \notin Saving /\ pc'[t] \notin Saving
  <2>1. Pending' = Pending /\ BlindSaves = {} /\ BlindSaves' = {}
    BY <1>1, PendingStep, NoBlindSave DEF Started, Saving
  <2> QED
    BY <2>1 DEF Register!vars
<1>3. CASE pc[t] \in Saving /\ pc'[t] \in Saving
  <2>1. Pending' = Pending
    BY <1>3, PendingStep
  <2> QED
    BY <1>3, <2>1 DEF Register!vars
<1>2. CASE pc'[t] \notin Saving /\ pc[t] \in Saving
  <2>1. Pending[t] # Absent /\ Pending' = [Pending EXCEPT ![t] = Absent]
    BY <1>2, PendingStep
  <2>3. BlindSaves' = BlindSaves \ {t}
    BY <1>0, <1>2, OneTask DEF BlindSaves
  <2>2. Register!End(t)
    BY <2>1, <2>3 DEF Register!End, Register!Ended
  <2> QED
    BY <2>2 DEF Register!Next
<1> QED
  BY <1>1, <1>2, <1>3

\* A save that could not read the meta blob changes one slot, and goes on or ends.
LEMMA SpoilRegister ==
    ASSUME Main = Server, TypeInv, TypeInv', NEW t \in Task, pc[t] \in Started,
           Blind(t), Blind(t)', Format' = Format, cand'[t] = cand[t],
           pc'[t] \in Started \/ pc'[t] \notin Saving,
           NEW i \in Slot, NEW v \in {Absent, cand[t].nets[i]},
           Stored' = Stored \/ Stored' = [Stored EXCEPT !.nets[i] = v]
    PROVE  [Register!Next]_(Register!vars)
<1>1. BlindSaves = {t} /\ pc[t] \in Saving /\ Pending[t] = cand[t]
  BY NoBlindSave, PendingStep DEF Started, Saving
<1>2. CASE Stored' = Stored
  <2>1. pc'[t] \in Started => BlindSaves' = BlindSaves
    BY <1>1, NoBlindSave
  <2> QED
    BY <1>1, <1>2, <2>1, QuietRegister
<1>3. CASE Stored' = [Stored EXCEPT !.nets[i] = v]
  <2>1. CASE pc'[t] \in Started
    <3>1. Pending' = Pending /\ BlindSaves' = BlindSaves
      BY <1>1, <2>1, PendingStep, NoBlindSave DEF Started, Saving
    <3>2. Register!Spoil(t)
      BY <1>1, <1>3, <3>1 DEF Register!Spoil
    <3> QED
      BY <3>2 DEF Register!Next
  <2>2. CASE pc'[t] \notin Saving
    <3>1. Pending' = [Pending EXCEPT ![t] = Absent] /\ BlindSaves' = BlindSaves \ {t}
      BY <1>1, <2>2, PendingStep, NoBlindSave DEF Started, Saving
    <3>2. Register!Spoil(t)
      BY <1>1, <1>3, <3>1 DEF Register!Spoil, Register!Ended
    <3> QED
      BY <3>2 DEF Register!Next
  <2> QED
    BY <2>1, <2>2
<1> QED
  BY <1>2, <1>3

LEMMA StartSaveRegister ==
    ASSUME Main = Server, TypeInv, TypeInv', NEW t \in Task, NEW c, NEW h, NEW m,
           StartSave(t, c, h, m), pc[t] \notin Saving
    PROVE  [Register!Next]_(Register!vars)
<1>1. Stored' = Stored /\ Format' = Format
  BY SameFlash DEF StartSave
<1>2. CASE pc'[t] \notin Saving
  BY <1>1, <1>2, QuietRegister
<1>3. CASE pc'[t] \in Saving
  <2>1. /\ Pending[t] = Absent /\ Pending'[t] \in Config
        /\ Pending' = [Pending EXCEPT ![t] = Pending'[t]]
    BY <1>3, PendingStep
  <2>3. BlindSaves = {}
    BY NoBlindSave DEF Started, Saving
  <2>4. BlindSaves' = {} \/ (BlindSaves' = {t} /\ Format = "v6")
    <3>1. meta' = meta
      BY DEF StartSave
    <3>2. BlindSaves' \subseteq {t} /\ (BlindSaves' # {} => Blind(t)')
      BY OneTask DEF BlindSaves
    <3>3. Blind(t)' => Format = "v6"
      BY <3>1, KeyAssumption DEF Blind, Format
    <3> QED
      BY <3>2, <3>3
  <2>2. Register!Begin(t)
    BY <1>1, <2>1, <2>3, <2>4 DEF Register!Begin
  <2> QED
    BY <2>2 DEF Register!Next
<1> QED
  BY <1>2, <1>3

\* The meta blob reaches flash: the register takes the whole configuration.
LEMMA MetaRegister ==
    ASSUME Main = Server, Durable, Durable', NEW t \in Task, pc[t] = "meta",
           meta' \in Meta, Generation(meta)' = cand[t], cand'[t] = cand[t],
           pc'[t] \in {"legacy", "release", "torn"}
    PROVE  [Register!Next]_(Register!vars)
<1>0. TypeInv /\ TypeInv'
  BY DEF Durable
<1>1. Stored' = cand[t] /\ Format' = "v6"
  BY KeyAssumption DEF Stored, Format
<1>2. Pending[t] = cand[t] /\ Pending[t] # Absent
  BY <1>0, PendingStep DEF Saving
<1>3. Pending' = Pending \/ Pending' = [Pending EXCEPT ![t] = Absent]
  BY <1>0, PendingStep DEF Saving
<1>5. BlindSaves' = {} /\ BlindSaves \ {t} = {}
  BY OneTask, NoBlindSave DEF Started, BlindSaves
<1>4. Register!Commit(t)
  BY <1>1, <1>2, <1>3, <1>5 DEF Register!Commit, Register!Ended
<1> QED
  BY <1>4 DEF Register!Next

\* A step of a save that switches no generation and touches at most one bank.
LEMMA StartedStep ==
    ASSUME Main = Server, Durable, Durable', NEW t \in Task, pc[t] \in Started,
           Format' = Format, UNCHANGED <<meta, prev, before, cand, missed>>,
           pc'[t] \in Started \cup {"fail", "nospace"},
           NEW i \in Slot, NEW b \in Bank, NEW v \in {Absent, cand[t].nets[i]},
           net' = net \/ net' = [net EXCEPT ![i][b] = v]
    PROVE  [Register!Next]_(Register!vars)
<1>1. TypeInv /\ TypeInv' /\ TypeOK /\ SaveInv(t) /\ SaveInv(t)'
  BY DEF Durable, TypeInv
<1>2. KeepsOld(t) /\ KeepsOld(t)' /\ (Blind(t) => "meta" \in missed) /\ Blind(t)' = Blind(t)
  BY <1>1 DEF SaveInv, Blind
<1>3. CASE ~Blind(t)
  <2>1. Stored' = Stored
    BY <1>2, <1>3 DEF KeepsOld
  <2>2. BlindSaves = {} /\ BlindSaves' = {}
    BY <1>2, <1>3, OneTask DEF BlindSaves
  <2> QED
    BY <1>1, <2>1, <2>2, QuietRegister DEF Started, Saving
<1>4. CASE Blind(t)
  <2>1. Stored' = Stored \/ Stored' = [Stored EXCEPT !.nets[i] = v]
    BY <1>1, <1>2, <1>4, Smeared
  <2>2. pc'[t] \in Started \/ pc'[t] \notin Saving
    BY DEF Saving
  <2>3. Blind(t)' /\ cand'[t] = cand[t]
    BY <1>2, <1>4
  <2> QED
    BY <1>1, <1>4, <2>1, <2>2, <2>3, SpoilRegister
<1> QED
  BY <1>3, <1>4

\* One that touches none.
LEMMA QuietStarted ==
    ASSUME Main = Server, TypeInv, TypeInv', NEW t \in Task, pc[t] \in Started,
           UNCHANGED <<net, meta, legacy, prev, cand>>,
           pc'[t] \in Started \cup {"fail", "nospace"}
    PROVE  [Register!Next]_(Register!vars)
<1>1. Stored' = Stored /\ Format' = Format
  BY SameFlash
<1>2. pc'[t] \in Started => BlindSaves' = BlindSaves
  BY NoBlindSave DEF Blind
<1>3. pc[t] \in Saving /\ (pc'[t] \notin Started => pc'[t] \notin Saving)
  BY DEF Started, Saving
<1> QED
  BY <1>1, <1>2, <1>3, QuietRegister

LEMMA BankIndex ==
    ASSUME NEW q \in Nat, q < 2 * MaxNets
    PROVE  q \div 2 \in Slot /\ q % 2 \in Bank /\ q = 2 * (q \div 2) + (q % 2)
BY SizeAssumption DEF Slot, Bank

LEMMA SaveStepRegister ==
    ASSUME Main = Server, Durable, Durable', NEW t \in Task, SaveStep(t)
    PROVE  [Register!Next]_(Register!vars)
<1> USE DEF Goto, hints, device, plan, job
<1>0. TypeOK /\ TypeOK' /\ TypeInv /\ TypeInv' /\ SaveInv(t) /\ SaveInv(t)'
  BY DEF Durable, TypeInv
<1>1. CASE EraseOrphan(t)
  <2> DEFINE i == pos[t] \div 2
             b == pos[t] % 2
  <2>1. /\ pc[t] \in {"erase", "eraseErr"} /\ pc'[t] \in {"erase", "eraseErr", "preflight", "fail"}
        /\ UNCHANGED <<meta, legacy, prev, before, cand, missed>>
        /\ net' = net \/ net' = [net EXCEPT ![i][b] = Absent]
    BY <1>0, <1>1 DEF EraseOrphan, TypeOK
  <2>2. Format' = Format
    BY <2>1 DEF Format
  <2>3. i \in Slot /\ b \in Bank
    <3>1. pos[t] \in Nat /\ pos[t] < 2 * MaxNets
      BY <1>0, <2>1 DEF TypeInv, LoopsOK, TypeOK
    <3> QED
      BY <3>1, BankIndex
  <2> QED
    BY <1>0, <2>1, <2>2, <2>3, StartedStep DEF Started
<1>2. ASSUME NEW S \in Writes(t), Preflight(t, S) PROVE [Register!Next]_(Register!vars)
  <2>1. /\ pc[t] = "preflight" /\ UNCHANGED <<net, meta, legacy, prev, before, cand, missed>>
        /\ pc'[t] \in {"write", "nospace"}
    BY <1>0, <1>2 DEF Preflight, TypeOK
  <2> QED
    BY <1>0, <2>1, SameFlash, QuietStarted DEF Started
<1>3. CASE WriteNet(t)
  <2> DEFINE i == pos[t]
             b == bank[t][i]
  <2>1. /\ pc[t] = "write" /\ pc'[t] \in {"write", "fail", "nospace"}
        /\ UNCHANGED <<meta, legacy, prev, before, cand, missed>>
        /\ net' = net \/ net' = [net EXCEPT ![i][b] = cand[t].nets[i]]
        /\ i < cand[t].count
    BY <1>0, <1>3 DEF WriteNet, TypeOK
  <2>2. Format' = Format
    BY <2>1 DEF Format
  <2>3. i \in Slot /\ b \in Bank
    <3>1. cand[t].count \in Count /\ i \in 0 .. 2 * MaxNets /\ i < cand[t].count
      BY <1>0, <2>1 DEF TypeOK, Config
    <3>2. i \in Slot
      BY <3>1, SizeAssumption DEF Count, Slot
    <3> QED
      BY <1>0, <3>2 DEF TypeOK
  <2> QED
    BY <1>0, <2>1, <2>2, <2>3, StartedStep DEF Started
<1>4. CASE WritesDone(t)
  <2>1. /\ pc[t] = "write" /\ UNCHANGED <<net, meta, legacy, prev, before, cand, missed>>
        /\ pc'[t] = IF MetaDiffers(t) \/ \E i \in Slot : write[t][i] THEN "meta" ELSE "legacy"
    BY <1>0, <1>4 DEF WritesDone, TypeOK
  <2>2. CASE pc'[t] = "meta"
    BY <1>0, <2>1, <2>2, SameFlash, QuietStarted DEF Started
  <2>3. CASE pc'[t] = "legacy"
    <3>1. ~Blind(t)
      BY <2>1, <2>3 DEF MetaDiffers, Blind
    <3>2. BlindSaves = {} /\ BlindSaves' = {}
      BY <2>3, <3>1, OneTask, NoBlindSave DEF BlindSaves, Started
    <3> QED
      BY <1>0, <2>1, <2>3, <3>2, SameFlash, QuietRegister DEF Saving
  <2> QED
    BY <2>1, <2>2, <2>3
<1>5. CASE WriteMeta(t)
  <2>1. pc[t] = "meta" /\ UNCHANGED <<net, legacy, cand>>
    BY <1>5 DEF WriteMeta
  <2>2. CASE meta' = meta /\ pc'[t] \in {"fail", "nospace"}
    BY <1>0, <2>1, <2>2, SameFlash, QuietRegister DEF Saving
  <2>3. CASE pc'[t] \in {"legacy", "release", "torn"}
    <3>1. meta' \in Meta /\ Generation(meta)' = cand'[t]
      BY <1>0, <2>3 DEF SaveInv
    <3> QED
      BY <2>1, <2>3, <3>1, MetaRegister
  <2> QED
    BY <1>0, <1>5, <2>2, <2>3 DEF WriteMeta, TypeOK
<1>6. CASE Release(t) \/ Released(t) \/ EraseLegacy(t)
  <2>1. /\ pc[t] \in {"release", "legacy"} /\ pc'[t] \in {"release", "legacy", "ok"}
        /\ UNCHANGED <<meta, cand>>
    BY <1>0, <1>6 DEF Release, Released, EraseLegacy, TypeOK
  <2>2. meta \in Meta /\ Stored = cand[t] /\ Stored' = cand'[t]
    BY <1>0, <2>1 DEF SaveInv, Stored
  <2>3. Format' = Format
    BY <2>1, <2>2, KeyAssumption DEF Format
  <2>4. BlindSaves = {} /\ BlindSaves' = {}
    BY <2>1, NoBlindSave DEF Started
  <2> QED
    BY <1>0, <2>1, <2>2, <2>3, <2>4, QuietRegister DEF Saving
<1> QED
  BY <1>1, <1>2, <1>3, <1>4, <1>5, <1>6 DEF SaveStep

LEMMA LoadStepRegister ==
    ASSUME Main = Server, Durable, Durable', NEW t \in Task, LoadStep(t)
    PROVE  [Register!Next]_(Register!vars)
<1> USE DEF Goto, hints, device, plan, job
<1>0. TypeOK /\ TypeOK' /\ TypeInv /\ TypeInv'
  BY DEF Durable, TypeInv
<1>1. CASE (\E unread \in SUBSET Slot : LoadV6(t, unread)) \/ LoadDefaults(t) \/ Migrated(t)
  <2>1. UNCHANGED <<net, meta, legacy>> /\ pc'[t] \in {"loaded", "defaults", "drop"}
    BY <1>0, <1>1 DEF LoadV6, LoadDefaults, LoadReturns, Migrated, TypeOK
  <2> QED
    BY <1>0, <2>1, SameFlash, QuietRegister DEF Saving
<1>2. CASE LoadLegacy(t)
  BY <1>0, <1>2, StartSaveRegister DEF LoadLegacy, CanLoad, Saving
<1>3. CASE DropLegacy(t)
  <2>1. /\ pc[t] = "drop" /\ pc'[t] = "retry" /\ UNCHANGED <<net, meta>>
        /\ legacy' \in {Absent, legacy}
    BY <1>0, <1>3 DEF DropLegacy, TypeOK
  <2>2. CASE meta # Absent \/ legacy' = legacy
    <3>1. Stored' = Stored /\ Format' = Format
      BY <1>0, <2>1, <2>2 DEF Stored, Generation, Format, TypeOK
    <3> QED
      BY <1>0, <2>1, <3>1, QuietRegister DEF Saving
  <2>3. CASE meta = Absent /\ legacy' = Absent /\ legacy # Absent
    <3>1. Format = "legacy" /\ Format' = "none" /\ Stored' = Defaults
      BY <2>1, <2>3, KeyAssumption DEF Format, Stored
    <3>2. Pending' = Pending /\ BlindSaves = {} /\ BlindSaves' = {}
      BY <1>0, <2>1, PendingStep, NoBlindSave DEF Saving, Started
    <3>3. Register!Forfeit
      BY <3>1, <3>2 DEF Register!Forfeit
    <3> QED
      BY <3>3 DEF Register!Next
  <2> QED
    BY <2>1, <2>2, <2>3
<1>4. CASE Retry(t)
  BY <1>0, <1>4, StartSaveRegister DEF Retry, Saving
<1> QED
  BY <1>1, <1>2, <1>3, <1>4 DEF LoadStep

\* A network blob that rots spoils one slot of the register, or none.
LEMMA RotRegister ==
    ASSUME Main = Server, TypeInv, TypeInv', Rot
    PROVE  [Register!Next]_(Register!vars)
<1>0. TypeOK /\ Main \in Task /\ pc[Main] = "idle" /\ pc' = pc
  BY DEF TypeInv, Rot, Task
<1>1. Pending = [t \in Task |-> Absent] /\ Pending' = Pending /\ BlindSaves = {} /\ BlindSaves' = {}
  BY <1>0, OneTask DEF Pending, Saving, BlindSaves, Started
<1>2. ASSUME Stored' = Stored, Format' = Format PROVE UNCHANGED Register!vars
  BY <1>1, <1>2 DEF Register!vars
<1>3. ASSUME Format' = Format,
             Stored' = Defaults \/ \E i \in Slot : Stored' = [Stored EXCEPT !.nets[i] = Bad]
      PROVE  Register!Next
  <2>1. Register!Decay
    BY <1>1, <1>3 DEF Register!Decay
  <2> QED
    BY <2>1 DEF Register!Next
<1>4. CASE meta \in Meta /\ meta' = Bad /\ UNCHANGED <<net, legacy>>
  <2>1. Stored' = Defaults /\ Format' = Format
    BY <1>4, KeyAssumption, ValueAssumption DEF Stored, Format
  <2> QED
    BY <1>3, <2>1
<1>5. CASE legacy \in Legacy /\ legacy' = Bad /\ UNCHANGED <<net, meta>>
  <2>1. Format' = Format
    BY <1>5, KeyAssumption, ValueAssumption DEF Format
  <2>2. Stored' = Stored \/ Stored' = Defaults
    BY <1>5, KeyAssumption DEF Stored, Generation
  <2> QED
    BY <1>2, <1>3, <2>1, <2>2
<1>6. ASSUME NEW i \in Slot, NEW b \in Bank, net' = [net EXCEPT ![i][b] = Bad],
             UNCHANGED <<meta, legacy>>
      PROVE  [Register!Next]_(Register!vars)
  <2>1. Format' = Format
    BY <1>6 DEF Format
  <2>2. CASE meta \notin Meta
    <3>1. Stored' = Stored
      BY <1>6, <2>2 DEF Stored
    <3> QED
      BY <1>2, <2>1, <3>1
  <2>3. CASE meta \in Meta
    <3> DEFINE G == Generation(meta)
    <3>1. Stored = G /\ Stored' = G'
      BY <1>6, <2>3 DEF Stored
    <3>2. G = [setting |-> meta.setting, count |-> meta.count, nets |-> G.nets]
          /\ G.nets = [k \in Slot |-> IF k < meta.count THEN net[k][meta.bank[k]] ELSE Absent]
      BY DEF Generation
    <3>3. G' = [setting |-> meta.setting, count |-> meta.count, nets |-> G'.nets]
          /\ G'.nets = [k \in Slot |-> IF k < meta.count THEN net'[k][meta.bank[k]] ELSE Absent]
      BY <1>6 DEF Generation
    <3>4. \A k \in Slot, c \in Bank : net'[k][c] = IF k = i /\ c = b THEN Bad ELSE net[k][c]
      BY <1>0, <1>6 DEF TypeOK
    <3>5. \A k \in Slot : meta.bank[k] \in Bank
      BY <2>3 DEF Meta
    <3>6. CASE i < meta.count /\ meta.bank[i] = b
      <4>1. G'.nets = [G.nets EXCEPT ![i] = Bad]
        <5>1. \A k \in Slot : G'.nets[k] = IF k = i THEN Bad ELSE G.nets[k]
          BY <3>2, <3>3, <3>4, <3>5, <3>6
        <5> QED
          BY <3>2, <3>3, <5>1
      <4>2. G' = [G EXCEPT !.nets[i] = Bad]
        BY <3>2, <3>3, <4>1
      <4> QED
        BY <1>3, <2>1, <3>1, <4>2
    <3>7. CASE ~(i < meta.count /\ meta.bank[i] = b)
      <4>1. \A k \in Slot : G'.nets[k] = G.nets[k]
        BY <3>2, <3>3, <3>4, <3>5, <3>7
      <4>2. G'.nets = G.nets
        BY <3>2, <3>3, <4>1
      <4>3. G' = G
        BY <3>2, <3>3, <4>2
      <4> QED
        BY <1>2, <2>1, <3>1, <4>3
    <3> QED
      BY <3>6, <3>7
  <2> QED
    BY <2>2, <2>3
<1> QED
  BY <1>4, <1>5, <1>6 DEF Rot

LEMMA CallerRegister ==
    ASSUME Main = Server, Durable, Durable',
           \/ \E t \in Task : Done(t)
           \/ \E c \in Submitted : Submit(c)
           \/ \E i \in Slot : NoteSuccess(i)
           \/ Clear \/ BootDone \/ Reboot \/ Rot
    PROVE  [Register!Next]_(Register!vars)
<1> USE DEF Goto, hints, device, plan, job
<1>0. TypeOK /\ TypeOK' /\ TypeInv /\ TypeInv' /\ Main \in Task /\ Server \in Task
  BY DEF Durable, TypeInv, Task
<1>1. CASE (\E t \in Task : Done(t)) \/ BootDone
  <2>1. UNCHANGED <<net, meta, legacy>> /\ pc'[Main] = "idle"
    BY <1>0, <1>1, OneTask DEF Done, BootDone, Idle, TypeOK
  <2> QED
    BY <1>0, <2>1, SameFlash, QuietRegister DEF Saving
<1>2. CASE \E c \in Submitted : Submit(c)
  BY <1>0, <1>2, StartSaveRegister DEF Submit, Saving
<1>3. CASE Clear
  BY <1>0, <1>3, StartSaveRegister DEF Clear, Saving
<1>4. CASE \E i \in Slot : NoteSuccess(i)
  <2>1. UNCHANGED <<net, meta, legacy, pc, cand, prev>>
    BY <1>4 DEF NoteSuccess
  <2>2. BlindSaves' = BlindSaves
    BY <2>1 DEF BlindSaves, Blind
  <2> QED
    BY <1>0, <2>1, <2>2, SameFlash, QuietRegister
<1>5. CASE Reboot
  <2>1. UNCHANGED <<net, meta, legacy>> /\ pc' = [t \in Task |-> "idle"]
    BY <1>5 DEF Reboot
  <2> QED
    BY <1>0, <2>1, SameFlash, QuietRegister DEF Saving
<1>6. CASE Rot
  BY <1>0, <1>6, RotRegister
<1> QED
  BY <1>1, <1>2, <1>3, <1>4, <1>5, <1>6

LEMMA InitRegister == Init => Register!Init
<1> SUFFICES ASSUME Init PROVE Register!Init
  OBVIOUS
<1>1. Pending = [t \in Task |-> Absent] /\ BlindSaves = {}
  BY DEF Init, Pending, Saving, BlindSaves, Started
<1>2. CASE legacy = Absent
  <2>1. Format = "none" /\ Stored = Defaults
    BY <1>2, KeyAssumption DEF Init, Format, Stored
  <2> QED
    BY <1>1, <2>1 DEF Register!Init
<1>3. CASE legacy # Absent
  <2>1. legacy \in Legacy /\ legacy.cfg \in Config
    BY <1>3, SubmittedAssumption DEF Init, Legacy
  <2>2. Format = "legacy" /\ Stored = legacy.cfg
    BY <1>3, <2>1, KeyAssumption DEF Init, Format, Stored
  <2> QED
    BY <1>1, <2>1, <2>2 DEF Register!Init
<1> QED
  BY <1>2, <1>3

LEMMA NextRegister ==
    ASSUME Main = Server, Durable, Durable', [Next]_vars
    PROVE  [Register!Next]_(Register!vars)
<1>0. TypeInv /\ TypeInv' /\ Main \in Task
  BY DEF Durable, Task
<1>1. CASE UNCHANGED vars
  <2>1. UNCHANGED <<net, meta, legacy, pc, cand, prev>>
    BY <1>1 DEF vars, job, plan
  <2>2. BlindSaves' = BlindSaves
    BY <2>1 DEF BlindSaves, Blind
  <2> QED
    BY <1>0, <2>1, <2>2, SameFlash, QuietRegister
<1>2. CASE Next
  BY <1>2, SaveStepRegister, LoadStepRegister, CallerRegister DEF Next
<1> QED
  BY <1>1, <1>2

\* The store implements the register for every number of slots and every
\* partition: whatever call fails and wherever the power goes, storage_save_v2
\* replaces the whole configuration at its meta write or leaves all of it.
THEOREM StoreImplementsRegister == Main = Server /\ Spec => ImplementsRegister
<1>1. SUFFICES ASSUME Main = Server PROVE Spec => ImplementsRegister
  OBVIOUS
<1>2. Spec => []Durable
  BY <1>1, AlwaysDurable
<1>3. Durable /\ Durable' /\ [Next]_vars => [Register!Next]_(Register!vars)
  BY <1>1, NextRegister
<1> QED
  BY <1>2, <1>3, InitRegister, PTL DEF Spec, ImplementsRegister, Register!Spec

-----------------------------------------------------------------------------
(* The capacity guard                                                       *)

\* Where the erase loop has been, a slot has at most one bank in use: the one
\* the meta blob references, or an orphan whose erase failed and whose error
\* the erase of its other bank then hid.
OneBank(i) == net[i][0] = Absent \/ net[i][1] = Absent
Swept(t) ==
    \A i \in Slot :
        /\ pc[t] \in {"erase", "eraseErr"} /\ 2 * i + 1 < pos[t] => OneBank(i)
        /\ pc[t] = "erase" /\ pos[t] = 2 * i + 1 => Referenced(t, i, 0) \/ net[i][0] = Absent
        /\ pc[t] = "preflight" => OneBank(i)

EraseInv == TypeInv /\ \A t \in Task : Swept(t)

\* One bank per slot is at most MaxNets network blobs.
LEMMA OneBankUses ==
    ASSUME TypeOK, \A i \in Slot : OneBank(i), legacy = Absent, ~driver
    PROVE  Used \in Int /\ Used <= MaxNets * NetCost + MetaCost + MiscCost
<1> DEFINE nets == {k \in Slot \X Bank : net[k[1]][k[2]] # Absent}
           slot == [k \in nets |-> k[1]]
           n == Cardinality(nets)
           metaUse == IF meta = Absent THEN 0 ELSE MetaCost
<1>1. IsFiniteSet(Slot) /\ Cardinality(Slot) = MaxNets
  BY FS_Interval, SizeAssumption DEF Slot
<1>2. slot \in [nets -> Slot]
  OBVIOUS
<1>3. ASSUME NEW k \in nets, NEW l \in nets, k[1] = l[1] PROVE k = l
  <2>1. k[2] \in Bank /\ l[2] \in Bank /\ k[1] \in Slot
        /\ net[k[1]][k[2]] # Absent /\ net[k[1]][l[2]] # Absent
    BY <1>3
  <2>2. OneBank(k[1])
    BY <2>1
  <2>3. k[2] = l[2]
    BY <2>1, <2>2 DEF OneBank, Bank
  <2> QED
    BY <1>3, <2>3
<1>4. slot \in Injection(nets, Slot)
  BY <1>2, <1>3 DEF Injection, IsInjective
<1>5. n \in Nat /\ n <= MaxNets
  BY <1>1, <1>4, FS_Injection, FS_CardinalityType
<1>6. NetCost \in Nat /\ MetaCost \in Nat /\ MiscCost \in Nat /\ MaxNets \in Nat
  BY CostAssumption, SizeAssumption
<1>7. n * NetCost \in Nat /\ n * NetCost <= MaxNets * NetCost
  BY <1>5, <1>6, SMT
<1>8. Used = n * NetCost + metaUse + 0 + 0 + MiscCost
  BY DEF Used
<1>9. metaUse \in Nat /\ metaUse <= MetaCost
  BY <1>6
<1> HIDE DEF n, metaUse
<1> QED
  BY <1>6, <1>7, <1>8, <1>9

\* The static assertion on the partition covers one bank per slot in use and a
\* second one for every slot a save may have to write.
LEMMA RoomToSave ==
    ASSUME TypeOK, NEW t \in Task, \A i \in Slot : OneBank(i),
           NEW S \in SUBSET Slot, Refuses(t, S)
    PROVE  legacy # Absent \/ driver
<1> SUFFICES ASSUME legacy = Absent, ~driver PROVE FALSE
  OBVIOUS
<1> DEFINE n == Cardinality(S)
<1>1. IsFiniteSet(Slot) /\ Cardinality(Slot) = MaxNets
  BY FS_Interval, SizeAssumption DEF Slot
<1>3. n \in Nat /\ n <= MaxNets
  BY <1>1, FS_Subset, FS_CardinalityType
<1>4. /\ NetCost \in Nat /\ MetaCost \in Nat /\ MiscCost \in Nat /\ Slack \in Nat
      /\ Capacity \in Nat /\ MaxNets \in Nat
  BY CostAssumption, SizeAssumption
<1>5. n * NetCost \in Nat /\ n * NetCost <= MaxNets * NetCost /\ MaxNets * NetCost \in Nat
  BY <1>3, <1>4, SMT
<1>6. 2 * MaxNets * NetCost = MaxNets * NetCost + MaxNets * NetCost
  BY <1>4, SMT
<1>7. Used \in Int /\ Used <= MaxNets * NetCost + MetaCost + MiscCost
  BY OneBankUses
<1>8. Capacity - Used < n * NetCost + MetaCost + Slack
  BY DEF Refuses
<1> HIDE DEF n
<1> DEFINE all == MaxNets * NetCost
           some == n * NetCost
<1>9. all + all + 2 * MetaCost + MiscCost + Slack <= Capacity
  BY <1>6, BudgetAssumption
<1> HIDE DEF all, some
<1>10. some <= all /\ some \in Nat /\ all \in Nat /\ Used <= all + MetaCost + MiscCost
       /\ Capacity - Used < some + MetaCost + Slack
  BY <1>5, <1>7, <1>8 DEF all, some
<1> QED
  BY <1>4, <1>7, <1>9, <1>10

LEMMA NotErasing ==
    ASSUME Main = Server, TypeInv', NEW t \in Task,
           pc'[t] \notin {"erase", "eraseErr", "preflight"}
    PROVE  EraseInv'
BY OneTask DEF EraseInv, Swept

LEMMA StartSaveSwept ==
    ASSUME Main = Server, TypeInv, TypeInv', NEW t \in Task, NEW c, NEW h, NEW m,
           StartSave(t, c, h, m)
    PROVE  EraseInv'
<1>1. pc'[t] \in {"erase", "fail"} /\ pos'[t] = 0
  BY DEF StartSave, Goto, TypeInv, TypeOK
<1>2. Swept(t)'
  BY <1>1, SizeAssumption DEF Swept, Slot
<1> QED
  BY <1>2, OneTask DEF EraseInv

\* The position of a loop over the banks names one slot and one bank.
LEMMA OnePosition ==
    ASSUME NEW i \in Slot, NEW b \in Bank, NEW k \in Slot, NEW c \in Bank,
           2 * i + b = 2 * k + c
    PROVE  i = k /\ b = c
  BY DEF Slot, Bank

\* The loop goes over the banks in order; an error it forgets has cost it one
\* orphan of a slot whose other bank it erased.
LEMMA EraseOrphanSwept ==
    ASSUME Main = Server, EraseInv, TypeInv', NEW t \in Task, EraseOrphan(t)
    PROVE  EraseInv'
<1>0. TypeOK /\ LoopsOK /\ Swept(t)
  BY DEF EraseInv, TypeInv
<1>1. pos[t] \in Nat /\ pos[t] < 2 * MaxNets /\ pc[t] \in {"erase", "eraseErr"}
  BY <1>0 DEF EraseOrphan, TypeOK, LoopsOK
<1>2. PICK i \in Slot, b \in Bank :
            pos[t] = 2 * i + b /\ i = pos[t] \div 2 /\ b = pos[t] % 2
  <2>1. /\ pos[t] \div 2 \in Slot /\ pos[t] % 2 \in Bank
        /\ pos[t] = 2 * (pos[t] \div 2) + (pos[t] % 2)
    BY <1>1, BankIndex
  <2> USE <2>1
  <2> WITNESS pos[t] \div 2 \in Slot, pos[t] % 2 \in Bank
  <2> QED
    OBVIOUS
<1>3. pos'[t] = pos[t] + 1 /\ UNCHANGED prev
  BY <1>0 DEF EraseOrphan, TypeOK, plan
<1>4. /\ pc'[t] \in {"erase", "eraseErr", "preflight", "fail"}
      /\ pc'[t] = "eraseErr" => b = 0
      /\ pc'[t] = "preflight" => pos[t] = 2 * MaxNets - 1
      /\ pc'[t] = "erase" => pos[t] # 2 * MaxNets - 1
  BY <1>0, <1>1, <1>2 DEF EraseOrphan, Goto, TypeOK, Bank
<1>5. net' = net \/ net' = [net EXCEPT ![i][b] = Absent]
  BY <1>2 DEF EraseOrphan
<1>6. /\ \A k \in Slot, c \in Bank : net'[k][c] = net[k][c] \/ net'[k][c] = Absent
      /\ \A k \in Slot : OneBank(k) => OneBank(k)'
  <2>1. \A k \in Slot, c \in Bank : net'[k][c] = net[k][c] \/ net'[k][c] = Absent
    <3> SUFFICES ASSUME NEW k \in Slot, NEW c \in Bank PROVE net'[k][c] \in {net[k][c], Absent}
      OBVIOUS
    <3>1. net \in [Slot -> [Bank -> Blob]]
      BY <1>0 DEF TypeOK
    <3>2. CASE net' = [net EXCEPT ![i][b] = Absent]
      <4>1. net'[k] = IF k = i THEN [net[k] EXCEPT ![b] = Absent] ELSE net[k]
        BY <3>1, <3>2
      <4>2. net[k] \in [Bank -> Blob]
        BY <3>1
      <4> QED
        BY <4>1, <4>2
    <3> QED
      BY <1>5, <3>2
  <2> QED
    BY <2>1 DEF OneBank, Bank
<1>7. ASSUME pc'[t] \in {"erase", "preflight"}
      PROVE  \/ Referenced(t, i, b) /\ pc[t] = "erase"
             \/ net[i][b] = Absent /\ pc[t] = "erase"
             \/ net'[i][b] = Absent
  <2>1. CASE net' = [net EXCEPT ![i][b] = Absent]
    BY <1>0, <1>2, <2>1 DEF TypeOK
  <2>2. CASE Referenced(t, i, b) \/ net[i][b] = Absent
    <3>1. pc[t] = "eraseErr" => pc'[t] \in {"eraseErr", "fail"}
      BY <1>0, <1>2, <2>2 DEF EraseOrphan, Goto, TypeOK
    <3> QED
      BY <1>1, <1>7, <2>2, <3>1
  <2>3. CASE ~(Referenced(t, i, b) \/ net[i][b] = Absent) /\ net' # [net EXCEPT ![i][b] = Absent]
    <3>1. pc'[t] \in {"eraseErr", "fail"}
      BY <1>0, <1>2, <2>3 DEF EraseOrphan, Goto, TypeOK
    <3> QED
      BY <1>7, <3>1
  <2> QED
    BY <2>1, <2>2, <2>3
<1>8. ASSUME b = 1, pc'[t] \in {"erase", "preflight"} PROVE OneBank(i)'
  <2>1. CASE net'[i][1] = Absent
    BY <2>1 DEF OneBank
  <2>2. CASE Referenced(t, i, 1) /\ pc[t] = "erase"
    <3>1. ~Referenced(t, i, 0)
      BY <2>2 DEF Referenced
    <3>2. net[i][0] = Absent
      BY <1>0, <1>2, <1>8, <2>2, <3>1 DEF Swept
    <3> QED
      BY <1>2, <1>6, <3>2 DEF OneBank, Bank
  <2>3. CASE net[i][1] = Absent
    BY <1>2, <1>6, <2>3 DEF OneBank, Bank
  <2> QED
    BY <1>7, <1>8, <2>1, <2>2, <2>3
<1>9. ASSUME NEW k \in Slot, pc'[t] # "fail", 2 * k + 1 < pos'[t] PROVE OneBank(k)'
  <2>1. CASE 2 * k + 1 < pos[t]
    BY <1>0, <1>1, <1>6, <2>1 DEF Swept
  <2>2. CASE 2 * k + 1 = pos[t]
    <3>1. k = i /\ b = 1
      <4>1. 2 * i + b = 2 * k + 1 /\ 1 \in Bank
        BY <1>2, <2>2 DEF Bank
      <4> QED
        BY <4>1, OnePosition
    <3> QED
      BY <1>4, <1>8, <1>9, <3>1
  <2> QED
    BY <1>1, <1>3, <1>9, <2>1, <2>2 DEF Slot
<1>10. ASSUME NEW k \in Slot, pc'[t] = "erase", pos'[t] = 2 * k + 1
       PROVE  Referenced(t, k, 0)' \/ net'[k][0] = Absent
  <2>1. k = i /\ b = 0
    <3>1. pos[t] = 2 * k + 0 /\ 0 \in Bank
      BY <1>1, <1>3, <1>10 DEF Slot, Bank
    <3>2. 2 * i + b = 2 * k + 0
      BY <1>2, <3>1
    <3> QED
      BY <3>1, <3>2, OnePosition
  <2>2. Referenced(t, k, 0)' = Referenced(t, k, 0)
    BY <1>3 DEF Referenced, SlotLive
  <2> QED
    BY <1>2, <1>6, <1>7, <1>10, <2>1, <2>2 DEF Bank
<1>11. ASSUME NEW k \in Slot, pc'[t] = "preflight" PROVE OneBank(k)'
  <2>1. 2 * k + 1 < pos'[t]
    BY <1>3, <1>4, <1>11, SizeAssumption DEF Slot
  <2> QED
    BY <1>9, <1>11, <2>1
<1>12. Swept(t)'
  BY <1>9, <1>10, <1>11 DEF Swept
<1> QED
  BY <1>12, OneTask DEF EraseInv

LEMMA NextEraseInv == Main = Server /\ EraseInv /\ [Next]_vars => EraseInv'
<1> SUFFICES ASSUME Main = Server, EraseInv, [Next]_vars PROVE EraseInv'
  OBVIOUS
<1>0. TypeOK /\ TypeInv /\ TypeInv' /\ Main \in Task
  BY NextType DEF EraseInv, TypeInv, Task
<1>1. ASSUME UNCHANGED <<net, pc, pos, prev>> PROVE EraseInv'
  BY <1>0, <1>1 DEF EraseInv, Swept, OneBank, Referenced, SlotLive
<1>2. CASE UNCHANGED vars
  BY <1>1, <1>2 DEF vars, plan
<1>3. ASSUME NEW t \in Task, SaveStep(t) PROVE EraseInv'
  <2>1. CASE EraseOrphan(t)
    BY <1>0, <2>1, EraseOrphanSwept
  <2>2. CASE ~EraseOrphan(t)
    <3>1. pc'[t] \in {"write", "nospace", "fail", "meta", "legacy", "release", "torn", "ok"}
      BY <1>0, <1>3, <2>2
      DEF SaveStep, Preflight, WriteNet, WritesDone, WriteMeta, Release, Released, EraseLegacy,
          Goto, TypeOK
    <3> QED
      BY <1>0, <3>1, NotErasing
  <2> QED
    BY <2>1, <2>2
<1>4. ASSUME NEW t \in Task, LoadStep(t) PROVE EraseInv'
  <2>1. CASE LoadLegacy(t) \/ Retry(t)
    BY <1>0, <2>1, StartSaveSwept DEF LoadLegacy, Retry
  <2>2. CASE ~(LoadLegacy(t) \/ Retry(t))
    <3>1. pc'[t] \in {"loaded", "defaults", "drop", "retry"}
      BY <1>0, <1>4, <2>2
      DEF LoadStep, LoadV6, LoadDefaults, LoadReturns, Migrated, DropLegacy, Goto, TypeOK
    <3> QED
      BY <1>0, <3>1, NotErasing
  <2> QED
    BY <2>1, <2>2
<1>5. CASE (\E c \in Submitted : Submit(c)) \/ Clear
  BY <1>0, <1>5, StartSaveSwept DEF Submit, Clear, Task
<1>6. CASE (\E t \in Task : Done(t)) \/ BootDone \/ Reboot \/ Rot
  <2>1. pc'[Main] = "idle"
    BY <1>0, <1>6, OneTask DEF Done, BootDone, Reboot, Rot, Idle, Goto, TypeOK
  <2> QED
    BY <1>0, <2>1, NotErasing
<1>7. CASE \E i \in Slot : NoteSuccess(i)
  BY <1>1, <1>7 DEF NoteSuccess, plan
<1> QED
  BY <1>2, <1>3, <1>4, <1>5, <1>6, <1>7 DEF Next

\* The capacity guard of storage_save_v2 refuses no save once the keys of older
\* firmware are gone, for every partition the static assertion admits.
THEOREM RefusalIsForeign == Main = Server /\ Spec => []RefusalNeedsForeignKeys
<1>1. SUFFICES ASSUME Main = Server PROVE Spec => []RefusalNeedsForeignKeys
  OBVIOUS
<1>2. Init => EraseInv
  <2> SUFFICES ASSUME Init PROVE EraseInv
    OBVIOUS
  <2>1. \A t \in Task : pc[t] = "idle"
    BY DEF Init
  <2> QED
    BY <2>1, InitType DEF EraseInv, Swept
<1>3. EraseInv => RefusalNeedsForeignKeys
  BY RoomToSave DEF EraseInv, TypeInv, Swept, RefusalNeedsForeignKeys, Writes
<1>4. EraseInv /\ [Next]_vars => EraseInv'
  BY <1>1, NextEraseInv
<1> QED
  BY <1>2, <1>3, <1>4, PTL DEF Spec

-----------------------------------------------------------------------------
(* The reconnect hint                                                       *)

\* Every slot the meta blob counts still reads back: a load drops none.
Whole(m) == \A i \in Slot : i < m.count => net[i][m.bank[i]] \in Profile

\* The hint, taken as an index into flash, is the network it was noted for,
\* unless the load will drop slots and reset it.
HintKnowsFlash ==
    /\ "hint" \notin missed
    /\ rtc # -1 /\ meta \in Meta
    /\ rtc < meta.count /\ Whole(meta)
    => net[rtc][meta.bank[rtc]] = noted

\* What a load or a migration hands over agrees with the hint, as does what it
\* is about to write; a save that replaces the networks has reset it.
HintKnowsRam(t) ==
    /\ (/\ pc[t] \in Saving \cup Returned \cup {"drop", "retry", "loaded"}
        /\ "hint" \notin missed
        /\ rtc # -1 /\ rtc < cand[t].count) => cand[t].nets[rtc] = noted
    /\ pc[t] \in Saving \cup Returned /\ mig[t] = 0 => rtc = -1
    /\ pc[t] = "defaults" => cand[t].count = 0

\* A migration writes the first meta blob there is, or has missed the one there was.
FirstMeta(t) ==
    /\ mig[t] # 0 /\ pc[t] \in Started \cup {"fail", "nospace"} =>
           meta \notin Meta \/ {"hint", "ram"} \subseteq missed
    /\ pc[t] \in {"drop", "retry"} => mig[t] # 0

\* A configuration in RAM is the one in flash, unless slots were dropped.
Agrees(c) ==
    meta \in Meta /\ Whole(meta) =>
        \A i \in Slot : i < c.count /\ i < meta.count => net[i][meta.bank[i]] = c.nets[i]

HintInv ==
    /\ HintSound
    /\ HintKnowsFlash
    /\ \A t \in Task : /\ HintKnowsRam(t)
                       /\ FirstMeta(t)
                       /\ pc[t] = "loaded" /\ "ram" \notin missed => Agrees(cand[t])
    /\ phase = "sta" => pc[Main] = "idle" /\ ("ram" \in missed \/ Agrees(ram))

\* A load of whole slots keeps their places; one that drops a slot says so.
LEMMA WholeLoad ==
    ASSUME TypeOK, NEW m \in Meta, NEW unread \in SUBSET Slot,
           unread \subseteq Surviving(Generation(m))
    PROVE  /\ ~Dropped(Read(m, unread)) => Whole(m) /\ unread = {}
           /\ Whole(m) /\ unread = {} =>
                /\ Compacted(Read(m, unread)).count = m.count
                /\ \A k \in Slot : k < m.count =>
                       Compacted(Read(m, unread)).nets[k] = net[k][m.bank[k]]
<1> DEFINE img == Read(m, unread)
           kept == Surviving(img)
           all == 0 .. m.count - 1
<1>1. m.count \in Nat /\ m.count <= MaxNets
  BY SizeAssumption DEF Meta, Count
<1>2. IsFiniteSet(all) /\ Cardinality(all) = m.count
  <2>1. m.count - 1 \in Int
    BY <1>1
  <2>2. IsFiniteSet(all) /\ Cardinality(all) = IF 0 > m.count - 1 THEN 0 ELSE m.count - 1 - 0 + 1
    BY <2>1, FS_Interval
  <2> QED
    BY <1>1, <2>2
<1>3. /\ img.count = m.count
      /\ \A k \in all : /\ k \in Slot
                        /\ img.nets[k] = IF k \in unread THEN Bad ELSE net[k][m.bank[k]]
  <2>1. all \subseteq Slot
    BY <1>1, SizeAssumption DEF Slot
  <2>2. /\ Generation(m).count = m.count
        /\ \A k \in all : Generation(m).nets[k] = net[k][m.bank[k]]
    BY <1>1, <2>1 DEF Generation
  <2>3. Generation(m) = [setting |-> m.setting, count |-> m.count, nets |-> Generation(m).nets]
    BY DEF Generation
  <2>4. img.count = m.count
        /\ \A k \in Slot : img.nets[k] = IF k \in unread THEN Bad ELSE Generation(m).nets[k]
    BY <2>3 DEF Read
  <2> QED
    BY <2>1, <2>2, <2>4
<1>4. kept = {k \in all : k \notin unread /\ net[k][m.bank[k]] \in Profile}
  BY <1>1, <1>3, SizeAssumption, KeyAssumption DEF Surviving, Slot
<1>10. unread \subseteq all
  <2>1. Generation(m).count = m.count
    BY DEF Generation
  <2> QED
    BY <1>1, <2>1, SizeAssumption DEF Surviving, Slot
<1>5. Cardinality(kept) = m.count => kept = all
  BY <1>2, <1>4, FS_Subset
<1>6. ASSUME ~Dropped(img) PROVE Whole(m) /\ unread = {}
  <2>1. kept = all
    BY <1>3, <1>5, <1>6 DEF Dropped
  <2>2. ASSUME NEW i \in Slot, i < m.count PROVE net[i][m.bank[i]] \in Profile
    <3>1. i \in all
      BY <1>1, <2>2 DEF Slot
    <3> QED
      BY <1>4, <2>1, <3>1
  <2>3. unread = {}
    BY <1>4, <1>10, <2>1
  <2> QED
    BY <2>2, <2>3 DEF Whole
<1>7. ASSUME Whole(m), unread = {} PROVE /\ kept = all
                            /\ \A i \in all : Rank(kept, i) = i
  <2>1. kept = all
    BY <1>1, <1>3, <1>4, <1>7 DEF Whole
  <2>2. ASSUME NEW i \in all PROVE Rank(kept, i) = i
    <3>1. {j \in kept : j < i} = 0 .. i - 1
      BY <1>1, <2>1
    <3>2. Cardinality(0 .. i - 1) = i
      BY <1>1, FS_Interval
    <3> QED
      BY <3>1, <3>2 DEF Rank
  <2> QED
    BY <2>1, <2>2
<1>8. ASSUME Whole(m), unread = {}, NEW k \in Slot, k < m.count
      PROVE  Compacted(img).nets[k] = net[k][m.bank[k]]
  <2>1. k \in all
    BY <1>1, <1>8 DEF Slot
  <2>2. \E i \in kept : Rank(kept, i) = k
    BY <1>7, <1>8, <2>1
  <2>3. (CHOOSE i \in kept : Rank(kept, i) = k) = k
    BY <1>7, <1>8, <2>1
  <2>4. Compacted(img).nets[k] = img.nets[CHOOSE i \in kept : Rank(kept, i) = k]
    BY <2>2 DEF Compacted
  <2> QED
    BY <1>3, <1>8, <2>1, <2>3, <2>4
<1>9. Whole(m) /\ unread = {} => Compacted(img).count = m.count
  BY <1>2, <1>7 DEF Compacted
<1> QED
  BY <1>6, <1>8, <1>9

\* A generation that is the configuration in RAM agrees with it.
LEMMA LiveAgrees ==
    ASSUME NEW t \in Task, meta \in Meta, Generation(meta) = cand[t]
    PROVE  Agrees(cand[t])
BY DEF Agrees, Generation

\* The parts of the invariant outside "sta", where the one task is at work.
LEMMA HintAtWork ==
    ASSUME Main = Server, NEW t \in Task, phase' # "sta", HintKnowsFlash',
           HintKnowsRam(t)', FirstMeta(t)',
           pc'[t] = "loaded" /\ "ram" \notin missed' => Agrees(cand[t])'
    PROVE  HintInv'
BY OneTask DEF HintInv, HintSound

LEMMA SameHintFlash ==
    /\ UNCHANGED <<net, meta>>
    /\ rtc' = -1 \/ (UNCHANGED <<rtc, noted>> /\ ("hint" \in missed => "hint" \in missed'))
    /\ HintKnowsFlash
    => HintKnowsFlash'
BY DEF HintKnowsFlash, Whole

LEMMA StartSaveHint ==
    ASSUME Main = Server, Durable, NEW t \in Task, NEW c \in Config, NEW h \in Hint,
           NEW m \in 0 .. 2, StartSave(t, c, h, m), phase # "sta",
           h = -1 \/ m # 0
    PROVE  HintInv'
<1>1. /\ cand'[t] = c /\ mig'[t] = m /\ pc'[t] \in {"erase", "fail"} /\ phase' = phase
      /\ UNCHANGED <<net, meta>>
  BY DEF StartSave, Goto, ReadFails, Durable, TypeInv, TypeOK
<1>7. m # 0 /\ meta \in Meta => {"hint", "ram"} \subseteq missed'
  BY DEF StartSave
<1>2. c.count \in Nat
  BY SizeAssumption DEF Config, Count
<1>3. rtc' # -1 => rtc' = h /\ h < c.count /\ h # -1 /\ noted' = c.nets[h]
  BY <1>2, SizeAssumption DEF StartSave, SetHint, Clamped, Hint
<1>4. HintKnowsFlash'
  BY <1>1, <1>3, <1>7 DEF HintKnowsFlash
<1>5. HintKnowsRam(t)'
  BY <1>1, <1>3 DEF HintKnowsRam
<1>6. FirstMeta(t)'
  BY <1>1, <1>7 DEF FirstMeta
<1> QED
  BY <1>1, <1>4, <1>5, <1>6, HintAtWork

LEMMA SaveStepHint ==
    ASSUME Main = Server, Durable, Durable', HintInv, NEW t \in Task, SaveStep(t)
    PROVE  HintInv'
<1> USE DEF Goto, hints, device, plan, job
<1>0. TypeOK /\ TypeOK' /\ SaveInv(t)' /\ HintKnowsRam(t) /\ FirstMeta(t)
  BY DEF Durable, TypeInv, HintInv
<1>1. /\ UNCHANGED <<rtc, noted, cand, mig, phase>>
      /\ "hint" \in missed' <=> "hint" \in missed
      /\ "ram" \in missed' <=> "ram" \in missed
  BY DEF SaveStep, EraseOrphan, Preflight, WriteNet, WritesDone, WriteMeta, Release, Released, EraseLegacy,
         ReadFails
<1>2. pc[t] \in Saving /\ pc'[t] \in Saving \cup Returned
  BY <1>0 DEF SaveStep, EraseOrphan, Preflight, WriteNet, WritesDone, WriteMeta, Release, Released,
              EraseLegacy, Saving, Returned, TypeOK
<1>3. pc'[t] \in Started \cup {"fail", "nospace"} => pc[t] \in Started /\ meta' = meta
  BY <1>0 DEF SaveStep, EraseOrphan, Preflight, WriteNet, WritesDone, WriteMeta, Release, Released,
              EraseLegacy, Started, TypeOK
<1>4. phase' # "sta"
  BY <1>1, <1>2, OneTask DEF HintInv, Saving
<1>5. HintKnowsRam(t)'
  BY <1>0, <1>1, <1>2 DEF HintKnowsRam, Saving, Returned
<1>6. FirstMeta(t)'
  BY <1>0, <1>1, <1>2, <1>3 DEF FirstMeta, Saving, Returned
<1>7. HintKnowsFlash'
  <2>1. CASE pc'[t] \in Started \cup {"fail", "nospace"}
    <3>1. mig'[t] = 0 => rtc' = -1
      BY <1>2, <1>5 DEF HintKnowsRam
    <3>2. mig'[t] # 0 => meta' \notin Meta \/ "hint" \in missed'
      BY <1>6, <2>1 DEF FirstMeta
    <3> QED
      BY <3>1, <3>2 DEF HintKnowsFlash
  <2>2. CASE pc'[t] \notin Started \cup {"fail", "nospace"}
    <3>1. meta' \in Meta /\ Generation(meta)' = cand'[t]
      BY <1>0, <1>2, <2>2 DEF SaveInv, Started, Saving, Returned
    <3>2. "hint" \notin missed' /\ rtc' # -1 /\ rtc' < cand'[t].count => cand'[t].nets[rtc'] = noted'
      BY <1>2, <1>5 DEF HintKnowsRam
    <3>3. cand'[t].count = meta'.count
          /\ \A i \in Slot : i < meta'.count => cand'[t].nets[i] = net'[i][meta'.bank[i]]
      BY <3>1 DEF Generation
    <3>4. rtc' # -1 => rtc' \in Slot
      BY <1>0, SizeAssumption DEF TypeOK, Hint, Slot
    <3> QED
      BY <3>2, <3>3, <3>4 DEF HintKnowsFlash
  <2> QED
    BY <2>1, <2>2
<1> QED
  BY <1>2, <1>4, <1>5, <1>6, <1>7, HintAtWork DEF Saving, Returned

LEMMA LoadStepHint ==
    ASSUME Main = Server, Durable, Durable', HintInv, NEW t \in Task, LoadStep(t)
    PROVE  HintInv'
<1> USE DEF Goto, device, plan, job
<1>0. TypeOK /\ TypeOK' /\ SaveInv(t) /\ HintKnowsRam(t) /\ FirstMeta(t) /\ HintKnowsFlash
  BY DEF Durable, TypeInv, HintInv
<1>1. phase # "sta"
  BY OneTask DEF LoadStep, LoadV6, LoadDefaults, LoadLegacy, Migrated, DropLegacy, Retry, CanLoad,
                 Returned, HintInv
<1>2. ASSUME NEW unread \in SUBSET Slot, LoadV6(t, unread) PROVE HintInv'
  <2>1. /\ meta \in Meta /\ pc'[t] = "loaded" /\ cand'[t] = Compacted(Read(meta, unread))
        /\ unread \subseteq Surviving(Generation(meta))
        /\ UNCHANGED <<net, meta, phase>>
        /\ unread # {} => "ram" \in missed'
        /\ IF Dropped(Read(meta, unread)) THEN rtc' = -1
           ELSE UNCHANGED <<rtc, noted>> /\ ("hint" \in missed => "hint" \in missed')
    BY <1>0, <1>2 DEF LoadV6, LoadReturns, SetHint, ReadFails, TypeOK
  <2>2. rtc' # -1 => rtc' \in Slot
    BY <1>0, SizeAssumption DEF TypeOK, Hint, Slot
  <2>3. HintKnowsFlash'
    BY <1>0, <2>1, SameHintFlash
  <2>4. FirstMeta(t)'
    BY <2>1 DEF FirstMeta, Started
  <2>5. "ram" \notin missed' => Agrees(cand[t])'
    BY <1>0, <2>1, WholeLoad DEF Agrees, Whole
  <2>6. HintKnowsRam(t)'
    <3> SUFFICES ASSUME "hint" \notin missed', rtc' # -1, rtc' < cand'[t].count
                 PROVE  cand'[t].nets[rtc'] = noted'
      BY <2>1 DEF HintKnowsRam, Saving, Returned
    <3>1. Whole(meta) /\ unread = {} /\ UNCHANGED <<rtc, noted>> /\ "hint" \notin missed
      BY <1>0, <2>1, WholeLoad
    <3>2. cand'[t].count = meta.count /\ cand'[t].nets[rtc'] = net[rtc'][meta.bank[rtc']]
      BY <1>0, <2>1, <2>2, <3>1, WholeLoad
    <3> QED
      BY <1>0, <2>1, <2>2, <3>1, <3>2 DEF HintKnowsFlash
  <2> QED
    BY <1>1, <2>1, <2>3, <2>4, <2>5, <2>6, HintAtWork
<1>3. CASE LoadDefaults(t)
  <2>1. /\ pc'[t] = "defaults" /\ cand'[t] = Defaults /\ UNCHANGED <<net, meta, phase, hints>>
    BY <1>0, <1>3 DEF LoadDefaults, LoadReturns, TypeOK
  <2>2. HintKnowsRam(t)' /\ FirstMeta(t)'
    BY <2>1 DEF HintKnowsRam, FirstMeta, Started, Saving, Returned, Defaults
  <2>3. HintKnowsFlash'
    BY <1>0, <2>1, SameHintFlash DEF hints
  <2> QED
    BY <1>1, <2>1, <2>2, <2>3, HintAtWork
<1>4. CASE LoadLegacy(t)
  <2>1. legacy.cfg \in Config /\ legacy.hint \in Hint /\ 1 \in 0 .. 2
    BY <1>4 DEF LoadLegacy, Legacy
  <2> QED
    BY <1>1, <1>4, <2>1, StartSaveHint DEF LoadLegacy
<1>5. CASE Migrated(t)
  <2>1. /\ pc[t] \in Returned /\ mig[t] # 0
        /\ pc'[t] \in {"drop", "loaded"} /\ (pc'[t] = "drop" => pc[t] = "nospace")
        /\ UNCHANGED <<net, meta, phase, hints, cand, mig>>
    BY <1>0, <1>5 DEF Migrated, TypeOK
  <2>2. HintKnowsFlash'
    BY <1>0, <2>1, SameHintFlash DEF hints
  <2>3. HintKnowsRam(t)'
    BY <1>0, <2>1 DEF HintKnowsRam, Saving, Returned, hints
  <2>4. FirstMeta(t)'
    BY <1>0, <2>1 DEF FirstMeta, Started
  <2>5. "ram" \notin missed' => Agrees(cand[t])'
    <3>1. CASE pc[t] \in {"fail", "nospace"}
      BY <1>0, <2>1, <3>1 DEF FirstMeta, Agrees, hints
    <3>2. CASE pc[t] \notin {"fail", "nospace"}
      <4>1. meta \in Meta /\ Generation(meta) = cand[t]
        BY <1>0, <2>1, <3>2 DEF SaveInv, Returned
      <4>2. Agrees(cand[t])
        BY <4>1, LiveAgrees
      <4> QED
        BY <2>1, <4>2 DEF Agrees, Whole
    <3> QED
      BY <3>1, <3>2
  <2> QED
    BY <1>1, <2>1, <2>2, <2>3, <2>4, <2>5, HintAtWork
<1>6. CASE DropLegacy(t)
  <2>1. pc[t] = "drop" /\ pc'[t] = "retry" /\ UNCHANGED <<net, meta, phase, hints, cand, mig>>
    BY <1>0, <1>6 DEF DropLegacy, TypeOK
  <2>2. HintKnowsFlash'
    BY <1>0, <2>1, SameHintFlash DEF hints
  <2>3. HintKnowsRam(t)' /\ FirstMeta(t)'
    BY <1>0, <2>1 DEF HintKnowsRam, FirstMeta, Started, Saving, Returned, hints
  <2> QED
    BY <1>1, <2>1, <2>2, <2>3, HintAtWork
<1>7. CASE Retry(t)
  <2>1. cand[t] \in Config /\ hint[t] \in Hint /\ 2 \in 0 .. 2
    BY <1>0 DEF TypeOK
  <2> QED
    BY <1>1, <1>7, <2>1, StartSaveHint DEF Retry
<1> QED
  BY <1>2, <1>3, <1>4, <1>5, <1>6, <1>7 DEF LoadStep

LEMMA CallerHint ==
    ASSUME Main = Server, Durable, Durable', HintInv,
           \/ \E t \in Task : Done(t)
           \/ \E c \in Submitted : Submit(c)
           \/ \E i \in Slot : NoteSuccess(i)
           \/ Clear \/ BootDone \/ Reboot \/ Rot
    PROVE  HintInv'
<1> USE DEF Goto, device, plan, job
<1>0. TypeOK /\ TypeOK' /\ HintKnowsFlash /\ HintKnowsRam(Main) /\ Main \in Task
  BY DEF Durable, TypeInv, HintInv, Task
<1>1. ASSUME \A t \in Task : pc'[t] = "idle"
      PROVE  \A t \in Task : /\ HintKnowsRam(t)' /\ FirstMeta(t)' /\ pc'[t] # "loaded"
  BY <1>1 DEF HintKnowsRam, FirstMeta, Started, Saving, Returned
<1>2. CASE \E t \in Task : Done(t)
  <2>1. pc'[Main] = "idle" /\ phase' # "sta" /\ UNCHANGED <<net, meta, hints>>
    BY <1>0, <1>2, OneTask DEF Done, Idle, TypeOK
  <2>2. HintKnowsFlash'
    BY <1>0, <2>1, SameHintFlash DEF hints
  <2> QED
    BY <1>0, <1>1, <2>1, <2>2, OneTask, HintAtWork
<1>3. CASE \E c \in Submitted : Submit(c)
  <2>1. -1 \in Hint /\ 0 \in 0 .. 2 /\ Server \in Task
    BY SizeAssumption DEF Hint, Task
  <2> QED
    BY <1>3, <2>1, StartSaveHint, SubmittedAssumption DEF Submit
<1>4. CASE Clear
  <2>1. -1 \in Hint /\ 0 \in 0 .. 2
    BY SizeAssumption DEF Hint
  <2>2. Cleared(cand[Main]) \in Config
    <3>1. cand[Main].setting \in Setting
      BY <1>0 DEF TypeOK, Config
    <3>2. 0 \in Count /\ \A i \in Slot : i >= 0
      BY SizeAssumption DEF Count, Slot
    <3> QED
      BY <3>1, <3>2 DEF Cleared, Config
  <2> QED
    BY <1>0, <1>4, <2>1, <2>2, StartSaveHint DEF Clear
<1>5. CASE \E i \in Slot : NoteSuccess(i)
  <2>1. PICK i \in Slot : NoteSuccess(i)
    BY <1>5
  <2>2. /\ phase = "sta" /\ i < ram.count /\ UNCHANGED <<net, meta, phase, ram, pc, cand, mig>>
        /\ rtc' = i /\ noted' = ram.nets[i]
        /\ "ram" \in missed' <=> "ram" \in missed
        /\ "hint" \notin missed' => "ram" \notin missed
    BY <2>1 DEF NoteSuccess, SetHint, Slot
  <2>3. ("ram" \in missed \/ Agrees(ram)) /\ \A t \in Task : pc'[t] = "idle"
    BY <2>2, OneTask DEF HintInv
  <2>4. HintKnowsFlash'
    BY <2>2, <2>3 DEF HintKnowsFlash, Agrees, Whole
  <2>5. "ram" \in missed' \/ Agrees(ram)'
    BY <2>2, <2>3 DEF Agrees, Whole
  <2>6. HintSound'
    BY <2>2 DEF HintSound
  <2> QED
    BY <1>0, <1>1, <2>3, <2>4, <2>5, <2>6 DEF HintInv
<1>6. CASE BootDone
  <2>1. /\ pc[Main] \in {"loaded", "defaults"} /\ pc'[Main] = "idle" /\ UNCHANGED <<net, meta, missed>>
        /\ rtc' # -1 => rtc' = rtc /\ noted' = noted /\ rtc < cand[Main].count
        /\ phase' = "sta" => ram' = cand[Main] /\ cand[Main].count > 0
    BY <1>0, <1>6, SizeAssumption DEF BootDone, Idle, SetHint, Clamped, TypeOK, Hint, Config, Count
  <2>2. HintKnowsFlash'
    BY <1>0, <2>1, SameHintFlash
  <2>3. ASSUME phase' = "sta" PROVE ("ram" \in missed \/ Agrees(ram)') /\ HintSound'
    <3>1. pc[Main] = "loaded" /\ ("ram" \in missed \/ Agrees(cand[Main]))
      BY <1>0, <2>1, <2>3 DEF HintInv, HintKnowsRam
    <3>2. "ram" \in missed \/ Agrees(ram)'
      BY <2>1, <2>3, <3>1 DEF Agrees, Whole
    <3>3. HintSound'
      BY <1>0, <2>1, <2>3, <3>1 DEF HintSound, HintKnowsRam
    <3> QED
      BY <3>2, <3>3
  <2>4. HintSound'
    BY <2>3 DEF HintSound
  <2> QED
    BY <1>1, <2>1, <2>2, <2>3, <2>4, OneTask DEF HintInv
<1>7. CASE Reboot
  <2>1. /\ pc'[Main] = "idle" /\ phase' # "sta" /\ UNCHANGED <<net, meta>>
        /\ rtc' # -1 => rtc' = rtc /\ noted' = noted /\ ("hint" \in missed => "hint" \in missed')
    BY <1>0, <1>7 DEF Reboot, SetHint
  <2>2. HintKnowsFlash'
    BY <1>0, <2>1, SameHintFlash
  <2> QED
    BY <1>0, <1>1, <2>1, <2>2, OneTask, HintAtWork
<1>8. CASE Rot
  <2>1. pc'[Main] = "idle" /\ phase' # "sta" /\ UNCHANGED hints
    BY <1>8 DEF Rot
  <2>2. HintKnowsFlash'
    <3>1. CASE meta' = Bad
      BY <3>1, KeyAssumption DEF HintKnowsFlash
    <3>2. CASE UNCHANGED <<net, meta>>
      BY <1>0, <2>1, <3>2, SameHintFlash DEF hints
    <3>3. ASSUME NEW i \in Slot, NEW b \in Bank, net' = [net EXCEPT ![i][b] = Bad], meta' = meta
          PROVE  HintKnowsFlash'
      <4> SUFFICES ASSUME "hint" \notin missed, meta \in Meta, rtc # -1, rtc < meta.count, Whole(meta)'
                   PROVE  net'[rtc][meta.bank[rtc]] = noted
        BY <2>1, <3>3 DEF HintKnowsFlash, hints
      <4>1. \A k \in Slot, c \in Bank : net'[k][c] = net[k][c] \/ net'[k][c] = Bad
        BY <1>0, <3>3 DEF TypeOK
      <4>2. \A k \in Slot : meta.bank[k] \in Bank
        BY DEF Meta
      <4>3. \A k \in Slot : k < meta.count => net'[k][meta.bank[k]] \in Profile
        BY <3>3 DEF Whole
      <4>4. \A k \in Slot : k < meta.count => net'[k][meta.bank[k]] = net[k][meta.bank[k]]
        BY <4>1, <4>2, <4>3, KeyAssumption
      <4>5. Whole(meta)
        BY <4>3, <4>4 DEF Whole
      <4>6. rtc \in Slot
        BY <1>0, SizeAssumption DEF TypeOK, Hint, Slot
      <4> QED
        BY <1>0, <4>4, <4>5, <4>6 DEF HintKnowsFlash
    <3> QED
      BY <1>8, <3>1, <3>2, <3>3 DEF Rot
  <2> QED
    BY <1>0, <1>1, <2>1, <2>2, OneTask, HintAtWork
<1> QED
  BY <1>2, <1>3, <1>4, <1>5, <1>6, <1>7, <1>8

LEMMA NextHint == Main = Server /\ Durable /\ Durable' /\ HintInv /\ [Next]_vars => HintInv'
<1> SUFFICES ASSUME Main = Server, Durable, Durable', HintInv, [Next]_vars PROVE HintInv'
  OBVIOUS
<1>1. CASE UNCHANGED vars
  BY <1>1 DEF vars, hints, device, plan, job, HintInv, HintSound, HintKnowsFlash, HintKnowsRam,
              FirstMeta, Agrees, Whole
<1>2. CASE Next
  BY <1>2, SaveStepHint, LoadStepHint, CallerHint DEF Next
<1> QED
  BY <1>1, <1>2

\* The reconnect hint in RTC memory is a bare index, and slots are dropped,
\* replaced, migrated and compacted while it survives reboots: it never names
\* another network than the one it was noted for.
THEOREM HintIsSound == Main = Server /\ Spec => []HintSound
<1>1. SUFFICES ASSUME Main = Server PROVE Spec => []HintSound
  OBVIOUS
<1>2. Spec => []Durable
  BY <1>1, AlwaysDurable
<1>3. Init => HintInv
  <2> SUFFICES ASSUME Init PROVE HintInv
    OBVIOUS
  <2>1. /\ \A t \in Task : pc[t] = "idle"
        /\ phase = "boot" /\ rtc = -1
    BY DEF Init
  <2> QED
    BY <2>1 DEF HintInv, HintSound, HintKnowsFlash, HintKnowsRam, FirstMeta, Started, Saving, Returned
<1>4. Durable /\ Durable' /\ HintInv /\ [Next]_vars => HintInv'
  BY <1>1, NextHint
<1>5. HintInv => HintSound
  BY DEF HintInv
<1> QED
  BY <1>2, <1>3, <1>4, <1>5, PTL DEF Spec
=============================================================================
