------------------------ MODULE CryptoAuthLib_proofs ------------------------
(***************************************************************************)
(* Theorems about the CryptoAuthLib provider, for every number of threads, *)
(* triples and slots, every configuration of the slots and whatever fails. *)
(***************************************************************************)
EXTENDS CryptoAuthLib, TLAPS

LEMMA Sentinels == NoTriple \notin KeyTriple /\ NoSlot \notin Slot /\ LockedSlot \subseteq Slot
  BY CalibAssumption

LEMMA SuitableSlots ==
  ASSUME NEW k \in Kind, NEW s \in Suitable(k)
  PROVE  s \in Slot /\ slots[s] = "free"
  BY CalibAssumption DEF Suitable

LEMMA InitTypeOK == Init => TypeOK
  BY Sentinels
  DEF Init, TypeOK, KimInit, KimTypeOK, RequestTypeOK, RequestInit, HasSlot, HwConfig

(* Whatever mappings a start drops, the map it builds is well typed.       *)
LEMMA ReloadType ==
  ASSUME KimTypeOK(Slot), NEW gone, ReloadWithout(gone)
  PROVE  KimTypeOK(Slot)'
  BY DEF KimTypeOK, ReloadWithout

(* Reserve without the choice of the first slot.                           *)
LEMMA Reserved ==
  ASSUME NEW th \in Thread, Reserve(th)
  PROVE  \E s \in Slot :
            /\ slots[s] = "free"
            /\ slots' = [slots EXCEPT ![s] = "busy"]
            /\ key_id' = [key_id EXCEPT ![th] = s]
            /\ pc[th] = "reserve"
            /\ pc' = [pc EXCEPT ![th] = "device"]
            /\ UNCHANGED <<status, key_info, stored, device, triple, known>>
  BY SuitableSlots DEF Reserve, Goto, kim

LEMMA NextTypeOK == TypeOK /\ [Next]_vars => TypeOK'
  <1> USE Sentinels DEF TypeOK, KimTypeOK, RequestTypeOK, HasSlot, Steps, kim, local
  <1>1. ASSUME TypeOK, NEW th \in Thread, NEW t \in KeyTriple, Request(th, t)
        PROVE  TypeOK'
    <2>1. CASE CreateRefused(th, t) \/ NoSuchKey(th, t)
      BY <1>1, <2>1 DEF CreateRefused, NoSuchKey, Arrives, Refuse
    <2>2. CASE CreateBegin(th, t) \/ UseBegin(th, t)
      BY <1>1, <2>2 DEF CreateBegin, UseBegin, Arrives, Goto, Begin
    <2>3. CASE DestroyBegin(th, t)
      BY <1>1, <2>3 DEF DestroyBegin, Arrives, Goto, Begin, Exists
    <2> QED
      BY <1>1, <2>1, <2>2, <2>3 DEF Request
  <1>2. ASSUME TypeOK, NEW th \in Thread, Reserve(th)
        PROVE  TypeOK'
    BY <1>2, Reserved
  <1>3. ASSUME TypeOK, NEW th \in Thread,
               \/ ReserveError(th) \/ ExtractError(th) \/ RemoveTooLate(th)
               \/ RemoveError(th) \/ LookupTooLate(th) \/ UseRefused(th) \/ Use(th)
        PROVE  TypeOK'
    BY <1>3 DEF ReserveError, ExtractError, RemoveTooLate, RemoveError,
                LookupTooLate, UseRefused, Use, Answer
  <1>4. ASSUME TypeOK, NEW th \in Thread, WriteKey(th) \/ WriteKeyError(th)
        PROVE  TypeOK'
    BY <1>4 DEF WriteKey, WriteKeyError, Goto
  <1>5. ASSUME TypeOK, NEW th \in Thread, Insert(th)
        PROVE  TypeOK'
    BY <1>5 DEF Insert, InsertKeyInfo, Answer
  <1>6. ASSUME TypeOK, NEW th \in Thread, InsertOverwrites(th)
        PROVE  TypeOK'
    BY <1>6 DEF InsertOverwrites, InsertKeyInfo, Goto
  <1>7. ASSUME TypeOK, NEW th \in Thread, InsertError(th)
        PROVE  TypeOK'
    BY <1>7 DEF InsertError, InsertKeyInfoError, Goto
  <1>8. ASSUME TypeOK, NEW th \in Thread, Release(th)
        PROVE  TypeOK'
    BY <1>8 DEF Release, Answer
  <1>9. ASSUME TypeOK, NEW th \in Thread, Remove(th)
        PROVE  TypeOK'
    BY <1>9 DEF Remove, RemoveKeyInfo, Goto
  <1>10. ASSUME TypeOK, NEW th \in Thread, Lookup(th)
         PROVE  TypeOK'
    BY <1>10 DEF Lookup, Goto, Exists
  <1>11. ASSUME TypeOK, Drain \/ Joined \/ Crash
         PROVE  TypeOK'
    BY <1>11 DEF Drain, Joined, Crash, InsertKeyInfoError, StopArrivals, JoinThreads,
                 LoseThreads
  <1>12. ASSUME TypeOK, Start
         PROVE  TypeOK'
    <2>1. KimTypeOK(Slot)'
      BY <1>12, ReloadType DEF Start
    <2> QED
      BY <1>12, <2>1 DEF Start, HwConfig
  <1>13. ASSUME TypeOK, StartError
         PROVE  TypeOK'
    <2>1. KimTypeOK(Slot)'
      BY <1>13, ReloadType DEF StartError
    <2> QED
      BY <1>13, <2>1 DEF StartError
  <1>14. ASSUME TypeOK, UNCHANGED vars
         PROVE  TypeOK'
    BY <1>14 DEF vars
  <1> QED
    <2> HIDE DEF TypeOK
    <2> QED
      BY <1>1, <1>2, <1>3, <1>4, <1>5, <1>6, <1>7, <1>8, <1>9, <1>10, <1>11,
         <1>12, <1>13, <1>14 DEF Next, Step

(* Every variable keeps its type; in particular a request that goes on to  *)
(* the device, to the storage or to a use knows its slot, however requests *)
(* overlap (the modules key_management and asym_sign of the provider).     *)
THEOREM TypeCorrect == Spec => []TypeOK
  BY InitTypeOK, NextTypeOK, PTL DEF Spec

---------------------------------------------------------------------------
(* The steps that leave the storage of slots and the device alone, and     *)
(* send no request to the device.                                          *)
Aside(th) ==
    \/ ReserveError(th) \/ ExtractError(th) \/ Insert(th) \/ InsertOverwrites(th)
    \/ InsertError(th) \/ Remove(th) \/ RemoveTooLate(th) \/ RemoveError(th)
    \/ Lookup(th) \/ LookupTooLate(th) \/ UseRefused(th) \/ Use(th)

LEMMA StepCases ==
  ASSUME NEW th \in Thread, Step(th)
  PROVE  Reserve(th) \/ WriteKey(th) \/ WriteKeyError(th) \/ Release(th) \/ Aside(th)
  BY DEF Step, Aside

LEMMA LockStep ==
  ASSUME TypeOK, LockInv, [Next]_vars
  PROVE  LockInv' /\ \A s \in LockedSlot : device'[s] = device[s]
  <1> DEFINE Goal == LockInv' /\ \A s \in LockedSlot : device'[s] = device[s]
  <1> USE Sentinels DEF TypeOK, KimTypeOK, RequestTypeOK, HasSlot, LockInv, kim, local
  <1>1. ASSUME NEW th \in Thread, Aside(th)
        PROVE  Goal
    BY <1>1 DEF Aside, ReserveError, ExtractError, Insert, InsertOverwrites, InsertError,
                Remove, RemoveTooLate, RemoveError, Lookup, LookupTooLate, UseRefused,
                Use, Answer, Goto
  <1>2. ASSUME NEW th \in Thread, Reserve(th)
        PROVE  Goal
    BY <1>2, Reserved
  <1>3. ASSUME NEW th \in Thread, WriteKey(th) \/ WriteKeyError(th)
        PROVE  Goal
    BY <1>3 DEF WriteKey, WriteKeyError, Goto
  <1>4. ASSUME NEW th \in Thread, Release(th)
        PROVE  Goal
    BY <1>4 DEF Release, Answer
  <1>5. ASSUME NEW th \in Thread, NEW t \in KeyTriple, Request(th, t)
        PROVE  Goal
    BY <1>5 DEF Request, CreateRefused, CreateBegin, NoSuchKey, DestroyBegin, UseBegin,
                Refuse, Begin, Arrives, Goto
  <1>6. CASE Drain \/ Joined \/ Crash
    BY <1>6 DEF Drain, Joined, Crash, StopArrivals, JoinThreads, LoseThreads
  <1>7. CASE Start \/ StartError
    BY <1>7 DEF Start, StartError, HwConfig
  <1>8. CASE UNCHANGED vars
    BY <1>8 DEF vars
  <1> QED
    <2> HIDE DEF TypeOK, LockInv
    <2> QED
      BY <1>1, <1>2, <1>3, <1>4, <1>5, <1>6, <1>7, <1>8, StepCases DEF Next

LEMMA InitLockInv == Init => LockInv
  BY Sentinels DEF Init, LockInv, HwConfig, RequestInit

(* A slot under hardware protection is never reserved, written or          *)
(* released, whatever configuration the device reports, however requests   *)
(* overlap and whatever fails (key_slot_storage.rs, key_slot.rs).          *)
THEOREM LockedSlotsSafe == Spec => LockedSlotsUntouched
  <1>1. TypeOK /\ LockInv /\ [Next]_vars => (TypeOK /\ LockInv)'
    BY NextTypeOK, LockStep
  <1>2. TypeOK /\ LockInv /\ [Next]_vars
           => [\A s \in LockedSlot : slots'[s] = "locked" /\ device'[s] = device[s]]_vars
    BY LockStep DEF LockInv
  <1> QED
    BY <1>1, <1>2, InitTypeOK, InitLockInv, PTL DEF Spec, LockedSlotsUntouched
---------------------------------------------------------------------------
(* The device never forgets a key.                                         *)
LEMMA DeviceKeeps ==
  ASSUME TypeOK, NEW th \in Thread, WriteKey(th) \/ WriteKeyError(th)
  PROVE  \A s \in Slot : device[s] # NoTriple => device'[s] # NoTriple
  BY Sentinels DEF TypeOK, RequestTypeOK, HasSlot, WriteKey, WriteKeyError, Goto

LEMMA WrittenStep == TypeOK /\ WrittenInv /\ [Next]_vars => WrittenInv'
  <1> SUFFICES ASSUME TypeOK, WrittenInv, [Next]_vars
               PROVE  WrittenInv'
    OBVIOUS
  <1> USE Sentinels DEF TypeOK, KimTypeOK, RequestTypeOK, HasSlot, WrittenInv,
                        MappedSlotIsWritten, kim, local
  <1>1. ASSUME NEW th \in Thread,
               \/ ReserveError(th) \/ ExtractError(th) \/ RemoveTooLate(th)
               \/ RemoveError(th) \/ Lookup(th) \/ LookupTooLate(th)
               \/ UseRefused(th) \/ Use(th) \/ Release(th)
        PROVE  WrittenInv'
    BY <1>1 DEF ReserveError, ExtractError, RemoveTooLate, RemoveError, Lookup,
                LookupTooLate, UseRefused, Use, Release, Answer, Goto
  <1>2. ASSUME NEW th \in Thread, Reserve(th)
        PROVE  WrittenInv'
    BY <1>2, Reserved
  <1>3. ASSUME NEW th \in Thread, WriteKey(th) \/ WriteKeyError(th)
        PROVE  WrittenInv'
    <2>1. \A s \in Slot : device[s] # NoTriple => device'[s] # NoTriple
      BY <1>3, DeviceKeeps
    <2>2. pc'[th] = "insert" => device'[key_id[th]] # NoTriple
      BY <1>3 DEF WriteKey, WriteKeyError, Goto
    <2>3. UNCHANGED <<key_info, stored, key_id>>
      BY <1>3 DEF WriteKey, WriteKeyError
    <2>4. \A other \in Thread \ {th} : pc'[other] = pc[other]
      BY <1>3 DEF WriteKey, WriteKeyError, Goto
    <2> QED
      BY <2>1, <2>2, <2>3, <2>4
  <1>4. ASSUME NEW th \in Thread, Insert(th) \/ InsertOverwrites(th)
        PROVE  WrittenInv'
    BY <1>4 DEF Insert, InsertOverwrites, InsertKeyInfo, Answer, Goto
  <1>5. ASSUME NEW th \in Thread, InsertError(th)
        PROVE  WrittenInv'
    BY <1>5 DEF InsertError, InsertKeyInfoError, Goto
  <1>6. ASSUME NEW th \in Thread, Remove(th)
        PROVE  WrittenInv'
    BY <1>6 DEF Remove, RemoveKeyInfo, Goto
  <1>7. ASSUME NEW th \in Thread, NEW t \in KeyTriple, Request(th, t)
        PROVE  WrittenInv'
    BY <1>7 DEF Request, CreateRefused, CreateBegin, NoSuchKey, DestroyBegin, UseBegin,
                Refuse, Begin, Arrives, Goto
  <1>8. CASE Drain \/ Joined \/ Crash
    BY <1>8 DEF Drain, Joined, Crash, StopArrivals, JoinThreads, LoseThreads,
                InsertKeyInfoError
  <1>9. CASE Start \/ StartError
    BY <1>9 DEF Start, StartError, ReloadWithout
  <1>10. CASE UNCHANGED vars
    BY <1>10 DEF vars
  <1> QED
    <2> HIDE DEF TypeOK, WrittenInv
    <2> QED
      BY <1>1, <1>2, <1>3, <1>4, <1>5, <1>6, <1>7, <1>8, <1>9, <1>10 DEF Next, Step

(* No mapping ever refers to a slot that no creation wrote: an error of    *)
(* the device, on which gen_key or import_key fail, never ends in a        *)
(* mapping.                                                                *)
THEOREM MappedSlotsWritten == Spec => []MappedSlotIsWritten
  <1>1. Init => WrittenInv
    BY Sentinels DEF Init, WrittenInv, MappedSlotIsWritten, KimInit, RequestInit
  <1>2. WrittenInv => MappedSlotIsWritten
    BY DEF WrittenInv
  <1> QED
    BY <1>1, <1>2, InitTypeOK, NextTypeOK, WrittenStep, PTL DEF Spec

---------------------------------------------------------------------------
(* SlotInv without the types, which NextTypeOK is about.                   *)
Apart ==
    /\ OneRequestPerTriple
    /\ RequestsAgree
    /\ SlotsExclusive
    /\ MappedKeyInSlot
    /\ StoredAgrees
    /\ IdleWhenDown
    /\ DiskUpToDate
    /\ AbsentIsUnmapped

(* The clients wait for their answers: each action on its own.             *)
LEMMA SlotStep == ~Overlap /\ TypeOK /\ Apart /\ [Next]_vars => Apart'
  <1> SUFFICES ASSUME ~Overlap, TypeOK, Apart, [Next]_vars
               PROVE  Apart'
    OBVIOUS
  <1> USE Sentinels DEF TypeOK, KimTypeOK, RequestTypeOK, HasSlot, Apart,
          OneRequestPerTriple, RequestsAgree, SlotsExclusive, MappedKeyInSlot,
          StoredAgrees, IdleWhenDown, DiskUpToDate, AbsentIsUnmapped, Owns, kim, local
  <1>1. ASSUME NEW th \in Thread,
               \/ ReserveError(th) \/ ExtractError(th) \/ RemoveTooLate(th)
               \/ RemoveError(th) \/ LookupTooLate(th) \/ UseRefused(th) \/ Use(th)
        PROVE  Apart'
    BY <1>1 DEF ReserveError, ExtractError, RemoveTooLate, RemoveError,
                LookupTooLate, UseRefused, Use, Answer, Exists
  <1>2. ASSUME NEW th \in Thread, Reserve(th)
        PROVE  Apart'
    BY <1>2, Reserved
  <1>3. ASSUME NEW th \in Thread, WriteKey(th) \/ WriteKeyError(th)
        PROVE  Apart'
    BY <1>3 DEF WriteKey, WriteKeyError, Goto
  <1>4. ASSUME NEW th \in Thread, Insert(th)
        PROVE  Apart'
    <2>1. /\ pc[th] = "insert" /\ key_info[triple[th]] = NoSlot
          /\ key_info' = [key_info EXCEPT ![triple[th]] = key_id[th]]
          /\ stored' = [stored EXCEPT ![triple[th]] = key_id[th]]
          /\ pc' = [pc EXCEPT ![th] = "idle"]
          /\ triple' = [triple EXCEPT ![th] = NoTriple]
          /\ key_id' = [key_id EXCEPT ![th] = NoSlot]
          /\ known' = [known EXCEPT ![triple[th]] = "exists"]
          /\ UNCHANGED <<status, slots, device>>
      BY <1>4 DEF Insert, InsertKeyInfo, Answer, Exists
    <2>2. OneRequestPerTriple' /\ IdleWhenDown' /\ AbsentIsUnmapped'
      BY <2>1
    <2>6. DiskUpToDate'
      <3>1. status # "down" /\ stored = key_info
        BY <2>1
      <3> HIDE DEF TypeOK, Apart
      <3> QED
        BY <2>1, <3>1
    <2>3. MappedKeyInSlot' /\ StoredAgrees'
      BY <2>1
    <2>4. SlotsExclusive'
      BY <2>1
    <2>5. RequestsAgree'
      BY <2>1
    <2> QED
      BY <2>2, <2>3, <2>4, <2>5, <2>6
  <1>5. ASSUME NEW th \in Thread, InsertOverwrites(th)
        PROVE  Apart'
    BY <1>5 DEF InsertOverwrites, Exists, Goto
  <1>6. ASSUME NEW th \in Thread, InsertError(th)
        PROVE  Apart'
    BY <1>6 DEF InsertError, InsertKeyInfoError, Goto
  <1>7. ASSUME NEW th \in Thread, Release(th)
        PROVE  Apart'
    BY <1>7 DEF Release, Answer
  <1>8. ASSUME NEW th \in Thread, Remove(th)
        PROVE  Apart'
    <2>1. /\ pc[th] = "remove"
          /\ key_info' = [key_info EXCEPT ![triple[th]] = NoSlot]
          /\ stored' = [stored EXCEPT ![triple[th]] = NoSlot]
          /\ pc' = [pc EXCEPT ![th] = "release"]
          /\ UNCHANGED <<status, slots, device, triple, key_id, known>>
      BY <1>8 DEF Remove, RemoveKeyInfo, Goto
    <2>2. OneRequestPerTriple' /\ IdleWhenDown' /\ AbsentIsUnmapped'
      BY <2>1
    <2>6. DiskUpToDate'
      <3>1. status # "down" /\ stored = key_info
        BY <2>1
      <3> HIDE DEF TypeOK, Apart
      <3> QED
        BY <2>1, <3>1
    <2>3. MappedKeyInSlot' /\ StoredAgrees'
      BY <2>1
    <2>4. SlotsExclusive'
      BY <2>1
    <2>5. RequestsAgree'
      BY <2>1
    <2> QED
      BY <2>2, <2>3, <2>4, <2>5, <2>6
  <1>9. ASSUME NEW th \in Thread, Lookup(th)
        PROVE  Apart'
    BY <1>9 DEF Lookup, Goto, Exists
  <1>10. ASSUME NEW th \in Thread, NEW t \in KeyTriple,
                CreateRefused(th, t) \/ NoSuchKey(th, t)
         PROVE  Apart'
    BY <1>10 DEF CreateRefused, NoSuchKey, Refuse, Arrives, Exists
  <1>11. ASSUME NEW th \in Thread, NEW t \in KeyTriple,
                CreateBegin(th, t) \/ UseBegin(th, t) \/ DestroyBegin(th, t)
         PROVE  Apart'
    BY <1>11 DEF CreateBegin, UseBegin, DestroyBegin, Begin, Arrives, Goto, Exists
  <1>12. CASE Drain \/ Joined
    BY <1>12 DEF Drain, Joined, StopArrivals, JoinThreads
  <1>13. CASE Crash
    BY <1>13 DEF Crash, LoseThreads, InsertKeyInfoError
  <1>14. CASE Start
    BY <1>14 DEF Start, ReloadWithout, Mapped
  <1>15. CASE StartError
    BY <1>15 DEF StartError, ReloadWithout
  <1>16. CASE UNCHANGED vars
    BY <1>16 DEF vars
  <1> QED
    <2> HIDE DEF TypeOK, Apart
    <2> QED
      BY <1>1, <1>2, <1>3, <1>4, <1>5, <1>6, <1>7, <1>8, <1>9, <1>10, <1>11,
         <1>12, <1>13, <1>14, <1>15, <1>16 DEF Next, Step, Request

(* The inductive invariant: the storage of slots, the device, the mappings *)
(* and the requests in progress agree on whose slot is whose, for clients  *)
(* that wait for their answers and whatever fails.                         *)
THEOREM SlotsKeptApart == ~Overlap /\ Spec => []SlotInv
  <1> SUFFICES ASSUME ~Overlap
               PROVE  Spec => []SlotInv
    OBVIOUS
  <1>1. Init => SlotInv
    <2>1. Init => Apart
      BY Sentinels
      DEF Init, Apart, KimInit, RequestInit, OneRequestPerTriple, RequestsAgree,
          SlotsExclusive, MappedKeyInSlot, StoredAgrees, IdleWhenDown, DiskUpToDate,
          AbsentIsUnmapped, Owns
    <2> QED
      BY <2>1, InitTypeOK DEF SlotInv, Apart
  <1>2. SlotInv /\ [Next]_vars => SlotInv'
    BY NextTypeOK, SlotStep DEF SlotInv, Apart
  <1> QED
    BY <1>1, <1>2, PTL DEF Spec

(* find_suitable_slot, set_slot_status and the key info manager never give *)
(* one slot to two mappings or requests.                                   *)
THEOREM SlotsNeverShared == ~Overlap /\ Spec => []SlotsExclusive
  <1>1. SlotInv => SlotsExclusive
    BY DEF SlotInv
  <1> QED
    BY <1>1, SlotsKeptApart, PTL

(* A triple's operations reach the key of that triple in the device: the   *)
(* isolation of tenants, which overlapping requests about one name break.  *)
THEOREM OwnSlotUsed == ~Overlap /\ Spec => []UsedSlotIsOwn
  <1>1. SlotInv => UsedSlotIsOwn
    BY Sentinels
    DEF SlotInv, TypeOK, RequestTypeOK, HasSlot, RequestsAgree, MappedKeyInSlot, UsedSlotIsOwn
  <1> QED
    BY <1>1, SlotsKeptApart, PTL

LEMMA BusyStep ==
  ASSUME ~Overlap, "data" \notin Faults, SlotInv, BusySlotHasOwner, [Next]_vars
  PROVE  BusySlotHasOwner'
  <1> USE Sentinels DEF SlotInv, TypeOK, KimTypeOK, RequestTypeOK, HasSlot,
          RequestsAgree, IdleWhenDown, BusySlotHasOwner, Owns, kim, local
  <1>1. ASSUME NEW th \in Thread,
               \/ ReserveError(th) \/ RemoveTooLate(th) \/ RemoveError(th)
               \/ LookupTooLate(th) \/ UseRefused(th) \/ Use(th)
        PROVE  BusySlotHasOwner'
    BY <1>1 DEF ReserveError, RemoveTooLate, RemoveError, LookupTooLate, UseRefused,
                Use, Answer
  <1>2. ASSUME NEW th \in Thread, Reserve(th)
        PROVE  BusySlotHasOwner'
    BY <1>2, Reserved
  <1>3. ASSUME NEW th \in Thread, WriteKey(th) \/ WriteKeyError(th)
        PROVE  BusySlotHasOwner'
    BY <1>3 DEF WriteKey, WriteKeyError, Goto
  <1>4. ASSUME NEW th \in Thread, Insert(th)
        PROVE  BusySlotHasOwner'
    BY <1>4 DEF Insert, InsertKeyInfo, Answer
  <1>5. ASSUME NEW th \in Thread, InsertOverwrites(th)
        PROVE  BusySlotHasOwner'
    BY <1>5 DEF InsertOverwrites, Exists, Goto
  <1>6. ASSUME NEW th \in Thread, InsertError(th)
        PROVE  BusySlotHasOwner'
    BY <1>6 DEF InsertError, InsertKeyInfoError, Goto
  <1>7. ASSUME NEW th \in Thread, Release(th)
        PROVE  BusySlotHasOwner'
    BY <1>7 DEF Release, Answer
  <1>8. ASSUME NEW th \in Thread, Remove(th)
        PROVE  BusySlotHasOwner'
    BY <1>8 DEF Remove, RemoveKeyInfo, Goto, Exists
  <1>9. ASSUME NEW th \in Thread, Lookup(th)
        PROVE  BusySlotHasOwner'
    BY <1>9 DEF Lookup, Goto, Exists
  <1>10. ASSUME NEW th \in Thread, NEW t \in KeyTriple, Request(th, t)
         PROVE  BusySlotHasOwner'
    BY <1>10 DEF Request, CreateRefused, CreateBegin, NoSuchKey, DestroyBegin,
                 UseBegin, Refuse, Begin, Arrives, Goto
  <1>11. CASE Drain \/ Joined \/ Crash
    BY <1>11 DEF Drain, Joined, Crash, StopArrivals, JoinThreads, LoseThreads
  <1>12. CASE Start \/ StartError
    BY <1>12 DEF Start, StartError, HwConfig
  <1>13. CASE UNCHANGED vars
    BY <1>13 DEF vars
  <1>14. ASSUME NEW th \in Thread
         PROVE  ~ExtractError(th)
    BY DEF ExtractError, Fails
  <1> QED
    <2> HIDE DEF SlotInv, TypeOK, BusySlotHasOwner
    <2> QED
      BY <1>1, <1>2, <1>3, <1>4, <1>5, <1>6, <1>7, <1>8, <1>9, <1>10, <1>11,
         <1>12, <1>13, <1>14 DEF Next, Step

(* But for imports whose data is refused (key_management.rs:123), every    *)
(* busy slot has a mapping or a request that will release it.              *)
THEOREM BusySlotsOwned ==
  ~Overlap /\ "data" \notin Faults /\ Spec => []BusySlotHasOwner
  <1> SUFFICES ASSUME ~Overlap, "data" \notin Faults
               PROVE  Spec => []BusySlotHasOwner
    OBVIOUS
  <1>1. Spec => []SlotInv
    BY SlotsKeptApart
  <1>2. Init => BusySlotHasOwner
    BY DEF Init, BusySlotHasOwner, RequestInit
  <1>3. SlotInv /\ BusySlotHasOwner /\ [Next]_vars => BusySlotHasOwner'
    BY BusyStep
  <1> QED
    BY <1>1, <1>2, <1>3, PTL DEF Spec
---------------------------------------------------------------------------
(* What a step may use of the types.                                       *)
LEMMA SlotTypes ==
  ASSUME SlotInv
  PROVE  /\ stored \in [KeyTriple -> Slot \cup {NoSlot}]
         /\ known \in [KeyTriple -> {"exists", "absent", "unsure"}]
         /\ pc \in [Thread -> Steps \cup {"idle"}]
         /\ triple \in [Thread -> KeyTriple \cup {NoTriple}]
         /\ \A th \in Thread : pc[th] # "idle" => triple[th] \in KeyTriple /\ status # "down"
         /\ \A th \in Thread : HasSlot(th) => key_id[th] \in Slot
         /\ NoSlot \notin Slot
  BY Sentinels DEF SlotInv, TypeOK, KimTypeOK, RequestTypeOK, IdleWhenDown

(* For clients that wait, the map a client sees is the map on disk.        *)
LEMMA KeyMap ==
  ASSUME SlotInv, SlotInv'
  PROVE  KeyOf = stored /\ KeyOf' = stored'
  <1>1. KeyOf = stored
    BY SlotTypes DEF KeyOf, Reached, SlotInv, StoredAgrees, MappedKeyInSlot, DiskUpToDate
  <1>2. stored' \in [KeyTriple -> Slot \cup {NoSlot}]
    BY DEF SlotInv, TypeOK, KimTypeOK
  <1>3. KeyOf' = stored'
    BY <1>2 DEF KeyOf, Reached, SlotInv, StoredAgrees, MappedKeyInSlot, DiskUpToDate
  <1> QED
    BY <1>1, <1>3

LEMMA KindFacts ==
  ASSUME SlotInv, NEW th \in Thread
  PROVE  /\ KindOf[th] = "idle" <=> pc[th] = "idle"
         /\ pc[th] \in CreateSteps => KindOf[th] = "create"
         /\ pc[th] = "remove" => KindOf[th] = "destroy"
         /\ pc[th] \in {"lookup", "use"} => KindOf[th] = "use"
  BY SlotTypes DEF KindOf, RequestKinds, CreateSteps

(* A step of th changes the kind of its own request only, and not always.  *)
LEMMA KindStep ==
  ASSUME SlotInv, NEW th \in Thread, NEW to, pc' = [pc EXCEPT ![th] = to]
  PROVE  /\ to = "idle" => KindOf' = [KindOf EXCEPT ![th] = "idle"]
         /\ to \in CreateSteps => KindOf' = [KindOf EXCEPT ![th] = "create"]
         /\ to = "remove" => KindOf' = [KindOf EXCEPT ![th] = "destroy"]
         /\ to \in {"lookup", "use"} => KindOf' = [KindOf EXCEPT ![th] = "use"]
         /\ to = "release" => KindOf' = [KindOf EXCEPT ![th] = "end"]
         /\ \/ pc[th] \in CreateSteps /\ to \in CreateSteps
            \/ pc[th] \in {"lookup", "use"} /\ to \in {"lookup", "use"}
            => KindOf' = KindOf
  BY SlotTypes DEF KindOf, RequestKinds, CreateSteps

(* The end of a request with an answer that is true of the map.            *)
LEMMA AnswerImplements ==
  ASSUME SlotInv, SlotInv', NEW th \in Thread, pc[th] # "idle",
         NEW k \in {"exists", "absent", "unsure"}, Answer(th, k), stored' = stored,
         \/ k = "exists" /\ stored[triple[th]] # NoSlot
         \/ k = "absent" /\ stored[triple[th]] = NoSlot
         \/ pc[th] \in {"lookup", "use"} /\ k = known[triple[th]]
  PROVE  Keys!KeyStoreNext
  <1>1. KeyOf = stored /\ KeyOf' = stored
    BY KeyMap
  <1>2. KindOf' = [KindOf EXCEPT ![th] = "idle"] /\ KindOf[th] # "idle"
    BY KindStep, KindFacts DEF Answer
  <1>3. pc[th] \in {"lookup", "use"} => KindOf[th] = "use"
    BY KindFacts
  <1>4. Keys!Answer(th, k)
    BY <1>1, <1>2, <1>3 DEF Keys!Answer, Keys!End, Keys!Tell, Keys!True, Answer
  <1> QED
    BY <1>4 DEF Keys!KeyStoreNext

(* A request arrives, and is refused or begins.                            *)
LEMMA RequestImplements ==
  ASSUME ~Overlap, SlotInv, SlotInv', NEW th \in Thread, NEW t \in KeyTriple, Request(th, t)
  PROVE  Keys!KeyStoreNext
  <1>1. KeyOf = stored /\ KeyOf' = stored'
    BY KeyMap
  <1>2. status = "up" /\ UNCHANGED <<status, key_info, stored>> /\ Keys!Arrives(th, t)
    BY KindFacts
    DEF Request, CreateRefused, CreateBegin, NoSuchKey, DestroyBegin, UseBegin,
        Refuse, Begin, Arrives, kim, Keys!Arrives
  <1>3. stored = key_info
    BY <1>2 DEF SlotInv, DiskUpToDate
  <1> USE <1>1, <1>2, <1>3
  <1>4. CASE CreateRefused(th, t)
    <2>1. Keys!Refuse(th, t, "exists")
      BY <1>4 DEF CreateRefused, Refuse, Exists, KindOf, RequestKinds, Keys!Refuse,
                  Keys!Tell, Keys!True, Keys!requests
    <2> QED
      BY <2>1 DEF Keys!KeyStoreNext
  <1>5. CASE NoSuchKey(th, t)
    <2>1. Keys!Refuse(th, t, "absent")
      BY <1>5 DEF NoSuchKey, Refuse, Exists, KindOf, RequestKinds, Keys!Refuse,
                  Keys!Tell, Keys!True, Keys!requests
    <2> QED
      BY <2>1 DEF Keys!KeyStoreNext
  <1>6. CASE CreateBegin(th, t)
    <2>1. KindOf' = [KindOf EXCEPT ![th] = "create"]
      BY <1>6, KindStep DEF CreateBegin, Begin, Goto, CreateSteps
    <2>2. Keys!Begin(th, t, "create")
      BY <1>6, <2>1 DEF CreateBegin, Begin, Keys!Begin, Keys!Tell
    <2> QED
      BY <2>2 DEF Keys!KeyStoreNext
  <1>7. CASE DestroyBegin(th, t)
    <2>1. KindOf' = [KindOf EXCEPT ![th] = "destroy"]
      BY <1>7, KindStep DEF DestroyBegin, Begin, Goto
    <2>2. Keys!Begin(th, t, "destroy")
      BY <1>7, <2>1 DEF DestroyBegin, Begin, Keys!Begin, Keys!Tell
    <2> QED
      BY <2>2 DEF Keys!KeyStoreNext
  <1>8. CASE UseBegin(th, t)
    <2>1. KindOf' = [KindOf EXCEPT ![th] = "use"]
      BY <1>8, KindStep DEF UseBegin, Begin, Goto
    <2>2. Keys!Begin(th, t, "use")
      BY <1>8, <2>1, SlotTypes DEF UseBegin, Begin, Keys!Begin
    <2> QED
      BY <2>2 DEF Keys!KeyStoreNext
  <1> QED
    BY <1>4, <1>5, <1>6, <1>7, <1>8 DEF Request

(* The steps between the begin of a request and its effect, or between its *)
(* effect and its answer, are stutters of the store.                       *)
LEMMA StepImplements ==
  ASSUME SlotInv, SlotInv', NEW th \in Thread, Step(th)
  PROVE  Keys!KeyStoreNext \/ UNCHANGED Keys!storeVars
  <1>1. KeyOf = stored /\ KeyOf' = stored'
    BY KeyMap
  <1>2. /\ pc[th] # "idle" /\ triple[th] \in KeyTriple /\ stored = key_info
        /\ known[triple[th]] \in {"exists", "absent", "unsure"}
    BY SlotTypes
    DEF SlotInv, DiskUpToDate, Step, Reserve, ReserveError, ExtractError, WriteKey,
        WriteKeyError, Insert, InsertOverwrites, InsertError, Release, Remove,
        RemoveTooLate, RemoveError, Lookup, LookupTooLate, UseRefused, Use, Goto
  <1>3. CASE ReserveError(th) \/ ExtractError(th) \/ Release(th)
    <2>1. Answer(th, "absent") /\ stored' = stored /\ stored[triple[th]] = NoSlot
      BY <1>2, <1>3 DEF ReserveError, ExtractError, Release, kim, SlotInv, RequestsAgree, Owns
    <2> QED
      BY <1>2, <2>1, AnswerImplements
  <1>4. CASE RemoveTooLate(th) \/ LookupTooLate(th)
    <2>1. Answer(th, "absent") /\ stored' = stored /\ stored[triple[th]] = NoSlot
      BY <1>2, <1>4 DEF RemoveTooLate, LookupTooLate, Exists, kim
    <2> QED
      BY <1>2, <2>1, AnswerImplements
  <1>5. CASE RemoveError(th)
    <2>1. Answer(th, "exists") /\ stored' = stored /\ stored[triple[th]] # NoSlot
      BY <1>2, <1>5, SlotTypes DEF RemoveError, kim, SlotInv, RequestsAgree, HasSlot
    <2> QED
      BY <1>2, <2>1, AnswerImplements
  <1>6. CASE UseRefused(th) \/ Use(th)
    <2>1. /\ Answer(th, known[triple[th]]) /\ stored' = stored
          /\ pc[th] \in {"lookup", "use"}
      BY <1>6 DEF UseRefused, Use, kim
    <2> QED
      BY <1>2, <2>1, AnswerImplements
  <1>7. CASE Reserve(th) \/ WriteKey(th) \/ Lookup(th)
    <2>1. KindOf' = KindOf
      BY <1>7, KindStep DEF Reserve, WriteKey, Lookup, Goto, CreateSteps
    <2> QED
      BY <1>1, <1>7, <2>1 DEF Reserve, WriteKey, Lookup, kim, local, Keys!storeVars
  <1>8. CASE WriteKeyError(th) \/ InsertError(th)
    <2>1. /\ pc[th] \in {"device", "insert"} /\ pc' = [pc EXCEPT ![th] = "release"]
          /\ stored' \in {stored, [stored EXCEPT ![triple[th]] = NoSlot]}
          /\ stored[triple[th]] = NoSlot /\ UNCHANGED <<status, triple, known>>
      BY <1>2, <1>8 DEF WriteKeyError, InsertError, InsertKeyInfoError, Goto, kim, local,
                        SlotInv, RequestsAgree, Owns
    <2>2. stored' = stored
      BY <1>2, <2>1, SlotTypes
    <2>3. KindOf[th] = "create" /\ KindOf' = [KindOf EXCEPT ![th] = "end"]
      BY <2>1, KindFacts, KindStep DEF CreateSteps
    <2>4. Keys!GiveUp(th)
      BY <1>1, <2>1, <2>2, <2>3 DEF Keys!GiveUp
    <2> QED
      BY <2>4 DEF Keys!KeyStoreNext
  <1>9. CASE Insert(th)
    <2> DEFINE i == key_id[th]
    <2>1. /\ pc[th] = "insert" /\ i \in Slot /\ Answer(th, "exists")
          /\ stored' = [stored EXCEPT ![triple[th]] = i] /\ stored[triple[th]] = NoSlot
      BY <1>2, <1>9, SlotTypes DEF Insert, InsertKeyInfo, Exists, HasSlot
    <2>2. \A t \in KeyTriple : stored[t] # i
      BY <1>2, <2>1 DEF SlotInv, SlotsExclusive, Owns
    <2>3. KindOf[th] = "create" /\ KindOf' = [KindOf EXCEPT ![th] = "idle"]
      BY <2>1, KindFacts, KindStep DEF Answer, CreateSteps
    <2>4. Keys!Create(th, i)
      BY <1>1, <2>1, <2>2, <2>3 DEF Keys!Create, Keys!End, Keys!Tell, Answer
    <2> QED
      BY <2>1, <2>4 DEF Keys!KeyStoreNext
  <1>10. ~InsertOverwrites(th)
    BY DEF InsertOverwrites, Goto, Exists, SlotInv, RequestsAgree, Owns
  <1>11. CASE Remove(th)
    <2>1. /\ pc[th] = "remove" /\ pc' = [pc EXCEPT ![th] = "release"]
          /\ stored' = [stored EXCEPT ![triple[th]] = NoSlot]
          /\ UNCHANGED <<status, triple, known>>
      BY <1>11 DEF Remove, RemoveKeyInfo, Goto, local
    <2>2. KindOf[th] = "destroy" /\ KindOf' = [KindOf EXCEPT ![th] = "end"]
      BY <2>1, KindFacts, KindStep
    <2>3. Keys!Destroy(th)
      BY <1>1, <2>1, <2>2 DEF Keys!Destroy
    <2> QED
      BY <2>3 DEF Keys!KeyStoreNext
  <1> QED
    BY <1>3, <1>4, <1>5, <1>6, <1>7, <1>8, <1>9, <1>10, <1>11 DEF Step

(* The service stops and dies around an unchanged map, and loses the       *)
(* mappings that a start drops.                                            *)
LEMMA ServiceImplements ==
  ASSUME SlotInv, SlotInv', Drain \/ Joined \/ Crash \/ Start \/ StartError
  PROVE  Keys!KeyStoreNext
  <1>1. KeyOf = stored /\ KeyOf' = stored'
    BY KeyMap
  <1>2. CASE Drain
    <2>1. Keys!Drain
      BY <1>1, <1>2 DEF Drain, StopArrivals, kim, KindOf, RequestKinds, Keys!Drain,
                        Keys!requests
    <2> QED
      BY <2>1 DEF Keys!KeyStoreNext
  <1>3. CASE Joined
    <2>1. Keys!Join
      BY <1>1, <1>3 DEF Joined, JoinThreads, kim, KindOf, RequestKinds, Keys!Join,
                        Keys!requests
    <2> QED
      BY <2>1 DEF Keys!KeyStoreNext
  <1>4. CASE Crash
    <2>1. stored' = stored
      <3>1. ASSUME NEW th \in Thread, pc[th] = "insert", InsertKeyInfoError(triple[th])
            PROVE  stored' = stored
        BY <3>1, SlotTypes DEF InsertKeyInfoError, SlotInv, RequestsAgree, Owns, DiskUpToDate
      <3> QED
        BY <1>4, <3>1 DEF Crash, kim
    <2>2. KindOf' = [th \in Thread |-> "idle"]
      BY <1>4 DEF Crash, LoseThreads, KindOf, RequestKinds
    <2>3. Keys!Crash
      BY <1>1, <1>4, <2>1, <2>2 DEF Crash, LoseThreads, Keys!Crash
    <2> QED
      BY <2>3 DEF Keys!KeyStoreNext
  <1>5. CASE Start \/ StartError
    <2>1. PICK lost \in SUBSET KeyTriple : ReloadWithout(lost)
      BY <1>5 DEF Start, StartError, Mapped
    <2>2. KindOf' = KindOf /\ UNCHANGED <<triple, known>> /\ status = "down"
          /\ status' \in {"up", "down"}
      BY <1>5 DEF Start, StartError, local, KindOf, RequestKinds
    <2>3. \E gone \in SUBSET KeyTriple :
             /\ FALSE => gone = {}
             /\ stored' = [t \in KeyTriple |-> IF t \in gone THEN NoSlot ELSE stored[t]]
      <3> WITNESS lost \in SUBSET KeyTriple
      <3> QED
        BY <2>1 DEF ReloadWithout
    <2>4. Keys!Start
      BY <1>1, <2>2, <2>3 DEF Keys!Start, Keys!requests
    <2> QED
      BY <2>4 DEF Keys!KeyStoreNext
  <1> QED
    BY <1>2, <1>3, <1>4, <1>5

(* To clients that wait for their answers the provider is one map from     *)
(* triples to keys, which only a start may empty (Provider::new drops the  *)
(* mappings): no slot serves two triples, a request changes its own        *)
(* triple's key only, and every answer is true when it is given.           *)
THEOREM ImplementsKeyStore == ~Overlap /\ Spec => KeyStoreSpec
  <1> SUFFICES ASSUME ~Overlap
               PROVE  Spec => KeyStoreSpec
    OBVIOUS
  <1>1. Init => Keys!KeyStoreInit
    BY DEF Init, KimInit, RequestInit, Keys!KeyStoreInit, KindOf, RequestKinds, KeyOf, Reached
  <1>2. SlotInv /\ SlotInv' /\ [Next]_vars => [Keys!KeyStoreNext]_Keys!storeVars
    <2> SUFFICES ASSUME SlotInv, SlotInv', [Next]_vars
                 PROVE  Keys!KeyStoreNext \/ UNCHANGED Keys!storeVars
      OBVIOUS
    <2>1. CASE UNCHANGED vars
      BY <2>1 DEF vars, KindOf, RequestKinds, KeyOf, Reached, Keys!storeVars
    <2>2. CASE Next
      BY <2>2, RequestImplements, StepImplements, ServiceImplements DEF Next
    <2> QED
      BY <2>1, <2>2
  <1> QED
    BY <1>1, <1>2, SlotsKeptApart, PTL DEF Spec, KeyStoreSpec, Keys!KeyStoreSpec

(* A client that was told that it has no key finds none until it creates   *)
(* one, in this life of the service or a later one.                        *)
THEOREM AnswersStayTrue == ~Overlap /\ Spec => []AnswersHold
  <1>1. SlotInv => AnswersHold
    BY SlotTypes
    DEF SlotInv, AbsentIsUnmapped, StoredAgrees, KeyOf, Reached, AnswersHold, Keys!AnswersHold
  <1> QED
    BY <1>1, SlotsKeptApart, PTL
===========================================================================
