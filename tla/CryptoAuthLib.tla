--------------------------- MODULE CryptoAuthLib ---------------------------
(***************************************************************************)
(* The CryptoAuthLib provider (providers/cryptoauthlib): keys live in the  *)
(* slots of an ATECC device.  A slot is reserved in software (KeySlot-     *)
(* Storage), the device is written, and the key info manager maps the      *)
(* client's triple to the slot.  Nothing spans these steps: the storage    *)
(* and the key info manager each lock for one call, the library serialises *)
(* the calls of the device.                                                *)
(***************************************************************************)
EXTENDS Integers

CONSTANTS
    Thread, KeyTriple,
    Slot,       (* the numbers of the slots                                *)
    LockedSlot, (* slots that the hardware protects                        *)
    Kind,       (* sets of key attributes                                  *)
    Fits,       (* the slots whose configuration suits a kind              *)
    NoTriple,   (* no key in a slot; idle thread                           *)
    NoSlot,     (* no mapping                                              *)
    Overlap,    (* requests about one triple may overlap in time           *)
    Faults      (* what may fail: "crash", "kim", "device", "data"         *)

ASSUME CalibAssumption ==
    /\ Slot \subseteq Nat
    /\ LockedSlot \subseteq Slot
    /\ Fits \in [Kind -> SUBSET Slot]
    /\ NoTriple \notin KeyTriple
    /\ NoSlot \notin Slot
    /\ Overlap \in BOOLEAN
    /\ Faults \subseteq {"crash", "kim", "device", "data"}

VARIABLES
    status,
    key_info,   (* key info manager, see KeyInfoManagerClient              *)
    stored,
    slots,      (* KeySlotStorage: "free", "busy" or "locked"              *)
    device,     (* the triple that the key in a slot was written for       *)
    pc, triple, (* the requests, see ProviderRequests                      *)
    key_id,     (* per thread: the local variable slot_id or key_id        *)
    known

kim == <<key_info, stored>>
local == <<triple, key_id>>
vars == <<status, key_info, stored, slots, device, pc, triple, key_id, known>>

INSTANCE KeyInfoManagerClient WITH NoId <- NoSlot
INSTANCE ProviderRequests WITH NoId <- NoSlot

Steps == {"reserve", "device", "insert", "release", "remove", "lookup", "use"}

(* Steps at which a request knows the slot it works on.                    *)
HasSlot(th) == pc[th] \in {"device", "insert", "release", "remove", "use"}

TypeOK ==
    /\ RequestTypeOK(Steps)
    /\ KimTypeOK(Slot)
    /\ slots \in [Slot -> {"free", "busy", "locked"}]
    /\ device \in [Slot -> KeyTriple \cup {NoTriple}]
    /\ key_id \in [Thread -> Slot \cup {NoSlot}]
    /\ \A th \in Thread : HasSlot(th) => key_id[th] \in Slot

(* KeySlotStorage as set_hw_config leaves it.                              *)
HwConfig == [s \in Slot |-> IF s \in LockedSlot THEN "locked" ELSE "free"]

Init ==
    /\ RequestInit
    /\ KimInit
    /\ slots = HwConfig
    /\ device = [s \in Slot |-> NoTriple]

---------------------------------------------------------------------------
(* psa_generate_key_internal and psa_import_key_internal.                  *)

CreateRefused(th, t) ==
    /\ Refuse(th, t, "exists")
    /\ Exists(t)
    /\ UNCHANGED <<kim, slots, device>>

CreateBegin(th, t) ==
    /\ Begin(th, t, "reserve", NoSlot, "unsure")
    /\ ~Exists(t)
    /\ UNCHANGED <<kim, slots, device>>

Suitable_AllowsLocked(k) ==   \* mutant: what is not busy is taken for free
    {s \in Fits[k] : slots[s] # "busy"}

Suitable(k) == {s \in Fits[k] : slots[s] = "free"}

Reserve_StaysFree(th) ==   \* mutant: the slot found is not marked busy
    /\ Goto(th, "reserve", "device")
    /\ \E k \in Kind : \E s \in Suitable(k) :
          /\ \A other \in Suitable(k) : s <= other
          /\ key_id' = [key_id EXCEPT ![th] = s]
    /\ UNCHANGED <<status, kim, slots, device, triple, known>>

(* find_suitable_slot: the first free slot that suits the attributes.      *)
Reserve(th) ==
    /\ Goto(th, "reserve", "device")
    /\ \E k \in Kind : \E s \in Suitable(k) :
          /\ \A other \in Suitable(k) : s <= other
          /\ slots' = [slots EXCEPT ![s] = "busy"]
          /\ key_id' = [key_id EXCEPT ![th] = s]
    /\ UNCHANGED <<status, kim, device, triple, known>>

(* PsaErrorInsufficientStorage; a kind that fits no slot at all stands for *)
(* the attributes that the checks before it refuse.                        *)
ReserveError(th) ==
    /\ pc[th] = "reserve"
    /\ \E k \in Kind : Suitable(k) = {}
    /\ Answer(th, "absent")
    /\ UNCHANGED <<kim, slots, device>>

(* raw_key_extract refuses the data of an import: the slot stays reserved. *)
ExtractError(th) ==
    /\ pc[th] = "device"
    /\ Fails("data")
    /\ Answer(th, "absent")
    /\ UNCHANGED <<kim, slots, device>>

WriteKey(th) ==
    /\ Goto(th, "device", "insert")
    /\ device' = [device EXCEPT ![key_id[th]] = triple[th]]
    /\ UNCHANGED <<status, kim, slots, local, known>>

WriteKeyError_Ignored(th) ==   \* mutant: the error is taken for a success
    /\ Goto(th, "device", "insert")
    /\ Fails("device")
    /\ device' \in {device, [device EXCEPT ![key_id[th]] = triple[th]]}
    /\ UNCHANGED <<status, kim, slots, local, known>>

(* The device reports an error; the key may be in the slot all the same.   *)
WriteKeyError(th) ==
    /\ Goto(th, "device", "release")
    /\ Fails("device")
    /\ device' \in {device, [device EXCEPT ![key_id[th]] = triple[th]]}
    /\ UNCHANGED <<status, kim, slots, local, known>>

Insert(th) ==
    /\ pc[th] = "insert"
    /\ ~Exists(triple[th])
    /\ InsertKeyInfo(triple[th], key_id[th])
    /\ Answer(th, "exists")
    /\ UNCHANGED <<slots, device>>

(* PsaErrorAlreadyExists: the mapping has been overwritten all the same,   *)
(* and the slot that it refers to now is freed next.                       *)
InsertOverwrites(th) ==
    /\ Goto(th, "insert", "release")
    /\ Exists(triple[th])
    /\ InsertKeyInfo(triple[th], key_id[th])
    /\ UNCHANGED <<status, slots, device, local, known>>

InsertError_NoRelease(th) ==   \* mutant: the slot is not freed
    /\ pc[th] = "insert"
    /\ Fails("kim")
    /\ InsertKeyInfoError(triple[th])
    /\ Answer(th, "absent")
    /\ UNCHANGED <<slots, device>>

InsertError(th) ==
    /\ Goto(th, "insert", "release")
    /\ Fails("kim")
    /\ InsertKeyInfoError(triple[th])
    /\ UNCHANGED <<status, slots, device, local, known>>

(* set_slot_status(Free), the last step of a failed creation and of a      *)
(* destruction; a locked slot stays locked.                                *)
Release(th) ==
    /\ pc[th] = "release"
    /\ slots' = [slots EXCEPT ![key_id[th]] = IF @ = "locked" THEN @ ELSE "free"]
    /\ Answer(th, "absent")
    /\ UNCHANGED <<kim, device>>
---------------------------------------------------------------------------
(* psa_destroy_key_internal.  The device keeps the key.                    *)

NoSuchKey(th, t) ==
    /\ Refuse(th, t, "absent")
    /\ ~Exists(t)
    /\ UNCHANGED <<kim, slots, device>>

DestroyBegin(th, t) ==
    /\ Begin(th, t, "remove", key_info[t], "unsure")
    /\ Exists(t)
    /\ UNCHANGED <<kim, slots, device>>

Remove(th) ==
    /\ Goto(th, "remove", "release")
    /\ Exists(triple[th])
    /\ RemoveKeyInfo(triple[th])
    /\ UNCHANGED <<status, slots, device, local, known>>

RemoveTooLate(th) ==
    /\ pc[th] = "remove"
    /\ ~Exists(triple[th])
    /\ Answer(th, "absent")
    /\ UNCHANGED <<kim, slots, device>>

RemoveError_Releases(th) ==   \* mutant: the slot is freed on the error too
    /\ Goto(th, "remove", "release")
    /\ Fails("kim")
    /\ UNCHANGED <<status, kim, slots, device, local, known>>

RemoveError(th) ==
    /\ pc[th] = "remove"
    /\ Fails("kim")
    /\ Answer(th, "exists")
    /\ UNCHANGED <<kim, slots, device>>
---------------------------------------------------------------------------
(* Signing, verification and export read the attributes and then the slot  *)
(* from the key info manager, and then call the device.                    *)

UseBegin(th, t) ==
    /\ Begin(th, t, "lookup", NoSlot, known[t])
    /\ Exists(t)
    /\ UNCHANGED <<kim, slots, device>>

Lookup(th) ==
    /\ Goto(th, "lookup", "use")
    /\ Exists(triple[th])
    /\ key_id' = [key_id EXCEPT ![th] = key_info[triple[th]]]
    /\ UNCHANGED <<status, kim, slots, device, triple, known>>

LookupTooLate(th) ==
    /\ pc[th] = "lookup"
    /\ ~Exists(triple[th])
    /\ Answer(th, "absent")
    /\ UNCHANGED <<kim, slots, device>>

(* The attributes do not permit the operation.                             *)
UseRefused(th) ==
    /\ pc[th] = "lookup"
    /\ Exists(triple[th])
    /\ Answer(th, known[triple[th]])
    /\ UNCHANGED <<kim, slots, device>>

Use(th) ==
    /\ pc[th] = "use"
    /\ Answer(th, known[triple[th]])
    /\ UNCHANGED <<kim, slots, device>>
---------------------------------------------------------------------------
Drain ==
    /\ StopArrivals
    /\ UNCHANGED <<kim, slots, device>>

Joined ==
    /\ JoinThreads
    /\ UNCHANGED <<kim, slots, device>>

Crash ==
    /\ LoseThreads
    /\ \/ UNCHANGED kim
       \/ \E th \in Thread : pc[th] = "insert" /\ InsertKeyInfoError(triple[th])
    /\ UNCHANGED <<slots, device>>

Mapped == {t \in KeyTriple : stored[t] # NoSlot}

(* Provider::new.  does_not_exist answers an error for each triple that    *)
(* get_all has just listed, so each of them is put into to_remove and none *)
(* reaches the validation of its slot.                                     *)
Start ==
    /\ status = "down"
    /\ status' = "up"
    /\ ReloadWithout(Mapped)
    /\ slots' = HwConfig
    /\ UNCHANGED <<device, pc, local, known>>

(* `new` returns None after some of the removals; the process exits.       *)
StartError ==
    /\ status = "down"
    /\ \E gone \in SUBSET Mapped :
          /\ Fails("kim") \/ (Fails("device") /\ gone = {})
          /\ ReloadWithout(gone)
    /\ UNCHANGED <<status, slots, device, pc, local, known>>
---------------------------------------------------------------------------
Step(th) ==
    \/ Reserve(th) \/ ReserveError(th) \/ ExtractError(th)
    \/ WriteKey(th) \/ WriteKeyError(th)
    \/ Insert(th) \/ InsertOverwrites(th) \/ InsertError(th) \/ Release(th)
    \/ Remove(th) \/ RemoveTooLate(th) \/ RemoveError(th)
    \/ Lookup(th) \/ LookupTooLate(th) \/ UseRefused(th) \/ Use(th)

Request(th, t) ==
    \/ CreateRefused(th, t) \/ CreateBegin(th, t)
    \/ NoSuchKey(th, t) \/ DestroyBegin(th, t) \/ UseBegin(th, t)

Next ==
    \/ \E th \in Thread : Step(th)
    \/ \E th \in Thread, t \in KeyTriple : Request(th, t)
    \/ Drain \/ Joined \/ Crash \/ Start \/ StartError

Spec == Init /\ [][Next]_vars
---------------------------------------------------------------------------
(* However requests overlap and whatever they free or overwrite, a slot    *)
(* under hardware protection is never reserved, written or released        *)
(* (find_suitable_slot and set_slot_status).                               *)
LockedSlotsUntouched ==
    [][\A s \in LockedSlot : slots'[s] = "locked" /\ device'[s] = device[s]]_vars

(* A mapping never refers to a slot that no creation has written: errors   *)
(* of the device never end in a mapping.                                   *)
MappedSlotIsWritten ==
    \A t \in KeyTriple : key_info[t] # NoSlot => device[key_info[t]] # NoTriple

(* The inductive invariants behind the two: no request is about to write a *)
(* locked slot, and what is about to be mapped, or is in a file, is written.*)
LockInv ==
    /\ \A s \in LockedSlot : slots[s] = "locked"
    /\ \A th \in Thread : pc[th] = "device" => key_id[th] \notin LockedSlot

WrittenInv ==
    /\ MappedSlotIsWritten
    /\ \A t \in KeyTriple : stored[t] # NoSlot => device[stored[t]] # NoTriple
    /\ \A th \in Thread : pc[th] = "insert" => device[key_id[th]] # NoTriple

(* The rest is about clients that wait for their answers (~Overlap).       *)

(* A request that creates or frees the key of a slot: nobody else may have *)
(* the slot until it is done.                                              *)
Owns(th) == pc[th] \in {"device", "insert", "release"}

(* Every slot has at most one owner, a mapping or a request, although its  *)
(* reservation, its key and its mapping are kept in three places.          *)
SlotsExclusive ==
    /\ \A t, u \in KeyTriple : t # u /\ key_info[t] # NoSlot => key_info[t] # key_info[u]
    /\ \A th \in Thread : Owns(th) =>
          /\ \A t \in KeyTriple : key_info[t] # key_id[th]
          /\ \A other \in Thread \ {th} : Owns(other) => key_id[other] # key_id[th]

(* A mapped slot holds the key of its triple, and is reserved.             *)
MappedKeyInSlot ==
    \A t \in KeyTriple : key_info[t] # NoSlot =>
        device[key_info[t]] = t /\ slots[key_info[t]] = "busy"

(* README.md:41: the service provides "isolated key stores in a            *)
(* multi-tenant environment".  The device signs, verifies and exports with *)
(* the key of the triple that was requested.                               *)
UsedSlotIsOwn ==
    \A th \in Thread : pc[th] = "use" => device[key_id[th]] = triple[th]

(* key_slot.rs:15: "Slot is busy but can be released".  A busy slot has a  *)
(* mapping or a request that will release it; none is lost until the next  *)
(* start.                                                                  *)
BusySlotHasOwner ==
    status # "down" => \A s \in Slot : slots[s] = "busy" =>
        \/ \E t \in KeyTriple : key_info[t] = s
        \/ \E th \in Thread : Owns(th) /\ key_id[th] = s

(* mod.rs:99-101: a start is to "Delete invalid entries or invalid         *)
(* mappings" and "Mark the slots free/busy appropriately".  A mapping to a *)
(* slot that holds the key of its triple survives.                         *)
ValidMappingsKept ==
    [][status = "down" /\ status' = "up" =>
          \A t \in KeyTriple :
             (stored[t] # NoSlot /\ device[stored[t]] = t)
                => stored'[t] = stored[t] /\ slots'[stored[t]] = "busy"]_vars

(* The inductive invariant behind the exclusive slots.                     *)
OneRequestPerTriple ==
    \A th, other \in Thread :
        th # other /\ triple[th] # NoTriple => triple[th] # triple[other]

RequestsAgree ==
    \A th \in Thread :
        /\ Owns(th) \/ pc[th] = "reserve" => key_info[triple[th]] = NoSlot
        /\ Owns(th) => slots[key_id[th]] = "busy"
        /\ pc[th] = "insert" => device[key_id[th]] = triple[th]
        /\ pc[th] = "lookup" => key_info[triple[th]] # NoSlot
        /\ pc[th] \in {"remove", "use"} => key_info[triple[th]] = key_id[th]
        /\ pc[th] \notin {"idle", "lookup", "use"} => known[triple[th]] = "unsure"

StoredAgrees == \A t \in KeyTriple : stored[t] # NoSlot => stored[t] = key_info[t]

IdleWhenDown == status = "down" => \A th \in Thread : pc[th] = "idle"

DiskUpToDate == status # "down" => stored = key_info

AbsentIsUnmapped == \A t \in KeyTriple : known[t] = "absent" => key_info[t] = NoSlot

SlotInv ==
    /\ TypeOK
    /\ OneRequestPerTriple
    /\ RequestsAgree
    /\ SlotsExclusive
    /\ MappedKeyInSlot
    /\ StoredAgrees
    /\ IdleWhenDown
    /\ DiskUpToDate
    /\ AbsentIsUnmapped

(* To clients that wait the provider is one map from triples to keys       *)
(* (KeyStore), which a start may empty.  Under a triple they reach the key *)
(* of its mapping, if it is there and was made for the triple.             *)
CreateSteps == {"reserve", "device", "insert"}

Reached(t) == IF status = "down" THEN stored[t] ELSE key_info[t]

KindOf == RequestKinds(CreateSteps, {"remove"}, {"lookup", "use"})

KeyOf ==
    [t \in KeyTriple |->
        IF Reached(t) # NoSlot /\ device[Reached(t)] = t THEN Reached(t) ELSE NoSlot]

Keys == INSTANCE KeyStore WITH
    Key <- Slot, NoKey <- NoSlot, Durable <- FALSE,
    kind <- KindOf, key <- KeyOf

KeyStoreSpec == Keys!KeyStoreSpec

(* A key that was destroyed does not come back.                            *)
AnswersHold == Keys!AnswersHold
===========================================================================
