---------------------------- MODULE MbedCrypto ----------------------------
(***************************************************************************)
(* The Mbed Crypto provider (providers/mbed_crypto): the threads of the    *)
(* service create, use and destroy keys of a PSA Crypto backend.  A key    *)
(* has an id there, taken from an atomic counter; the key info manager     *)
(* maps a client's key triple to it.  The backend is called with           *)
(* key_handle_mutex held, the key info manager and the counter mostly      *)
(* without it, so the steps of two requests interleave there.              *)
(***************************************************************************)
EXTENDS Integers

CONSTANTS
    Thread,     (* worker threads of the service                           *)
    KeyTriple,  (* the (application, provider, key name) triples requested *)
    IdMin,      (* PSA_KEY_ID_USER_MIN                                     *)
    IdMax,      (* PSA_KEY_ID_USER_MAX                                     *)
    NoTriple,   (* no key under an id of the backend; idle thread          *)
    NoThread,   (* the mutex is free                                       *)
    Overlap,    (* requests about one triple may overlap in time           *)
    Faults      (* what may fail: "crash", "kim", "backend"                *)

ASSUME MbedAssumption ==
    /\ IdMin \in Nat \ {0}
    /\ IdMax \in Nat
    /\ IdMin <= IdMax
    /\ NoTriple \notin KeyTriple
    /\ NoThread \notin Thread
    /\ Overlap \in BOOLEAN
    /\ Faults \subseteq {"crash", "kim", "backend"}

Id == IdMin .. IdMax
NoId == 0          \* PSA_KEY_ID_NULL: no key has it

VARIABLES
    status,     (* "up", "draining": main joins the threads, or "down"     *)
    key_info,   (* key info manager, see KeyInfoManagerClient              *)
    stored,
    keys,       (* the backend: the triple a key was created for           *)
    id_counter, (* AtomicU32 of the provider                               *)
    mutex,      (* holder of key_handle_mutex                              *)
    pc,         (* per thread: next step of its request                    *)
    triple,     (* per thread: the triple of its request                   *)
    key_id,     (* per thread: the local variable key_id                   *)
    known       (* history: per triple, what the last answer about it said *)

kim == <<key_info, stored>>
local == <<triple, key_id>>
vars == <<status, key_info, stored, keys, id_counter, mutex, pc, triple,
          key_id, known>>

INSTANCE KeyInfoManagerClient
INSTANCE ProviderRequests

TypeOK ==
    /\ RequestTypeOK({"count", "saturate", "create_lock", "create", "insert",
                      "rollback", "remove", "destroy_lock", "destroy",
                      "use_lock", "use"})
    /\ KimTypeOK(Id)
    /\ keys \in [Id -> KeyTriple \cup {NoTriple}]
    /\ id_counter \in Nat /\ id_counter >= IdMin
    /\ mutex \in Thread \cup {NoThread}
    /\ key_id \in [Thread -> Nat]
    /\ \A th \in Thread : pc[th] \notin {"idle", "count", "saturate"} => key_id[th] \in Id

(* A fresh installation: no key, no mapping, the service not yet started.  *)
Init ==
    /\ RequestInit
    /\ KimInit
    /\ keys = [i \in Id |-> NoTriple]
    /\ id_counter = IdMin
    /\ mutex = NoThread

---------------------------------------------------------------------------
(* The request ends; the guard of the mutex is dropped if th has it.       *)
Return(th, k) ==
    /\ Answer(th, k)
    /\ mutex' = IF mutex = th THEN NoThread ELSE mutex

Lock(th, from, to) ==
    /\ Goto(th, from, to)
    /\ mutex = NoThread
    /\ mutex' = th
    /\ UNCHANGED <<status, kim, keys, id_counter, local, known>>

---------------------------------------------------------------------------
(* psa_generate_key_internal and psa_import_key_internal: they differ in   *)
(* the call of the backend only.                                           *)

(* does_not_exist fails: PsaErrorAlreadyExists.                            *)
CreateRefused(th, t) ==
    /\ Refuse(th, t, "exists")
    /\ Exists(t)
    /\ UNCHANGED <<kim, keys, id_counter, mutex>>

CreateBegin(th, t) ==
    /\ Begin(th, t, "count", NoId, "unsure")
    /\ ~Exists(t)
    /\ UNCHANGED <<kim, keys, id_counter, mutex>>

(* create_key_id: fetch_add, and the comparison with the limit.            *)
FetchAdd(th) ==
    /\ Goto(th, "count", IF id_counter + 1 > IdMax THEN "saturate"
                                                   ELSE "create_lock")
    /\ key_id' = [key_id EXCEPT ![th] = id_counter + 1]
    /\ id_counter' = id_counter + 1
    /\ UNCHANGED <<status, kim, keys, mutex, triple, known>>

Saturate_Decrements(th) ==   \* mutant: the failed request gives an id back
    /\ pc[th] = "saturate"
    /\ id_counter' = IdMax - 1
    /\ Return(th, "absent")
    /\ UNCHANGED <<kim, keys>>

(* create_key_id: the store at the limit, PsaErrorInsufficientMemory.      *)
Saturate(th) ==
    /\ pc[th] = "saturate"
    /\ id_counter' = IdMax
    /\ Return(th, "absent")
    /\ UNCHANGED <<kim, keys>>

(* The backend refuses an id that has a key, and may fail for other        *)
(* reasons.                                                                *)
CreateKey(th) ==
    /\ Goto(th, "create", "insert")
    /\ keys[key_id[th]] = NoTriple
    /\ keys' = [keys EXCEPT ![key_id[th]] = triple[th]]
    /\ UNCHANGED <<status, kim, id_counter, mutex, local, known>>

CreateKeyError_KeepsGuard(th) ==   \* mutant: the mutex stays locked
    /\ pc[th] = "create"
    /\ keys[key_id[th]] # NoTriple \/ Fails("backend")
    /\ Answer(th, "absent")
    /\ UNCHANGED <<kim, keys, id_counter, mutex>>

CreateKeyError(th) ==
    /\ pc[th] = "create"
    /\ keys[key_id[th]] # NoTriple \/ Fails("backend")
    /\ Return(th, "absent")
    /\ UNCHANGED <<kim, keys, id_counter>>

Insert(th) ==
    /\ pc[th] = "insert"
    /\ ~Exists(triple[th])
    /\ InsertKeyInfo(triple[th], key_id[th])
    /\ Return(th, "exists")
    /\ UNCHANGED <<keys, id_counter>>

(* PsaErrorAlreadyExists: the mapping has been overwritten all the same.   *)
InsertOverwrites(th) ==
    /\ Goto(th, "insert", "rollback")
    /\ Exists(triple[th])
    /\ InsertKeyInfo(triple[th], key_id[th])
    /\ UNCHANGED <<status, keys, id_counter, mutex, local, known>>

InsertError_NoRollback(th) ==   \* mutant: the new key is left behind
    /\ pc[th] = "insert"
    /\ Fails("kim")
    /\ InsertKeyInfoError(triple[th])
    /\ Return(th, "absent")
    /\ UNCHANGED <<keys, id_counter>>

InsertError(th) ==
    /\ Goto(th, "insert", "rollback")
    /\ Fails("kim")
    /\ InsertKeyInfoError(triple[th])
    /\ UNCHANGED <<status, keys, id_counter, mutex, local, known>>

(* The new key is destroyed again; a failure is only logged.               *)
Rollback(th) ==
    /\ pc[th] = "rollback"
    /\ \/ keys' = [keys EXCEPT ![key_id[th]] = NoTriple]
       \/ Fails("backend") /\ UNCHANGED keys
    /\ Return(th, "absent")
    /\ UNCHANGED <<kim, id_counter>>
---------------------------------------------------------------------------
(* psa_destroy_key_internal.                                               *)

(* get_key_id fails: PsaErrorDoesNotExist.  So do the operations that use  *)
(* a key.                                                                  *)
NoSuchKey(th, t) ==
    /\ Refuse(th, t, "absent")
    /\ ~Exists(t)
    /\ UNCHANGED <<kim, keys, id_counter, mutex>>

DestroyBegin(th, t) ==
    /\ Begin(th, t, "remove", key_info[t], "unsure")
    /\ Exists(t)
    /\ UNCHANGED <<kim, keys, id_counter, mutex>>

Remove(th) ==
    /\ Goto(th, "remove", "destroy_lock")
    /\ Exists(triple[th])
    /\ RemoveKeyInfo(triple[th])
    /\ UNCHANGED <<status, keys, id_counter, mutex, local, known>>

(* Another request has removed the mapping since: PsaErrorDoesNotExist.    *)
RemoveTooLate(th) ==
    /\ pc[th] = "remove"
    /\ ~Exists(triple[th])
    /\ Return(th, "absent")
    /\ UNCHANGED <<kim, keys, id_counter>>

RemoveError_Ignored(th) ==   \* mutant: the key is destroyed all the same
    /\ Goto(th, "remove", "destroy_lock")
    /\ Fails("kim")
    /\ UNCHANGED <<status, kim, keys, id_counter, mutex, local, known>>

RemoveError(th) ==
    /\ pc[th] = "remove"
    /\ Fails("kim")
    /\ Return(th, "exists")
    /\ UNCHANGED <<kim, keys, id_counter>>

(* The mapping is gone whatever the backend answers; when it fails with    *)
(* the key in place, a zombie key remains.                                 *)
Destroy(th) ==
    /\ pc[th] = "destroy"
    /\ \/ keys' = [keys EXCEPT ![key_id[th]] = NoTriple]
       \/ Fails("backend") /\ UNCHANGED keys
    /\ Return(th, "absent")
    /\ UNCHANGED <<kim, id_counter>>
---------------------------------------------------------------------------
(* The operations that use a key: sign, verify, encrypt, decrypt, export,  *)
(* key agreement.  The id is read before the mutex is taken.               *)

UseBegin(th, t) ==
    /\ Begin(th, t, "use_lock", key_info[t], known[t])
    /\ Exists(t)
    /\ UNCHANGED <<kim, keys, id_counter, mutex>>

Use(th) ==
    /\ pc[th] = "use"
    /\ Return(th, known[triple[th]])
    /\ UNCHANGED <<kim, keys, id_counter>>
---------------------------------------------------------------------------
(* The service around the provider: main joins its threads (stop or        *)
(* reload), the process may die, and Provider::new runs at the next start. *)

Drain ==
    /\ StopArrivals
    /\ UNCHANGED <<kim, keys, id_counter, mutex>>

Joined ==
    /\ JoinThreads
    /\ UNCHANGED <<kim, keys, id_counter, mutex>>

(* The process dies.  A thread within save_mapping may have unlinked the   *)
(* old file already.                                                       *)
Crash ==
    /\ LoseThreads
    /\ mutex' = NoThread
    /\ \/ UNCHANGED kim
       \/ \E th \in Thread : pc[th] = "insert" /\ InsertKeyInfoError(triple[th])
    /\ UNCHANGED <<keys, id_counter>>

HasKey(id) == id # NoId /\ keys[id] # NoTriple

(* The triples whose mapping on disk refers to no key of the backend.      *)
DeadTriples == {t \in KeyTriple : stored[t] # NoId /\ ~HasKey(stored[t])}

(* The counter restarts from the highest id that a mapping refers to.      *)
Start ==
    /\ status = "down"
    /\ status' = "up"
    /\ ReloadWithout(DeadTriples)
    /\ LET found == {IdMin} \cup {stored[t] : t \in {u \in KeyTriple : HasKey(stored[u])}}
       IN  \E max \in found : /\ \A id \in found : id <= max
                              /\ id_counter' = max
    /\ UNCHANGED <<keys, mutex, pc, local, known>>

(* `new` returns None after some of the removals; the process exits.       *)
StartError ==
    /\ status = "down"
    /\ Fails("kim")
    /\ \E bad \in SUBSET DeadTriples : ReloadWithout(bad)
    /\ UNCHANGED <<status, keys, id_counter, mutex, pc, local, known>>
---------------------------------------------------------------------------
(* What the code does on a thread once a request has arrived.              *)
Step(th) ==
    \/ FetchAdd(th) \/ Saturate(th)
    \/ Lock(th, "create_lock", "create")
    \/ CreateKey(th) \/ CreateKeyError(th)
    \/ Insert(th) \/ InsertOverwrites(th) \/ InsertError(th) \/ Rollback(th)
    \/ Remove(th) \/ RemoveTooLate(th) \/ RemoveError(th)
    \/ Lock(th, "destroy_lock", "destroy") \/ Destroy(th)
    \/ Lock(th, "use_lock", "use") \/ Use(th)

Request(th, t) ==
    \/ CreateRefused(th, t) \/ CreateBegin(th, t)
    \/ NoSuchKey(th, t) \/ DestroyBegin(th, t) \/ UseBegin(th, t)

Next ==
    \/ \E th \in Thread : Step(th)
    \/ \E th \in Thread, t \in KeyTriple : Request(th, t)
    \/ Drain \/ Joined \/ Crash \/ Start \/ StartError

Spec == Init /\ [][Next]_vars

(* The operating system schedules every thread, and main's join returns.   *)
FairSpec ==
    /\ Spec
    /\ \A th \in Thread : WF_vars(Step(th))
    /\ WF_vars(Joined)

---------------------------------------------------------------------------
(* Threads with a new id not yet in the key info manager, and threads with *)
(* an id that they read from it.                                           *)
Creating(th) == pc[th] \in {"create_lock", "create", "insert"}
Reading(th) == pc[th] \in {"remove", "destroy_lock", "destroy", "use_lock", "use"}

(* Two triples never map to the same key, although ids are taken from the  *)
(* counter without the mutex, a failed creation never gives its id back,   *)
(* and the counter is rebuilt at every start from the mappings alone       *)
(* (create_key_id and Provider::new).                                      *)
MappingsInjective ==
    \A t, u \in KeyTriple :
        t # u /\ key_info[t] # NoId => key_info[t] # key_info[u]

(* The key a triple maps to was created for that triple, or is gone.       *)
MappedToOwnKey ==
    \A t \in KeyTriple :
        key_info[t] # NoId => keys[key_info[t]] \in {t, NoTriple}

(* An id on its way from the counter to a new mapping is mapped by nobody  *)
(* and held by no other creation, also when the counter is at its limit.   *)
IssuedIdsFresh ==
    \A th \in Thread : Creating(th) =>
        /\ \A t \in KeyTriple : key_info[t] # key_id[th]
        /\ \A other \in Thread \ {th} :
              Creating(other) \/ pc[other] = "rollback" => key_id[other] # key_id[th]

(* The inductive invariant behind these three.  Ids on disk and in memory  *)
(* agree, no id in use is above the counter, a creation that has not       *)
(* inserted its id shares it with no request that read its id from the key *)
(* info manager, and the key under the id of a request in progress is a    *)
(* key of the request's own triple or no key at all: requests read their   *)
(* ids before they wait for key_handle_mutex, so an id may be stale, but   *)
(* never that of another triple's key.                                     *)
StoredAgrees == \A t \in KeyTriple : stored[t] # NoId => stored[t] = key_info[t]

IdsBelowCounter ==
    /\ \A t \in KeyTriple : key_info[t] <= id_counter
    /\ \A th \in Thread :
          pc[th] \notin {"idle", "count", "saturate"} => key_id[th] <= id_counter

IdleWhenDown == status = "down" => \A th \in Thread : pc[th] = "idle"

ReadIdsNotFresh ==
    \A th, other \in Thread :
        Creating(th) /\ Reading(other) => key_id[th] # key_id[other]

HeldKeyIsOwn ==
    \A th \in Thread :
        /\ pc[th] = "insert" => keys[key_id[th]] = triple[th]
        /\ Reading(th) => keys[key_id[th]] \in {triple[th], NoTriple}

IdInv ==
    /\ TypeOK
    /\ StoredAgrees
    /\ IdsBelowCounter
    /\ IdleWhenDown
    /\ MappingsInjective
    /\ MappedToOwnKey
    /\ IssuedIdsFresh
    /\ ReadIdsNotFresh
    /\ HeldKeyIsOwn

(* A key whose mapping is on disk keeps both, across crashes and restarts, *)
(* whatever fails and whoever else is at work, unless a request about the  *)
(* same triple replaces or removes the mapping, dies doing so, or destroys *)
(* the key as its own after an insertion that failed.  In particular the   *)
(* destruction that follows a removal never meets a mapped key, although   *)
(* its id was read earlier and the name may have been created anew.        *)
MappedKeyStays ==
    [][\A t \in KeyTriple :
          stored[t] # NoId /\ keys[stored[t]] = t =>
             \/ stored'[t] = stored[t] /\ keys'[stored[t]] = t
             \/ \E th \in Thread :
                   /\ triple[th] = t
                   /\ pc[th] \in {"insert", "rollback", "remove"}
                   /\ pc'[th] # pc[th]]_vars

(* What IdInv lacks for it: an id that a request has read, or would roll   *)
(* back, is mapped by no other triple, and one that is about to be         *)
(* destroyed after a removal by none at all, although Remove takes the     *)
(* mapping that is there and not the one that was read.                    *)
HeldIdsNotOthers ==
    \A th \in Thread : Reading(th) \/ pc[th] = "rollback" =>
        \A t \in KeyTriple : key_info[t] = key_id[th] => t = triple[th]

DestroyedIdsUnmapped ==
    \A th \in Thread : pc[th] \in {"destroy_lock", "destroy"} =>
        \A t \in KeyTriple : key_info[t] # key_id[th]

MappedInv == IdInv /\ HeldIdsNotOthers /\ DestroyedIdsUnmapped

Reached(t) == IF status = "down" THEN stored[t] ELSE key_info[t]

(* The comment on a failed destruction: the key "can not be accessible     *)
(* from Parsec anymore".  A key of the backend without a mapping, which no *)
(* request in progress works on, stays as it is and gets no mapping again, *)
(* across crashes and restarts and although its id may be issued again.    *)
ZombiesStayUnreachable ==
    [][\A i \in Id :
          ( /\ keys[i] # NoTriple
            /\ \A t \in KeyTriple : Reached(t) # i
            /\ \A th \in Thread :
                  key_id[th] = i => pc[th] \in {"saturate", "create_lock", "create"} )
          => /\ keys'[i] = keys[i]
             /\ \A t \in KeyTriple : Reached(t)' # i]_vars

(* Without overlapping requests about one triple, a client that was told   *)
(* its key exists finds it until it destroys it, in this life of the       *)
(* service and in the next ones, whichever call fails and wherever the     *)
(* process dies.                                                           *)
AckedKeyUsable ==
    \A t \in KeyTriple : known[t] = "exists" =>
        /\ Reached(t) # NoId
        /\ stored[t] = Reached(t)
        /\ keys[stored[t]] = t

(* The inductive invariant behind the two, for clients that wait: every    *)
(* mapping, on disk too, leads to a key of its triple; a creation has      *)
(* found none, and its key is nobody else's to destroy; who is about to    *)
(* remove a mapping has read it; and only a request without effect on the  *)
(* mapping leaves the client's knowledge of its key alone.                 *)
OneRequestPerTriple ==
    \A th, other \in Thread :
        th # other /\ triple[th] # NoTriple => triple[th] # triple[other]

MappedKeysLive ==
    \A t \in KeyTriple : stored[t] # NoId => keys[stored[t]] = t

DiskUpToDate == status # "down" => stored = key_info

Ending(th) == pc[th] \in {"rollback", "destroy_lock", "destroy"}

RequestsAgree ==
    \A th \in Thread :
        /\ pc[th] \in {"count", "saturate"} \/ Creating(th) \/ Ending(th) =>
               key_info[triple[th]] = NoId
        /\ Ending(th) => \A t \in KeyTriple : stored[t] # key_id[th]
        /\ pc[th] = "remove" => key_info[triple[th]] = key_id[th]
        /\ pc[th] \notin {"idle", "use_lock", "use"} => known[triple[th]] = "unsure"

KnownIsStored ==
    \A t \in KeyTriple :
        /\ known[t] = "exists" => stored[t] # NoId
        /\ known[t] = "absent" => stored[t] = NoId

KeptInv ==
    /\ IdInv
    /\ OneRequestPerTriple
    /\ MappedKeysLive
    /\ DiskUpToDate
    /\ RequestsAgree
    /\ KnownIsStored

(* ... and no key is left behind in the backend by any error of the key     *)
(* info manager: a key that was created stays mapped or in the hands of a  *)
(* request, unless the process dies or the backend refuses to destroy it.  *)
HasOwner(i) ==
    \/ Reached(keys[i]) = i
    \/ \E th \in Thread :
          pc[th] \in {"insert", "rollback", "destroy_lock", "destroy"} /\ key_id[th] = i

OrphansOnlyFromFailures ==
    [][\A i \in Id :
          (keys[i] = NoTriple \/ HasOwner(i)) /\ keys'[i] # NoTriple =>
             \/ HasOwner(i)'
             \/ status' = "down"
             \/ \E th \in Thread :
                   pc[th] \in {"destroy", "rollback"} /\ key_id[th] = i]_vars

(* Stop and reload terminate: once main joins the threads, every request   *)
(* in progress gets through the mutex and ends, on its error paths too.    *)
DrainEnds == status = "draining" ~> status # "draining"

(* key_management.rs:59 and 104, before the destruction of the new key:    *)
(* "Safe as this thread should be the only one accessing this key yet."    *)
RollbackKeyIsPrivate ==
    \A th \in Thread : pc[th] = "rollback" =>
        \A t \in KeyTriple : key_info[t] # key_id[th]

(* To clients that wait the provider is one map from triples to keys       *)
(* (KeyStore).  Under a triple they reach the key of its mapping, if it is *)
(* there and was made for the triple.                                      *)
CreateSteps == {"count", "saturate", "create_lock", "create", "insert"}
UseSteps == {"use_lock", "use"}

KindOf == RequestKinds(CreateSteps, {"remove"}, UseSteps)

KeyOf ==
    [t \in KeyTriple |->
        IF Reached(t) # NoId /\ keys[Reached(t)] = t THEN Reached(t) ELSE NoId]

Keys == INSTANCE KeyStore WITH
    Key <- Id, NoKey <- NoId, Durable <- TRUE,
    kind <- KindOf, key <- KeyOf

KeyStoreSpec == Keys!KeyStoreSpec

(* What an answer said stays true until the next request about the triple: *)
(* also, a key that was destroyed does not come back.                      *)
AnswersHold == Keys!AnswersHold
===========================================================================
