---------------------------- MODULE TrustedService ----------------------------
(***************************************************************************)
(* The Trusted Service provider (providers/trusted_service): the keys are  *)
(* in a PSA Crypto service of the secure world, under ids from an atomic   *)
(* counter, and are reached by remote procedure calls.  The call mutex of  *)
(* Context covers one call, so creation, insertion and rollback are steps  *)
(* of their own.  A call may fail after it was executed: then the response *)
(* does not get back.                                                      *)
(***************************************************************************)
EXTENDS Integers

CONSTANTS
    Thread,     (* worker threads of the service                           *)
    KeyTriple,  (* the (application, provider, key name) triples requested *)
    IdMin,      (* PSA_KEY_ID_USER_MIN                                     *)
    IdMax,      (* PSA_KEY_ID_USER_MAX                                     *)
    NoTriple,   (* no key under an id; idle thread                         *)
    NoId,       (* no mapping: no key has this id                          *)
    Overlap,    (* requests about one triple may overlap in time           *)
    Faults      (* what may fail: "crash", "kim", "rpc"                    *)

(* What the constants must satisfy; the MC module that instantiates this   *)
(* module assumes it.                                                      *)
TrustedServiceAssumption ==
    /\ IdMin \in Nat \ {0}
    /\ IdMax \in Nat
    /\ IdMin <= IdMax
    /\ NoId \in Nat /\ NoId < IdMin
    /\ NoTriple \notin KeyTriple
    /\ Overlap \in BOOLEAN
    /\ Faults \subseteq {"crash", "kim", "rpc"}

KeyId == IdMin .. IdMax

VARIABLES
    status,     (* "up", "draining": main joins the threads, or "down"     *)
    key_info,   (* key info manager, see KeyInfoManagerClient              *)
    stored,
    keys,       (* the secure world: the triple a key was created for      *)
    id_counter, (* AtomicU32 of the provider                               *)
    pc,         (* per thread: next step of its request                    *)
    triple,     (* per thread: the triple of its request                   *)
    key_id,     (* per thread: the local variable key_id                   *)
    known       (* history: per triple, what the last answer about it said *)

kim == <<key_info, stored>>
local == <<triple, key_id>>
vars == <<status, key_info, stored, keys, id_counter, pc, triple, key_id,
          known>>

INSTANCE KeyInfoManagerClient
INSTANCE ProviderRequests

TypeOK ==
    /\ RequestTypeOK({"count", "saturate", "create", "insert", "rollback",
                      "remove", "destroy", "use"})
    /\ KimTypeOK(KeyId)
    /\ keys \in [KeyId -> KeyTriple \cup {NoTriple}]
    /\ id_counter \in Nat /\ id_counter >= IdMin
    /\ key_id \in [Thread -> Nat]
    /\ \A th \in Thread : pc[th] \notin {"idle", "count", "saturate"} => key_id[th] \in KeyId

Init ==
    /\ RequestInit
    /\ KimInit
    /\ keys = [i \in KeyId |-> NoTriple]
    /\ id_counter = IdMin

---------------------------------------------------------------------------
(* Context::send_request, up to the answer of the secure world: the call   *)
(* leaves the keys as `after`, or it fails, executed or not.               *)
Calls(after) == keys' = after
CallFails(after) == Fails("rpc") /\ keys' \in {keys, after}

WithKey(th) == [keys EXCEPT ![key_id[th]] = triple[th]]
WithoutKey(th) == [keys EXCEPT ![key_id[th]] = NoTriple]
---------------------------------------------------------------------------
(* psa_generate_key_internal and psa_import_key_internal.                  *)

(* does_not_exist fails: PsaErrorAlreadyExists.                            *)
CreateRefused(th, t) ==
    /\ Refuse(th, t, "exists")
    /\ Exists(t)
    /\ UNCHANGED <<kim, keys, id_counter>>

CreateBegin(th, t) ==
    /\ Begin(th, t, "count", NoId, "unsure")
    /\ ~Exists(t)
    /\ UNCHANGED <<kim, keys, id_counter>>

(* create_key_id: fetch_add, and the comparison with the limit.            *)
FetchAdd(th) ==
    /\ Goto(th, "count", IF id_counter + 1 > IdMax THEN "saturate" ELSE "create")
    /\ key_id' = [key_id EXCEPT ![th] = id_counter + 1]
    /\ id_counter' = id_counter + 1
    /\ UNCHANGED <<status, kim, keys, triple, known>>

(* create_key_id: the store at the limit, PsaErrorInsufficientMemory.      *)
Saturate(th) ==
    /\ pc[th] = "saturate"
    /\ id_counter' = IdMax
    /\ Answer(th, "absent")
    /\ UNCHANGED <<kim, keys>>

(* generate_key or import_key; an id with a key is refused.                *)
CreateKey(th) ==
    /\ Goto(th, "create", "insert")
    /\ keys[key_id[th]] = NoTriple
    /\ Calls(WithKey(th))
    /\ UNCHANGED <<status, kim, id_counter, local, known>>

(* The key may be there all the same: nobody asks for its destruction.     *)
CreateKeyError(th) ==
    /\ pc[th] = "create"
    /\ IF keys[key_id[th]] = NoTriple THEN CallFails(WithKey(th))
                                      ELSE UNCHANGED keys
    /\ Answer(th, "absent")
    /\ UNCHANGED <<kim, id_counter>>

Insert(th) ==
    /\ pc[th] = "insert"
    /\ ~Exists(triple[th])
    /\ InsertKeyInfo(triple[th], key_id[th])
    /\ Answer(th, "exists")
    /\ UNCHANGED <<keys, id_counter>>

(* PsaErrorAlreadyExists: the mapping has been overwritten all the same.   *)
InsertOverwrites(th) ==
    /\ Goto(th, "insert", "rollback")
    /\ Exists(triple[th])
    /\ InsertKeyInfo(triple[th], key_id[th])
    /\ UNCHANGED <<status, keys, id_counter, local, known>>

InsertError(th) ==
    /\ Goto(th, "insert", "rollback")
    /\ Fails("kim")
    /\ InsertKeyInfoError(triple[th])
    /\ UNCHANGED <<status, keys, id_counter, local, known>>

(* The new key is destroyed again; a failure is only logged.               *)
Rollback(th) ==
    /\ pc[th] = "rollback"
    /\ Calls(WithoutKey(th)) \/ CallFails(WithoutKey(th))
    /\ Answer(th, "absent")
    /\ UNCHANGED <<kim, id_counter>>
---------------------------------------------------------------------------
(* psa_destroy_key_internal.                                               *)

(* get_key_id fails: PsaErrorDoesNotExist, for every operation on a key.   *)
NoSuchKey(th, t) ==
    /\ Refuse(th, t, "absent")
    /\ ~Exists(t)
    /\ UNCHANGED <<kim, keys, id_counter>>

DestroyBegin(th, t) ==
    /\ Begin(th, t, "remove", key_info[t], "unsure")
    /\ Exists(t)
    /\ UNCHANGED <<kim, keys, id_counter>>

Remove_AfterCall(th) ==   \* mutant: the key is destroyed before its mapping
    /\ Goto(th, "remove", "destroy")
    /\ Exists(triple[th])
    /\ Calls(WithoutKey(th))
    /\ UNCHANGED <<status, kim, id_counter, local, known>>

Remove(th) ==
    /\ Goto(th, "remove", "destroy")
    /\ Exists(triple[th])
    /\ RemoveKeyInfo(triple[th])
    /\ UNCHANGED <<status, keys, id_counter, local, known>>

RemoveTooLate(th) ==
    /\ pc[th] = "remove"
    /\ ~Exists(triple[th])
    /\ Answer(th, "absent")
    /\ UNCHANGED <<kim, keys, id_counter>>

RemoveError(th) ==
    /\ pc[th] = "remove"
    /\ Fails("kim")
    /\ Answer(th, "exists")
    /\ UNCHANGED <<kim, keys, id_counter>>

(* The mapping is gone whatever the secure world answers.                  *)
Destroy(th) ==
    /\ pc[th] = "destroy"
    /\ Calls(WithoutKey(th)) \/ CallFails(WithoutKey(th))
    /\ Answer(th, "absent")
    /\ UNCHANGED <<kim, id_counter>>
---------------------------------------------------------------------------
(* Export, sign and verify.                                                *)

UseBegin(th, t) ==
    /\ Begin(th, t, "use", key_info[t], known[t])
    /\ Exists(t)
    /\ UNCHANGED <<kim, keys, id_counter>>

Use(th) ==
    /\ pc[th] = "use"
    /\ Answer(th, known[triple[th]])
    /\ UNCHANGED <<kim, keys, id_counter>>
---------------------------------------------------------------------------
(* The service around the provider.                                        *)

Drain ==
    /\ StopArrivals
    /\ UNCHANGED <<kim, keys, id_counter>>

Joined ==
    /\ JoinThreads
    /\ UNCHANGED <<kim, keys, id_counter>>

Crash ==
    /\ LoseThreads
    /\ \/ UNCHANGED kim
       \/ \E th \in Thread : pc[th] = "insert" /\ InsertKeyInfoError(triple[th])
    /\ UNCHANGED <<keys, id_counter>>

Start_CountsLive ==   \* mutant: only mappings that lead to a key are counted
    /\ status = "down"
    /\ status' = "up"
    /\ ReloadWithout({})
    /\ LET live == {stored[t] : t \in {u \in KeyTriple :
                        stored[u] # NoId /\ keys[stored[u]] # NoTriple}}
       IN  \E max \in {IdMin} \cup live : /\ \A id \in live : id <= max
                                          /\ id_counter' = max
    /\ UNCHANGED <<keys, pc, local, known>>

(* Provider::new: connect, and the highest mapped id.  The secure world is *)
(* not asked which keys it has, so mappings without a key stay and count.  *)
Start ==
    /\ status = "down"
    /\ status' = "up"
    /\ ReloadWithout({})
    /\ LET mapped == {stored[t] : t \in KeyTriple} \ {NoId}
       IN  \E max \in {IdMin} \cup mapped : /\ \A id \in mapped : id <= max
                                            /\ id_counter' = max
    /\ UNCHANGED <<keys, pc, local, known>>
---------------------------------------------------------------------------
Step(th) ==
    \/ FetchAdd(th) \/ Saturate(th) \/ CreateKey(th) \/ CreateKeyError(th)
    \/ Insert(th) \/ InsertOverwrites(th) \/ InsertError(th) \/ Rollback(th)
    \/ Remove(th) \/ RemoveTooLate(th) \/ RemoveError(th) \/ Destroy(th)
    \/ Use(th)

(* The operations of the Provide trait on a key.                           *)
Request(th, t) ==
    \/ CreateRefused(th, t) \/ CreateBegin(th, t)
    \/ NoSuchKey(th, t) \/ DestroyBegin(th, t) \/ UseBegin(th, t)

Next ==
    \/ \E th \in Thread : Step(th)
    \/ \E th \in Thread, t \in KeyTriple : Request(th, t)
    \/ Drain \/ Joined \/ Crash \/ Start

Spec == Init /\ [][Next]_vars
---------------------------------------------------------------------------
(* No request and no mapping ever leads to the key of another triple, with *)
(* every interleaving of creations, insertions and rollbacks, with         *)
(* responses that are lost, and over restarts that rebuild the counter     *)
(* from the mappings alone although the secure world may have other keys,  *)
(* and mappings may lead to none.                                          *)
SecureKeyIsOwn ==
    /\ \A t \in KeyTriple :
          key_info[t] # NoId => keys[key_info[t]] \in {t, NoTriple}
    /\ \A th \in Thread :
          pc[th] \in {"use", "destroy"} => keys[key_id[th]] \in {triple[th], NoTriple}

(* The inductive invariant behind it: no id in use is above the counter,   *)
(* and an id that a creation holds or that a mapping has is nobody else's. *)
HoldsId(th) == pc[th] \notin {"idle", "count", "saturate"}

IdsBelowCounter ==
    status # "down" =>
        /\ \A t \in KeyTriple : key_info[t] <= id_counter
        /\ \A th \in Thread : HoldsId(th) => key_id[th] <= id_counter

StoredAgrees == \A t \in KeyTriple : stored[t] # NoId => stored[t] = key_info[t]

IdleWhenDown == status = "down" => \A th \in Thread : pc[th] = "idle"

OneUserPerId ==
    /\ \A t, u \in KeyTriple : t # u /\ key_info[t] # NoId => key_info[t] # key_info[u]
    /\ \A th \in Thread : HoldsId(th) =>
          /\ \A t \in KeyTriple : key_info[t] = key_id[th] => t = triple[th]
          /\ \A other \in Thread :
                HoldsId(other) /\ key_id[other] = key_id[th] => triple[other] = triple[th]

KeyOfRequest ==
    \A th \in Thread : pc[th] \in {"insert", "rollback", "remove", "destroy", "use"} =>
        keys[key_id[th]] \in {triple[th], NoTriple}

SecureIdInv ==
    /\ TypeOK
    /\ IdleWhenDown
    /\ StoredAgrees
    /\ IdsBelowCounter
    /\ OneUserPerId
    /\ KeyOfRequest
    /\ SecureKeyIsOwn

(* While a mapping stays, only the rollback of a creation of the same name *)
(* takes its key away: it has overwritten the mapping of another creation  *)
(* with its own id before it destroys the key.  Neither failing or lost    *)
(* calls nor crashes leave a mapping without its key.                      *)
Leads(t) == key_info[t] # NoId /\ keys[key_info[t]] = t

LeadsUntilRolledBack ==
    \A t \in KeyTriple :
        Leads(t) /\ key_info'[t] = key_info[t] =>
            \/ Leads(t)'
            \/ \E th \in Thread : pc[th] = "rollback" /\ triple[th] = t

DeadMappingsFromRollback == [][LeadsUntilRolledBack]_vars

(* What SecureIdInv lacks for it: the id of a creation that has not been   *)
(* inserted is nobody else's, and who has removed a mapping destroys under *)
(* an id that none has any more, although Remove takes the mapping that is *)
(* there and not the one that the request had read.                        *)
NewIdsPrivate ==
    \A th \in Thread : pc[th] \in {"create", "insert"} =>
        /\ \A t \in KeyTriple : key_info[t] # key_id[th]
        /\ \A other \in Thread \ {th} : HoldsId(other) => key_id[other] # key_id[th]

DestroyedIdsUnmapped ==
    \A th \in Thread : pc[th] = "destroy" =>
        \A t \in KeyTriple : key_info[t] # key_id[th]

LeadsInv == SecureIdInv /\ NewIdsPrivate /\ DestroyedIdsUnmapped

(* What clients that wait can rely on besides: every mapping, on disk too, *)
(* leads to the key of its triple; a creation has found no mapping, and    *)
(* about to insert one it has the key; a rollback and a destruction work   *)
(* for a triple without mapping; only a request that uses the key leaves   *)
(* the client's knowledge of it alone.                                     *)
OneRequestPerTriple ==
    \A th, other \in Thread :
        th # other /\ triple[th] # NoTriple => triple[th] # triple[other]

MappedKeysLive == \A t \in KeyTriple : stored[t] # NoId => keys[stored[t]] = t

DiskUpToDate == status # "down" => stored = key_info

RequestsAgree ==
    \A th \in Thread :
        /\ pc[th] \notin {"idle", "remove", "use"} => key_info[triple[th]] = NoId
        /\ pc[th] = "insert" => keys[key_id[th]] = triple[th]
        /\ pc[th] = "remove" => key_info[triple[th]] = key_id[th]
        /\ pc[th] \notin {"idle", "use"} => known[triple[th]] = "unsure"

KnownIsStored ==
    \A t \in KeyTriple :
        /\ known[t] = "exists" => stored[t] # NoId
        /\ known[t] = "absent" => stored[t] = NoId

KeptInv ==
    /\ LeadsInv
    /\ OneRequestPerTriple
    /\ MappedKeysLive
    /\ DiskUpToDate
    /\ RequestsAgree
    /\ KnownIsStored

(* To clients that wait the provider is one map from triples to keys       *)
(* (KeyStore).  Under a triple they reach the key of its mapping, if it is *)
(* there and was made for the triple.                                      *)
CreateSteps == {"count", "saturate", "create", "insert"}

Reached(t) == IF status = "down" THEN stored[t] ELSE key_info[t]

KindOf == RequestKinds(CreateSteps, {"remove"}, {"use"})

KeyOf ==
    [t \in KeyTriple |->
        IF Reached(t) # NoId /\ keys[Reached(t)] = t THEN Reached(t) ELSE NoId]

Keys == INSTANCE KeyStore WITH
    Key <- KeyId, NoKey <- NoId, Durable <- TRUE,
    kind <- KindOf, key <- KeyOf

KeyStoreSpec == Keys!KeyStoreSpec

(* What an answer said stays true until the next request about the triple: *)
(* also, a key that was destroyed does not come back.                      *)
AnswersHold == Keys!AnswersHold
===============================================================================
