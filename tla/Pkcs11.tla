------------------------------- MODULE Pkcs11 -------------------------------
(***************************************************************************)
(* The PKCS 11 provider (providers/pkcs11).  A key of the token is one     *)
(* object, or two for a pair, under an id that the provider draws at       *)
(* random; the key info manager maps a key triple to the id.  There is no  *)
(* mutex around the token: each request has a session of its own, and only *)
(* local_ids, the ids drawn or mapped since the start, keeps ids apart.    *)
(* Public operations may be done in software, with a copy of the public    *)
(* key in PSA Crypto.                                                      *)
(***************************************************************************)
CONSTANTS
    Thread,     (* worker threads of the service                           *)
    KeyTriple,  (* the (application, provider, key name) triples requested *)
    Id,         (* the values of rand::random::<u32>                       *)
    NoTriple,   (* idle thread                                             *)
    NoId,       (* no mapping                                              *)
    Overlap,    (* requests about one triple may overlap in time           *)
    Faults      (* what may fail: "crash", "kim", "token", "data", "psa"   *)

(* What the constants must satisfy; the MC module that instantiates this   *)
(* module assumes it.                                                      *)
Pkcs11Assumption ==
    /\ NoId \notin Id
    /\ NoTriple \notin KeyTriple
    /\ Overlap \in BOOLEAN
    /\ Faults \subseteq {"crash", "kim", "token", "data", "psa"}

VARIABLES
    status,     (* "up", "draining": main joins the threads, or "down"     *)
    key_info,   (* key info manager, see KeyInfoManagerClient              *)
    stored,
    objects,    (* the token: its key objects                              *)
    local_ids,  (* the field of the provider                               *)
    psa_key,    (* per thread: it holds a public key in PSA Crypto         *)
    pc,         (* per thread: next step of its request                    *)
    triple,     (* per thread: the triple of its request                   *)
    key_id,     (* per thread: the local variable key_id                   *)
    known,      (* history: per triple, what the last answer about it said *)
    leftovers   (* history: ids of objects that no mapping led to when the *)
                (* provider started                                        *)

kim == <<key_info, stored>>
local == <<triple, key_id>>
token == <<objects, leftovers>>
vars == <<status, key_info, stored, objects, local_ids, psa_key, pc, triple,
          key_id, known, leftovers>>

INSTANCE KeyInfoManagerClient
INSTANCE ProviderRequests

(* The owner of an object is the triple it was created for, which the      *)
(* token does not know.  Two objects that agree in id, class and owner     *)
(* count as one.                                                           *)
Class == {"public", "private"}
Object == [id : Id, class : Class, owner : KeyTriple]

TypeOK ==
    /\ RequestTypeOK({"create_id", "create", "insert", "rollback", "remove",
                      "destroy", "destroy_second", "attributes", "lookup",
                      "use", "sw_lookup", "sw_find", "sw_import", "sw_use",
                      "sw_remove"})
    /\ KimTypeOK(Id)
    /\ objects \subseteq Object
    /\ local_ids \subseteq Id
    /\ psa_key \in [Thread -> BOOLEAN]
    /\ key_id \in [Thread -> Id \cup {NoId}]
    /\ leftovers \subseteq Id
    /\ \A th \in Thread :
          pc[th] \notin {"idle", "create_id", "lookup", "sw_lookup"} => key_id[th] \in Id

Init ==
    /\ RequestInit
    /\ KimInit
    /\ objects = {}
    /\ local_ids = {}
    /\ psa_key = [th \in Thread |-> FALSE]
    /\ leftovers = {}

(* find_key: the objects with the id, of any class in `classes`.           *)
Found(id, classes) == {o \in objects : o.id = id /\ o.class \in classes}

OwnObjects(th) == {o \in Found(key_id[th], Class) : o.owner = triple[th]}

---------------------------------------------------------------------------
(* psa_generate_key_internal and psa_import_key_internal.                  *)

(* does_not_exist fails: PsaErrorAlreadyExists.                            *)
CreateRefused(th, t) ==
    /\ Refuse(th, t, "exists")
    /\ Exists(t)
    /\ UNCHANGED <<kim, token, local_ids, psa_key>>

CreateBegin(th, t) ==
    /\ Begin(th, t, "create_id", NoId, "unsure")
    /\ ~Exists(t)
    /\ UNCHANGED <<kim, token, local_ids, psa_key>>

(* new_session fails, before anything was done.                            *)
SessionError(th) ==
    /\ pc[th] = "create_id"
    /\ Fails("token")
    /\ Answer(th, "absent")
    /\ UNCHANGED <<kim, token, local_ids, psa_key>>

(* The loop of create_key_id draws until the id is not in local_ids; while *)
(* no such id is left it goes on, with the lock.                           *)
CreateKeyId(th) ==
    /\ Goto(th, "create_id", "create")
    /\ \E id \in Id \ local_ids :
          /\ key_id' = [key_id EXCEPT ![th] = id]
          /\ local_ids' = local_ids \cup {id}
    /\ UNCHANGED <<status, kim, token, psa_key, triple, known>>

(* generate_key_pair, or create_object for an imported public key.         *)
CreateObjects(th) ==
    /\ Goto(th, "create", "insert")
    /\ \E classes \in {Class, {"public"}} :
          objects' = objects \cup [id : {key_id[th]}, class : classes,
                                   owner : {triple[th]}]
    /\ UNCHANGED <<status, kim, leftovers, local_ids, psa_key, local, known>>

(* The attributes or the data do not fit a template, or the token refuses. *)
(* The id stays in local_ids.                                              *)
CreateError(th) ==
    /\ pc[th] = "create"
    /\ Fails("data") \/ Fails("token")
    /\ Answer(th, "absent")
    /\ UNCHANGED <<kim, token, local_ids, psa_key>>

Insert(th) ==
    /\ pc[th] = "insert"
    /\ ~Exists(triple[th])
    /\ InsertKeyInfo(triple[th], key_id[th])
    /\ Answer(th, "exists")
    /\ UNCHANGED <<token, local_ids, psa_key>>

(* PsaErrorAlreadyExists: the mapping has been overwritten all the same.   *)
InsertOverwrites(th) ==
    /\ Goto(th, "insert", "rollback")
    /\ Exists(triple[th])
    /\ InsertKeyInfo(triple[th], key_id[th])
    /\ UNCHANGED <<status, token, local_ids, psa_key, local, known>>

InsertError_NoRollback(th) ==   \* mutant: the new objects are left behind
    /\ pc[th] = "insert"
    /\ Fails("kim")
    /\ InsertKeyInfoError(triple[th])
    /\ Answer(th, "absent")
    /\ UNCHANGED <<token, local_ids, psa_key>>

InsertError(th) ==
    /\ Goto(th, "insert", "rollback")
    /\ Fails("kim")
    /\ InsertKeyInfoError(triple[th])
    /\ UNCHANGED <<status, token, local_ids, psa_key, local, known>>

(* The handles that the token returned are destroyed; a failure is only    *)
(* logged, for each of the two.                                            *)
Rollback(th) ==
    /\ pc[th] = "rollback"
    /\ \E kept \in SUBSET OwnObjects(th) :
          /\ kept # {} => Fails("token")
          /\ objects' = (objects \ OwnObjects(th)) \cup kept
    /\ Answer(th, "absent")
    /\ UNCHANGED <<kim, leftovers, local_ids, psa_key>>
---------------------------------------------------------------------------
(* psa_destroy_key_internal.                                               *)

(* get_key_id or get_key_attributes fails: PsaErrorDoesNotExist.           *)
NoSuchKey(th, t) ==
    /\ Refuse(th, t, "absent")
    /\ ~Exists(t)
    /\ UNCHANGED <<kim, token, local_ids, psa_key>>

DestroyBegin(th, t) ==
    /\ Begin(th, t, "remove", key_info[t], "unsure")
    /\ Exists(t)
    /\ UNCHANGED <<kim, token, local_ids, psa_key>>

Remove(th) ==
    /\ Goto(th, "remove", "destroy")
    /\ Exists(triple[th])
    /\ RemoveKeyInfo(triple[th])
    /\ UNCHANGED <<status, token, local_ids, psa_key, local, known>>

RemoveTooLate(th) ==
    /\ pc[th] = "remove"
    /\ ~Exists(triple[th])
    /\ Answer(th, "absent")
    /\ UNCHANGED <<kim, token, local_ids, psa_key>>

RemoveError(th) ==
    /\ pc[th] = "remove"
    /\ Fails("kim")
    /\ Answer(th, "exists")
    /\ UNCHANGED <<kim, token, local_ids, psa_key>>

DestroyFirst_Any(th) ==   \* mutant: the class, not the id, selects the object
    /\ Goto(th, "destroy", "destroy_second")
    /\ \E o \in objects : objects' = objects \ {o}
    /\ UNCHANGED <<status, kim, leftovers, local_ids, psa_key, local, known>>

(* objects[0] of find_objects.                                             *)
DestroyFirst(th) ==
    /\ Goto(th, "destroy", "destroy_second")
    /\ \E o \in Found(key_id[th], Class) : objects' = objects \ {o}
    /\ UNCHANGED <<status, kim, leftovers, local_ids, psa_key, local, known>>

DestroySecond(th) ==
    /\ pc[th] = "destroy_second"
    /\ IF Found(key_id[th], Class) = {}
       THEN UNCHANGED objects
       ELSE \E o \in Found(key_id[th], Class) : objects' = objects \ {o}
    /\ Answer(th, "absent")
    /\ UNCHANGED <<kim, leftovers, local_ids, psa_key>>

DestroyError_Retries(th) ==   \* mutant: the token is called until it succeeds
    /\ pc[th] \in {"destroy", "destroy_second"}
    /\ Fails("token")
    /\ known' = [known EXCEPT ![triple[th]] =
                    IF @ = "unsure" THEN "absent" ELSE "unsure"]
    /\ UNCHANGED <<status, pc, local, kim, token, local_ids, psa_key>>

(* The session, the search or the destruction fails, or there is nothing   *)
(* to destroy: the mapping is gone, the objects that are left stay.        *)
DestroyError(th) ==
    /\ \/ pc[th] \in {"destroy", "destroy_second"} /\ Fails("token")
       \/ pc[th] = "destroy" /\ Found(key_id[th], Class) = {}
    /\ Answer(th, "absent")
    /\ UNCHANGED <<kim, token, local_ids, psa_key>>
---------------------------------------------------------------------------
(* Sign, verify, encrypt, decrypt: the id, then the attributes; export:    *)
(* the attributes, then the id.                                            *)

UseBegin(th, t) ==
    /\ Begin(th, t, "attributes", key_info[t], known[t])
    /\ Exists(t)
    /\ UNCHANGED <<kim, token, local_ids, psa_key>>

ExportBegin(th, t) ==
    /\ Begin(th, t, "lookup", NoId, known[t])
    /\ Exists(t)
    /\ UNCHANGED <<kim, token, local_ids, psa_key>>

Attributes(th) ==
    /\ Goto(th, "attributes", "use")
    /\ Exists(triple[th])
    /\ UNCHANGED <<status, kim, token, local_ids, psa_key, local, known>>

Lookup(th, from, to) ==
    /\ Goto(th, from, to)
    /\ Exists(triple[th])
    /\ key_id' = [key_id EXCEPT ![th] = key_info[triple[th]]]
    /\ UNCHANGED <<status, kim, token, local_ids, psa_key, triple, known>>

LookupTooLate(th) ==
    /\ pc[th] \in {"attributes", "lookup", "sw_lookup", "sw_import"}
    /\ ~Exists(triple[th])
    /\ Answer(th, "absent")
    /\ UNCHANGED <<kim, token, local_ids, psa_key>>

(* Session, find_key and the operation, or an error of one of the three.   *)
Use(th) ==
    /\ pc[th] = "use"
    /\ Answer(th, known[triple[th]])
    /\ UNCHANGED <<kim, token, local_ids, psa_key>>
---------------------------------------------------------------------------
(* software_public_operations: verify and encrypt export the public key,   *)
(* import it into PSA Crypto, use it there and remove it.                  *)

SoftwareBegin(th, t) ==
    /\ Begin(th, t, "sw_lookup", NoId, known[t])
    /\ Exists(t)
    /\ UNCHANGED <<kim, token, local_ids, psa_key>>

SoftwareExport(th) ==
    /\ Goto(th, "sw_find", "sw_import")
    /\ Found(key_id[th], {"public"}) # {}
    /\ UNCHANGED <<status, kim, token, local_ids, psa_key, local, known>>

(* No public object, an error of the token, or a refused import.           *)
SoftwareError(th) ==
    /\ \/ pc[th] = "sw_find" /\ (Fails("token") \/ Found(key_id[th], {"public"}) = {})
       \/ pc[th] = "sw_import" /\ Fails("psa")
    /\ Answer(th, known[triple[th]])
    /\ UNCHANGED <<kim, token, local_ids, psa_key>>

(* get_key_attributes once more, and the import under a volatile id.       *)
SoftwareImport(th) ==
    /\ Goto(th, "sw_import", "sw_use")
    /\ Exists(triple[th])
    /\ psa_key' = [psa_key EXCEPT ![th] = TRUE]
    /\ UNCHANGED <<status, kim, token, local_ids, local, known>>

SoftwareUse_ReturnsEarly(th) ==   \* mutant: `?` instead of match on the result
    /\ pc[th] = "sw_use"
    /\ \/ Goto(th, "sw_use", "sw_remove") /\ UNCHANGED <<status, local, known>>
       \/ Fails("psa") /\ Answer(th, known[triple[th]])
    /\ UNCHANGED <<kim, token, local_ids, psa_key>>

(* Whatever the result, it is kept and the public key removed.             *)
SoftwareUse(th) ==
    /\ Goto(th, "sw_use", "sw_remove")
    /\ UNCHANGED <<status, kim, token, local_ids, psa_key, local, known>>

(* remove_psa_crypto_pub_key; its result is ignored, and a key that PSA    *)
(* Crypto refuses to destroy is no longer held by anybody.                 *)
SoftwareRemove(th) ==
    /\ pc[th] = "sw_remove"
    /\ psa_key' = [psa_key EXCEPT ![th] = FALSE]
    /\ Answer(th, known[triple[th]])
    /\ UNCHANGED <<kim, token, local_ids>>
---------------------------------------------------------------------------
(* The service around the provider.                                        *)

Drain ==
    /\ StopArrivals
    /\ UNCHANGED <<kim, token, local_ids, psa_key>>

(* The provider is dropped.                                                *)
Joined ==
    /\ JoinThreads
    /\ local_ids' = {}
    /\ UNCHANGED <<kim, token, psa_key>>

Crash ==
    /\ LoseThreads
    /\ local_ids' = {}
    /\ psa_key' = [th \in Thread |-> FALSE]
    /\ \/ UNCHANGED kim
       \/ \E th \in Thread : pc[th] = "insert" /\ InsertKeyInfoError(triple[th])
    /\ UNCHANGED token

HasObject(id) == id # NoId /\ Found(id, Class) # {}

(* The triples whose mapping on disk leads to no object of the token.      *)
DeadTriples == {t \in KeyTriple : stored[t] # NoId /\ ~HasObject(stored[t])}

MappedIds == {stored[t] : t \in {u \in KeyTriple : HasObject(stored[u])}}

Start_EmptyIds ==   \* mutant: local_ids is not filled from the mappings
    /\ status = "down"
    /\ status' = "up"
    /\ ReloadWithout(DeadTriples)
    /\ local_ids' = {}
    /\ leftovers' = {o.id : o \in objects} \cap (leftovers \cup (Id \ MappedIds))
    /\ UNCHANGED <<objects, psa_key, pc, local, known>>

(* Provider::new: mappings without an object are removed, the ids of the   *)
(* others go to local_ids.  Objects without a mapping are not looked for.  *)
Start ==
    /\ status = "down"
    /\ status' = "up"
    /\ ReloadWithout(DeadTriples)
    /\ local_ids' = MappedIds
    /\ leftovers' = {o.id : o \in objects} \cap (leftovers \cup (Id \ MappedIds))
    /\ UNCHANGED <<objects, psa_key, pc, local, known>>

(* `new` returns None: no session, or after some of the removals.          *)
StartError ==
    /\ status = "down"
    /\ Fails("kim") \/ Fails("token")
    /\ \E bad \in SUBSET DeadTriples :
          (bad # {} => Fails("kim")) /\ ReloadWithout(bad)
    /\ UNCHANGED <<status, token, local_ids, psa_key, pc, local, known>>
---------------------------------------------------------------------------
Step(th) ==
    \/ SessionError(th) \/ CreateKeyId(th) \/ CreateObjects(th) \/ CreateError(th)
    \/ Insert(th) \/ InsertOverwrites(th) \/ InsertError(th) \/ Rollback(th)
    \/ Remove(th) \/ RemoveTooLate(th) \/ RemoveError(th)
    \/ DestroyFirst(th) \/ DestroySecond(th) \/ DestroyError(th)
    \/ Attributes(th) \/ Lookup(th, "lookup", "use") \/ LookupTooLate(th) \/ Use(th)
    \/ Lookup(th, "sw_lookup", "sw_find") \/ SoftwareExport(th) \/ SoftwareError(th)
    \/ SoftwareImport(th) \/ SoftwareUse(th) \/ SoftwareRemove(th)

(* The operations of the Provide trait on a key.                           *)
Request(th, t) ==
    \/ CreateRefused(th, t) \/ CreateBegin(th, t)
    \/ NoSuchKey(th, t) \/ DestroyBegin(th, t)
    \/ UseBegin(th, t) \/ ExportBegin(th, t) \/ SoftwareBegin(th, t)

Next ==
    \/ \E th \in Thread : Step(th)
    \/ \E th \in Thread, t \in KeyTriple : Request(th, t)
    \/ Drain \/ Joined \/ Crash \/ Start \/ StartError

Spec == Init /\ [][Next]_vars

(* The operating system schedules every thread, and main's join returns.   *)
FairSpec ==
    /\ Spec
    /\ \A th \in Thread : WF_vars(Step(th))
    /\ WF_vars(Joined)
---------------------------------------------------------------------------
(* Threads with an id that is in no mapping yet, and all that have an id.  *)
Creating(th) == pc[th] \in {"create", "insert"}
HoldsId(th) == pc[th] \notin {"idle", "create_id", "lookup", "sw_lookup"}

(* Two triples never map to the same id, although ids are drawn at random  *)
(* and nothing but local_ids, rebuilt from the mappings at every start,    *)
(* tells which ones are taken (create_key_id, Provider::new).              *)
IdsNeverShared ==
    \A t, u \in KeyTriple :
        t # u /\ key_info[t] # NoId => key_info[t] # key_info[u]

(* The parts of the inductive invariant behind it: the mappings on disk    *)
(* and in memory agree, every id in use is in local_ids, and an id not yet *)
(* in a mapping belongs to one request.                                    *)
StoredAgrees == \A t \in KeyTriple : stored[t] # NoId => stored[t] = key_info[t]

IdleWhenDown == status = "down" => \A th \in Thread : pc[th] = "idle"

IdsRecorded ==
    status # "down" =>
        /\ \A t \in KeyTriple : key_info[t] # NoId => key_info[t] \in local_ids
        /\ \A th \in Thread : HoldsId(th) => key_id[th] \in local_ids

NewIdsPrivate ==
    \A th \in Thread : Creating(th) =>
        /\ \A t \in KeyTriple : key_info[t] # key_id[th]
        /\ \A other \in Thread \ {th} : HoldsId(other) => key_id[other] # key_id[th]

IdInv ==
    /\ TypeOK
    /\ StoredAgrees
    /\ IdleWhenDown
    /\ IdsRecorded
    /\ NewIdsPrivate
    /\ IdsNeverShared

(* What find_key returns under the id of a request is an object of the     *)
(* request's own triple, however long ago the id was read: ids are never   *)
(* drawn twice between two starts.  The exception are ids of objects that  *)
(* were without a mapping when the provider started: `new` does not look   *)
(* for them, so that such an id may be drawn again.                        *)
FoundObjectIsOwn ==
    \A th \in Thread :
        pc[th] \in {"use", "sw_find", "destroy", "destroy_second"} =>
            \A o \in Found(key_id[th], Class) :
                o.owner = triple[th] \/ o.id \in leftovers

Reached(t) == IF status = "down" THEN stored[t] ELSE key_info[t]

(* Without overlapping requests about one triple: a client that was told   *)
(* its key exists finds an object of its own under a mapping that survives *)
(* a restart, whichever calls failed and whichever ids were drawn.         *)
AckedObjectFound ==
    \A t \in KeyTriple : known[t] = "exists" =>
        /\ Reached(t) # NoId
        /\ stored[t] = Reached(t)
        /\ \E o \in objects : o.id = stored[t] /\ o.owner = t

(* The inductive invariant behind the two, for clients that wait: every    *)
(* mapping, on disk too, leads to an object of its triple; a creation has  *)
(* found none, and about to insert it has such an object itself; nobody    *)
(* destroys under an id that is mapped, and a destruction has nothing left *)
(* after its second object; only a request without effect on the mapping   *)
(* leaves the client's knowledge of its key alone.                         *)
OneRequestPerTriple ==
    \A th, other \in Thread :
        th # other /\ triple[th] # NoTriple => triple[th] # triple[other]

HasOwn(t, id) == \E o \in objects : o.id = id /\ o.owner = t

MappedObjectsLive == \A t \in KeyTriple : stored[t] # NoId => HasOwn(t, stored[t])

DiskUpToDate == status # "down" => stored = key_info

RequestsAgree ==
    \A th \in Thread :
        /\ pc[th] \in {"create_id", "create", "insert", "rollback", "destroy",
                       "destroy_second"} => key_info[triple[th]] = NoId
        /\ pc[th] = "insert" => HasOwn(triple[th], key_id[th])
        /\ pc[th] \in {"rollback", "destroy", "destroy_second"} =>
               \A t \in KeyTriple : stored[t] # key_id[th]
        /\ pc[th] = "remove" => key_info[triple[th]] = key_id[th]
        /\ pc[th] \in {"create_id", "create", "insert", "rollback", "remove",
                       "destroy", "destroy_second"} => known[triple[th]] = "unsure"

OneObjectLeft ==
    \A th \in Thread : pc[th] = "destroy_second" /\ key_id[th] \notin leftovers =>
        \A o, p \in Found(key_id[th], Class) : o = p

KnownIsStored ==
    \A t \in KeyTriple :
        /\ known[t] = "exists" => stored[t] # NoId
        /\ known[t] = "absent" => stored[t] = NoId

KeptInv ==
    /\ IdInv
    /\ OneRequestPerTriple
    /\ MappedObjectsLive
    /\ DiskUpToDate
    /\ RequestsAgree
    /\ OneObjectLeft
    /\ KnownIsStored

(* ... and an object loses its mapping for good only when the process      *)
(* dies, or when the token refuses to destroy it (psa_destroy_key_internal *)
(* has removed the mapping before it opens a session, and the rollbacks    *)
(* only log a failure).                                                    *)
Cared(o) ==
    \/ Reached(o.owner) = o.id
    \/ \E th \in Thread :
          /\ pc[th] \in {"insert", "rollback", "destroy", "destroy_second"}
          /\ key_id[th] = o.id /\ triple[th] = o.owner

ObjectsKeptOrRefused ==
    \A o \in objects' :
        (o \notin objects \/ Cared(o)) =>
           \/ Cared(o)' \/ status' = "down" \/ o.id \in leftovers
           \/ \E th \in Thread :
                 /\ triple[th] = o.owner
                 /\ pc[th] = "rollback" \/ DestroyError(th)

ObjectsLostByTokenOnly == [][ObjectsKeptOrRefused]_vars

(* A public key copied to PSA Crypto does not outlive its request, on any  *)
(* path, unless PSA Crypto refuses to destroy it.                          *)
VolatileKeysReleased ==
    \A th \in Thread :
        psa_key[th] => pc[th] \in {"sw_use", "sw_remove"}

(* Stop and reload terminate, also when calls of the token fail, unless    *)
(* create_key_id has run out of ids and draws for ever.                    *)
TokenDrainEnds ==
    status = "draining" ~> status # "draining" \/ local_ids = Id

(* To clients that wait the provider is one map from triples to keys       *)
(* (KeyStore).  Under a triple they reach the key of its mapping, if it is *)
(* there and was made for the triple.                                      *)
CreateSteps == {"create_id", "create", "insert"}
UseSteps == {"attributes", "lookup", "use", "sw_lookup", "sw_find", "sw_import",
             "sw_use", "sw_remove"}

KindOf == RequestKinds(CreateSteps, {"remove"}, UseSteps)

KeyOf ==
    [t \in KeyTriple |->
        IF Reached(t) # NoId /\ HasOwn(t, Reached(t)) THEN Reached(t) ELSE NoId]

Keys == INSTANCE KeyStore WITH
    Key <- Id, NoKey <- NoId, Durable <- TRUE,
    kind <- KindOf, key <- KeyOf

KeyStoreSpec == Keys!KeyStoreSpec

(* What an answer said stays true until the next request about the triple: *)
(* also, a key that was destroyed does not come back.                      *)
AnswersHold == Keys!AnswersHold
===========================================================================
