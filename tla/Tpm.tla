--------------------------------- MODULE Tpm ---------------------------------
(***************************************************************************)
(* The TPM provider (providers/tpm).  The TPM keeps no keys: a key is a    *)
(* context, encrypted by the TPM, that the key info manager stores under   *)
(* the key triple and that every operation loads again.  All calls of the  *)
(* TPM go through one ESAPI context behind a mutex; a thread that panics   *)
(* with the guard in its hands poisons it.                                 *)
(***************************************************************************)
CONSTANTS
    Thread,     (* worker threads of the service                           *)
    KeyTriple,  (* the (application, provider, key name) triples requested *)
    Context,    (* key contexts                                            *)
    NoTriple,   (* idle thread                                             *)
    NoId,       (* no mapping                                              *)
    NoThread,   (* the mutex is free                                       *)
    Overlap,    (* requests about one triple may overlap in time           *)
    Faults      (* what may fail: "crash", "kim", "tpm", "panic"           *)

(* What the constants must satisfy; the MC module that instantiates this   *)
(* module assumes it.                                                      *)
TpmAssumption ==
    /\ NoId \notin Context
    /\ NoTriple \notin KeyTriple
    /\ NoThread \notin Thread
    /\ Overlap \in BOOLEAN
    /\ Faults \subseteq {"crash", "kim", "tpm", "panic"}

VARIABLES
    status,     (* "up", "draining": main joins the threads, or "down"     *)
    key_info,   (* key info manager, see KeyInfoManagerClient              *)
    stored,
    mutex,      (* holder of the guard of esapi_context                    *)
    poisoned,   (* a thread has panicked with the guard                    *)
    pc,         (* per thread: next step of its request                    *)
    triple,     (* per thread: the triple of its request                   *)
    key_id,     (* per thread: the local password_context or key_context   *)
    known,      (* history: per triple, what the last answer about it said *)
    sole        (* history: per triple, the context of a creation that was *)
                (* acknowledged with no other one of the triple under way  *)

kim == <<key_info, stored>>
local == <<triple, key_id>>
esapi_context == <<mutex, poisoned>>
vars == <<status, key_info, stored, mutex, poisoned, pc, triple, key_id,
          known, sole>>

INSTANCE KeyInfoManagerClient
INSTANCE ProviderRequests

(* The steps of a request with the guard, of a creation, and those with a  *)
(* context in a local variable.                                            *)
Guarded == {"create", "insert", "lookup", "attributes", "use"}
Creating == {"create_lock", "create", "insert"}
Loaded == {"insert", "attributes", "use"}

TypeOK ==
    /\ RequestTypeOK(Guarded \cup {"create_lock", "use_lock"})
    /\ KimTypeOK(Context)
    /\ mutex \in Thread \cup {NoThread}
    /\ poisoned \in BOOLEAN
    /\ key_id \in [Thread -> Context \cup {NoId}]
    /\ sole \in [KeyTriple -> Context \cup {NoId}]
    /\ \A th \in Thread : pc[th] \in Loaded => key_id[th] \in Context

Init ==
    /\ RequestInit
    /\ KimInit
    /\ mutex = NoThread
    /\ poisoned = FALSE
    /\ sole = [t \in KeyTriple |-> NoId]

---------------------------------------------------------------------------
(* The request ends, and with it the guard.                                *)
Return(th, k) ==
    /\ Answer(th, k)
    /\ mutex' = IF mutex = th THEN NoThread ELSE mutex

Lock_IgnoresPoison(th, from, to) ==   \* mutant: into_inner instead of expect
    /\ Goto(th, from, to)
    /\ mutex = NoThread
    /\ mutex' = th
    /\ UNCHANGED <<status, kim, poisoned, local, known, sole>>

Lock(th, from, to) ==
    /\ Goto(th, from, to)
    /\ mutex = NoThread
    /\ ~poisoned
    /\ mutex' = th
    /\ UNCHANGED <<status, kim, poisoned, local, known, sole>>

(* `expect` on a poisoned mutex: the job of the pool dies, its client gets *)
(* no answer, and the pool replaces the thread.                            *)
LockPanics(th) ==
    /\ pc[th] \in {"create_lock", "use_lock"}
    /\ poisoned
    /\ Answer(th, "unsure")
    /\ UNCHANGED <<kim, esapi_context, sole>>

Panic_KeepsGuard(th) ==   \* mutant: the guard is not dropped by the unwinding
    /\ Fails("panic")
    /\ pc[th] \in Guarded
    /\ Answer(th, "unsure")
    /\ UNCHANGED <<kim, esapi_context, sole>>

(* A panic while the guard is held, in an unwrap or in the library.        *)
Panic(th) ==
    /\ Fails("panic")
    /\ pc[th] \in Guarded
    /\ Return(th, "unsure")
    /\ poisoned' = TRUE
    /\ UNCHANGED <<kim, sole>>
---------------------------------------------------------------------------
(* psa_generate_key_internal and psa_import_key_internal.                  *)

(* does_not_exist fails: PsaErrorAlreadyExists.                            *)
CreateRefused(th, t) ==
    /\ Refuse(th, t, "exists")
    /\ Exists(t)
    /\ UNCHANGED <<kim, esapi_context, sole>>

CreateBegin_Unchecked(th, t) ==   \* mutant: does_not_exist is not asked
    /\ Begin(th, t, "create_lock", NoId, "unsure")
    /\ UNCHANGED <<kim, esapi_context, sole>>

CreateBegin(th, t) ==
    /\ Begin(th, t, "create_lock", NoId, "unsure")
    /\ ~Exists(t)
    /\ UNCHANGED <<kim, esapi_context, sole>>

(* A context of a new key equals none that is in use.                      *)
InUse(c) ==
    \/ \E t \in KeyTriple : c \in {key_info[t], stored[t], sole[t]}
    \/ \E th \in Thread : c = key_id[th]

(* create_key, load_external_rsa_public_key or load_external_rsa.          *)
CreateKey(th) ==
    /\ Goto(th, "create", "insert")
    /\ \E c \in Context : InUse(c) = FALSE
    /\ key_id' = [key_id EXCEPT ![th] = CHOOSE c \in Context : ~InUse(c)]
    /\ UNCHANGED <<status, kim, esapi_context, triple, known, sole>>

(* Unsupported attributes, data that does not decode or validate, or an    *)
(* error of the TPM.                                                       *)
CreateError(th) ==
    /\ pc[th] = "create"
    /\ Fails("tpm")
    /\ Return(th, "absent")
    /\ UNCHANGED <<kim, poisoned, sole>>

Alone(th) == \A other \in Thread \ {th} :
                triple[other] = triple[th] => pc[other] \notin Creating

Insert(th) ==
    /\ pc[th] = "insert"
    /\ ~Exists(triple[th])
    /\ InsertKeyInfo(triple[th], key_id[th])
    /\ sole' = [sole EXCEPT ![triple[th]] = IF Alone(th) THEN key_id[th] ELSE NoId]
    /\ Return(th, "exists")
    /\ UNCHANGED poisoned

(* PsaErrorAlreadyExists, but the mapping is overwritten, and there is no  *)
(* rollback: the key of the creation that came first is replaced.          *)
InsertOverwrites(th) ==
    /\ pc[th] = "insert"
    /\ Exists(triple[th])
    /\ InsertKeyInfo(triple[th], key_id[th])
    /\ Return(th, "exists")
    /\ UNCHANGED <<poisoned, sole>>

InsertError(th) ==
    /\ pc[th] = "insert"
    /\ Fails("kim")
    /\ InsertKeyInfoError(triple[th])
    /\ Return(th, "absent")
    /\ UNCHANGED <<poisoned, sole>>
---------------------------------------------------------------------------
(* psa_destroy_key_internal: only the key info manager is called, without  *)
(* the mutex.                                                              *)

NoSuchKey(th, t) ==
    /\ Refuse(th, t, "absent")
    /\ ~Exists(t)
    /\ UNCHANGED <<kim, esapi_context, sole>>

DestroyKey(th, t) ==
    /\ Arrives(th, t)
    /\ Exists(t)
    /\ RemoveKeyInfo(t)
    /\ known' = [known EXCEPT ![t] = "absent"]
    /\ sole' = [sole EXCEPT ![t] = NoId]
    /\ UNCHANGED <<status, pc, local, esapi_context>>

DestroyError(th, t) ==
    /\ Refuse(th, t, "exists")
    /\ Exists(t)
    /\ Fails("kim")
    /\ UNCHANGED <<kim, esapi_context, sole>>
---------------------------------------------------------------------------
(* psa_export_public_key, psa_sign_hash, psa_verify_hash and asymmetric    *)
(* encryption and decryption: the lock comes first.                        *)

UseBegin(th, t) ==
    /\ Begin(th, t, "use_lock", NoId, known[t])
    /\ UNCHANGED <<kim, esapi_context, sole>>

(* get_key_id, which loads the context.                                    *)
Lookup(th) ==
    /\ Goto(th, "lookup", "attributes")
    /\ Exists(triple[th])
    /\ key_id' = [key_id EXCEPT ![th] = key_info[triple[th]]]
    /\ UNCHANGED <<status, kim, esapi_context, triple, known, sole>>

(* get_key_attributes.                                                     *)
Attributes(th) ==
    /\ Goto(th, "attributes", "use")
    /\ Exists(triple[th])
    /\ UNCHANGED <<status, kim, esapi_context, local, known, sole>>

(* PsaErrorDoesNotExist: a destruction may come between the two.           *)
LookupFails(th) ==
    /\ pc[th] \in {"lookup", "attributes"}
    /\ ~Exists(triple[th])
    /\ Return(th, "absent")
    /\ UNCHANGED <<kim, poisoned, sole>>

(* The operation, refused by op.validate, failed or done.                  *)
Use(th) ==
    /\ pc[th] = "use"
    /\ Return(th, known[triple[th]])
    /\ UNCHANGED <<kim, poisoned, sole>>
---------------------------------------------------------------------------
(* The service around the provider.                                        *)

Drain ==
    /\ StopArrivals
    /\ UNCHANGED <<kim, esapi_context, sole>>

Joined ==
    /\ JoinThreads
    /\ UNCHANGED <<kim, esapi_context, sole>>

(* A context that was being written may be lost, and with it what its      *)
(* mapping overwrote.                                                      *)
Crash ==
    /\ LoseThreads
    /\ mutex' = NoThread
    /\ \/ UNCHANGED kim
       \/ \E th \in Thread : pc[th] = "insert" /\ InsertKeyInfoError(triple[th])
    /\ UNCHANGED <<poisoned, sole>>

(* ProviderBuilder::build makes a new ESAPI context, or fails, and nothing *)
(* changes; the mappings are not looked at.                                *)
Start ==
    /\ status = "down"
    /\ status' = "up"
    /\ ReloadWithout({})
    /\ poisoned' = FALSE
    /\ UNCHANGED <<mutex, pc, local, known, sole>>
---------------------------------------------------------------------------
Step(th) ==
    \/ Lock(th, "create_lock", "create") \/ Lock(th, "use_lock", "lookup")
    \/ LockPanics(th) \/ Panic(th)
    \/ CreateKey(th) \/ CreateError(th)
    \/ Insert(th) \/ InsertOverwrites(th) \/ InsertError(th)
    \/ Lookup(th) \/ Attributes(th) \/ LookupFails(th) \/ Use(th)

(* The operations of the Provide trait on a key.                           *)
Request(th, t) ==
    \/ CreateRefused(th, t) \/ CreateBegin(th, t)
    \/ NoSuchKey(th, t) \/ DestroyKey(th, t) \/ DestroyError(th, t)
    \/ UseBegin(th, t)

Next ==
    \/ \E th \in Thread : Step(th)
    \/ \E th \in Thread, t \in KeyTriple : Request(th, t)
    \/ Drain \/ Joined \/ Crash \/ Start

Spec == Init /\ [][Next]_vars

(* The operating system schedules every thread, and main's join returns.   *)
(* The mutex is not fair, but when no request starts any more each thread  *)
(* takes it at most once again.                                            *)
FairSpec ==
    /\ Spec
    /\ \A th \in Thread : WF_vars(Step(th))
    /\ WF_vars(Joined)
---------------------------------------------------------------------------
(* A key whose creation was acknowledged while no other creation of its    *)
(* name was under way is kept, the very same context, in the cache and on  *)
(* disk, until it is destroyed: whatever overlaps with it later, fails,    *)
(* panics or crashes.  Creations that do overlap replace it without a      *)
(* trace, since does_not_exist and insert_key_info are two critical        *)
(* sections, and the mutex of the TPM is taken between the two.            *)
SoleKeyKept ==
    \A t \in KeyTriple : sole[t] # NoId =>
        /\ stored[t] = sole[t]
        /\ status # "down" => key_info[t] = sole[t]

(* Once a thread has panicked in the TPM library no request gets to the    *)
(* ESAPI context, in whatever state the panic left it, until the provider  *)
(* is built anew: not the requests that were waiting for the mutex either. *)
BrokenContextUnused ==
    poisoned /\ status # "down" =>
        mutex = NoThread /\ \A th \in Thread : pc[th] \notin Guarded

(* The inductive invariant behind the two: the guard is in the hands of    *)
(* the one thread that is at a guarded step, and nobody creates a key      *)
(* under a name that has a sole one.                                       *)
GuardHeld ==
    /\ \A th \in Thread : pc[th] \in Guarded <=> mutex = th
    /\ status = "down" => \A th \in Thread : pc[th] = "idle"

NoRival ==
    \A th \in Thread : pc[th] \in Creating => sole[triple[th]] = NoId

TpmInv ==
    /\ TypeOK
    /\ GuardHeld
    /\ BrokenContextUnused
    /\ NoRival
    /\ SoleKeyKept

(* What clients that wait can rely on besides: memory and disk hold the    *)
(* same mappings, a creation has found none, the context of a new key is   *)
(* its request's alone until it is inserted, and only a request that uses  *)
(* the key leaves the client's knowledge of it alone.                      *)
OneRequestPerTriple ==
    \A th, other \in Thread :
        th # other /\ triple[th] # NoTriple => triple[th] # triple[other]

DiskUpToDate == status # "down" => stored = key_info

RequestsAgree ==
    \A th \in Thread : pc[th] \in Creating =>
        stored[triple[th]] = NoId /\ known[triple[th]] = "unsure"

NewContextsPrivate ==
    \A th \in Thread : pc[th] = "insert" =>
        /\ \A t \in KeyTriple : stored[t] # key_id[th]
        /\ \A other \in Thread \ {th} : key_id[other] # key_id[th]

KnownIsStored ==
    \A t \in KeyTriple :
        /\ known[t] = "exists" => stored[t] # NoId
        /\ known[t] = "absent" => stored[t] = NoId

KeptInv ==
    /\ TpmInv
    /\ OneRequestPerTriple
    /\ DiskUpToDate
    /\ RequestsAgree
    /\ NewContextsPrivate
    /\ KnownIsStored

(* Stop and reload terminate, with a poisoned mutex too: a panic unwinds   *)
(* and drops the guard, and the requests that wait for it panic in turn.   *)
TpmDrainEnds == status = "draining" ~> status # "draining"

(* To clients that wait the provider is one map from triples to keys       *)
(* (KeyStore).  Under a triple they reach the context of its mapping, in   *)
(* which the TPM finds the whole key.                                      *)
UseSteps == {"use_lock", "lookup", "attributes", "use"}

KindOf == RequestKinds(Creating, {}, UseSteps)

KeyOf ==
    [t \in KeyTriple |->
        IF status = "down" THEN stored[t] ELSE key_info[t]]

Keys == INSTANCE KeyStore WITH
    Key <- Context, NoKey <- NoId, Durable <- TRUE,
    kind <- KindOf, key <- KeyOf

KeyStoreSpec == Keys!KeyStoreSpec

(* What an answer said stays true until the next request about the triple: *)
(* also, a key that was destroyed does not come back.                      *)
AnswersHold == Keys!AnswersHold
==============================================================================
