# Verification of the smart cities Parsec service

TLA+ models of the code under `src/smartcities`: the Parsec service (Rust,
`parsec/src`), which gives client applications access to keys held by hardware
or software backends, and the small programs around it.  The modules are
checked with TLC on small instances; the theorems of `*_proofs.tla` are checked
with TLAPS for every value of the constants.

Paths below are relative to `src/smartcities/parsec/src` unless they say otherwise.

## The system

A client connects to a Unix socket.  The main loop (`bin/main.rs`) accepts the
connection and gives it to a thread of a pool; the front end reads the request,
an authenticator names the application, the dispatcher selects a back end
handler, and the handler calls one of the *providers*.  A provider keeps keys in
its backend and asks the *key info manager* which of them belongs to a *key
triple* (application, provider, key name).  SIGHUP makes the main loop join the
threads and build everything anew.

| Part | State | Operations | Interacts with |
|---|---|---|---|
| Key info manager, on disk (`key_info_managers/on_disk_manager`) | `key_store` in memory, one file per mapping | `new`, `get`, `get_all`, `insert`, `remove`, `exists` | the file system; called under the lock of the client |
| Key info manager client (`key_info_managers/mod.rs`) | an `RwLock` around the manager, shared by all providers | `get_key_id`, `does_not_exist`, `insert_key_info`, `remove_key_info`, `get_all`, `list_keys`, `list_clients` | the providers' threads |
| Mbed Crypto provider (`providers/mbed_crypto`) | `id_counter`, `key_handle_mutex`; keys in PSA Crypto | generate, import, export, destroy, sign, verify, encrypt, decrypt, key agreement, `new` | key info manager, backend |
| CryptoAuthLib provider (`providers/cryptoauthlib`) | status of the 16 slots of the device | generate, import, export, destroy, sign, verify, `new`; slots to reserve and free | key info manager, device |
| PKCS 11 provider (`providers/pkcs11`) | `local_ids`; objects of the token; public keys copied to PSA Crypto | as above, one session per request | key info manager, token |
| TPM provider (`providers/tpm`) | ESAPI context behind a mutex | as above; the key itself is kept in the key info manager | key info manager, TPM |
| Trusted Service provider (`providers/trusted_service`) | RPC context, `id_counter` | as above | key info manager, secure world |
| Core provider (`providers/core`) | list of providers | `list_providers`, `list_keys`, `list_clients`, `delete_client`, ... | all providers, key info managers |
| Main loop, service builder | listener, thread pool, signals | start, reload, stop | everything above |
| Front end, dispatcher, back end handlers, authenticators | none across requests | one request | the providers |
| Node authentication server and agent (`../../NodeAuthServer`, `../../NodeAuthAgent`, Go) | cache of nodes, their nonces and states | find, ping, verify, remove a node | the cluster, each other, a Parsec client |
| Camera, Triton, EdgeFaaS, Parsec client programs | none | one request | external services |

### What is hard

* **Atomicity.** Checking that a name is free, taking an id, creating the key,
  writing the mapping: four critical sections or atomics with other requests
  between them.  The same for looking up an id and using it.
* **Partial failure.** A key and its mapping live in two stores.  Either of the
  two updates of a request may fail, and so may the compensation for it.
* **Crash and restart.** The process may die between the two updates and between
  two calls of the file system.  At start every provider reconstructs its state from
  the mappings and removes those without a key.
* **Limits.** A bounded set of key ids; a bounded number of device slots.
* **Ordering and signals.** SIGTERM and SIGHUP set flags that the loop tests once
  per turn; configuration is read, checked and made global in several steps, each
  of which may fail; a request passes checks in an order before it may act.
* **Distribution.** A node is verified by calls to its agent and two REST
  services, each of which may be late, lost, restarted or refuse; a removal is
  three commands of which any may fail.
* **Liveness.** A reload joins every thread while holding up all clients; a loop
  draws ids until one is free; a node must be decided at some time.

The list of hazards, each at its line with the properties about it, is in
`PROJECT.json`.  A note there says where the code runs into the hazard, wholly or in
part, so that no property can exclude it (see the observations below).

### What makes each part correct

* key info manager: a persistent map in which an operation that completed is
  kept, one that failed changes nothing that a reader sees, and one triple's
  failures do not touch another's;
* providers: a triple never reaches the key of another triple, a client that was
  told its key exists finds it, no key or slot is left behind, a key that lost
  its mapping stays unreachable;
* main loop: every accepted request is answered before a reload drops the
  providers, and the reload ends;
* dispatch: a request reaches a handler only if its provider, content type and
  permissions allow it;
* node authentication: a node that fails verification leaves the cluster, one that
  answers in time does not.

## Modules

| Module | Models | Composition |
|---|---|---|
| `KeyInfoStore` | the promise of the `ManageKeyInfo` trait: a persistent map where a restart may only change triples *in doubt* | abstract specification |
| `OnDiskKeyInfoManager` | `on_disk_manager/mod.rs`, one action per call of the file system | implements `KeyInfoStore` (`Store == INSTANCE ...`) and `KeyInfoManagerClient` (`Client == INSTANCE ...`) |
| `OnDiskDurability` | the same with a page cache and power failures | extends `OnDiskKeyInfoManager` |
| `KeyInfoManagerClient` | the client as a provider sees it: one step per call | state and operators, instanced by the providers |
| `ProviderRequests` | requests on threads, arrival and answer, stop, reload and death of the process: what the providers share | state and operators, instanced by the providers |
| `KeyStore` | the promise of a provider to clients that wait for their answers: one map from triples to keys | abstract specification |
| `MbedCrypto` | the Mbed Crypto provider: id counter, mutex, backend, errors, restarts | instances `KeyInfoManagerClient`, `ProviderRequests`; implements `KeyStore` (`Keys == INSTANCE ...`) |
| `CryptoAuthLib` | the CryptoAuthLib provider: slots, device, errors, restarts | instances `KeyInfoManagerClient`, `ProviderRequests`; implements `KeyStore` (`Keys == INSTANCE ...`) |
| `Pkcs11` | the PKCS 11 provider: objects of a token, random ids, software operations | instances `KeyInfoManagerClient`, `ProviderRequests`; implements `KeyStore` (`Keys == INSTANCE ...`) |
| `Tpm` | the TPM provider: key contexts, mutex, poisoning | instances `KeyInfoManagerClient`, `ProviderRequests`; implements `KeyStore` (`Keys == INSTANCE ...`) |
| `TrustedService` | the Trusted Service provider: remote calls, id counter | instances `KeyInfoManagerClient`, `ProviderRequests`; implements `KeyStore` (`Keys == INSTANCE ...`) |
| `ServiceLifecycle` | what a provider may expect of the service around it | abstract specification |
| `ServiceLoop` | `main`, `build_service`, listener, thread pool, signals | implements `ServiceLifecycle` (`Lifecycle == INSTANCE ...`) |
| `FrontEnd` | front end handler, authenticators, dispatcher, back end handlers: one request | |
| `CoreProvider` | `list_keys`, `list_clients`, `delete_client` over all providers, against requests | |
| `Service` | the three above together: main, a request, the core provider | extends `ServiceLoop`, `FrontEnd`, `CoreProvider` |
| `NodeAuth` | node authentication: server, agents, REST services, cluster | |
| `OnDiskKeyInfoManager_proofs`, `MbedCrypto_proofs`, `CryptoAuthLib_proofs`, `Pkcs11_proofs`, `Tpm_proofs`, `TrustedService_proofs`, `Service_proofs`, `NodeAuth_proofs` | theorems | each extends its module, the first also `OnDiskDurability` |
| `MCTokenProviders` | instance for TLC of two providers with keys outside the process | extends `Pkcs11`, instances `TrustedService` |
| `MCTpm` | instance for TLC of the TPM provider, and of the end of PKCS 11 requests | extends `Tpm`, instances `Pkcs11` |
| `MCService` | instance for TLC of the service around the providers | extends `Service` |
| other `MC*` | instances for TLC | each extends its module |

How they fit together: the provider modules assume in `StopArrivals`,
`JoinThreads` and `Start` that a provider is dropped and built only while no
request is served.  This assumption is the module `ServiceLifecycle`, and that
the code of `main` keeps it is the refinement `ServiceLoop!LifecycleSpec`.
Towards the key info manager they assume what `KeyInfoManagerClient` says; that
`OnDiskKeyInfoManager` gives them no other steps is the theorem `ImplementsClient`, and
`KeyInfoStore` is the promise of the trait, which it implements too.  Towards the
clients each of the five providers, with its ids, slots, objects or contexts, is the
map of `KeyStore`: the theorems `ImplementsKeyStore`.  A job of
`ServiceLoop` is one request of `FrontEnd`, which ends in a call of a provider,
that is a request of a provider module or of `CoreProvider`.

### OnDiskKeyInfoManager

`key_store` is the field of the same name.  `disk[t]` is the file of triple `t`:
no file, a whole `KeyInfo`, or `Torn` (created but not fully written).  The
operations run under the write lock of the client, so `pc`, `target` and
`payload` describe the only modification under way.  `Mkdir`, `Unlink`,
`Create`, `Write` and `Delete` are the calls of `save_mapping` and
`delete_mapping`; before each the call may fail (`FileSystemError`, the `?`)
or the process die (`Crash`).  A `write_all` that fails part way and one that
has not begun both leave `Torn`.  `InsertCommit` and `RemoveCommit` are the
updates of the cache and the return to the caller.  `Start` is `new`.  The
names of files and directories are abstracted to the triple that they encode.
`acked` is a history variable: what the last completed operation on a triple told
its caller.

For the providers an operation takes effect when its last call of the file system
succeeds (`Write`, `Delete`): from there to the return nothing fails, and the lock
keeps readers out until the cache has followed.  `Published` is the cache as they
will find it, `Readable` the files as a restart will.

In `OnDiskDurability` the variable `durable` is the content of the storage device;
`WriteBack` copies the file of one triple at any time, in any order, and
`PowerFailure` replaces `disk` by `durable`.  The code calls no `sync_all`, so
nothing else orders the two.

### KeyInfoManagerClient

Each call takes the lock for itself and is therefore one step; `key_info` is
what readers see and `stored` what a restart reads.  The difference between the
two is what `OnDiskKeyInfoManager` shows possible: a failed overwrite, or a
crash within it, may lose the old file.  A torn file, which keeps the service from
starting until somebody removes it, appears here as a lost one.

### ProviderRequests

A request is a sequence of steps of one thread; `pc` names the next step, and the
steps are the points between which other threads may run.  `triple` and `key_id` are
its local variables.  `Arrives` is the hand-over of a connection to a thread of
the pool, up to the call of the provider; `Answer` is the way back.  `status`
follows `main`: "draining" while it joins the threads of the pool, "down" while no
provider exists.  `Faults` says what may go wrong (`"kim"`: the key info manager,
`"backend"` or `"device"`, `"data"`: data that an import refuses, `"crash"`).
`Overlap` says whether two requests about the same triple may overlap in time,
that is whether clients wait for their answers.  `known` is a history variable:
what the last answer about a triple said.

### KeyStore

`key[t]` is the key that a client reaches under triple `t`, if any; `kind[th]` is what
the request of a thread may still do.  A request has one effect on the key of its own
triple, or none, between its begin and its end; its answer is true of the map; failed
calls, crashes, stops and reloads leave the map as it is.  It is stated without the names
of the providers' actions, so that it is the same for all five:

| `KeyStore` | In a provider |
|---|---|
| `key` | `KeyOf`: the id in the mapping of the triple (`key_info`, or `stored` while no provider exists), if the backend has a key for this triple under it |
| `kind` | `KindOf`: from the step of the request, by `RequestKinds` |
| `Create` | `Insert`, where the request ends with the key |
| `Destroy` | `Remove`, after which the key is not reached; what follows in the backend is invisible.  `Tpm` has one step for the whole request: `DestroyAtOnce` |
| `GiveUp`, then `Answer` | a failure after the key has been created, and the rollback or release |
| `Refuse`, `Answer` | the error paths before, the uses, the last steps of a destruction |
| `Crash`, `Start`, ... | the same |

Ids, counters, slots, locks and rollbacks are not in it, and steps that change only these
stutter.  `Durable` says whether a start keeps the map: it does except in
`CryptoAuthLib`, whose start removes all mappings (see the findings).  `KeyStore` is about
`Overlap = FALSE`; `mbed_rollback` shows what two overlapping creations do.
`AnswersHold` is what this means to a client: what an answer said is true until the next
request about the triple.

### MbedCrypto

| Code | Steps |
|---|---|
| `psa_generate_key_internal`, `psa_import_key_internal` | `CreateBegin` (does_not_exist), `FetchAdd` and `Saturate` (`create_key_id`), `Lock`, `CreateKey`, `Insert`; on errors `CreateRefused`, `CreateKeyError`, `InsertOverwrites` or `InsertError` followed by `Rollback` |
| `psa_destroy_key_internal` | `DestroyBegin` (get_key_id), `Remove` (remove_key_info), `Lock`, `Destroy`; errors `NoSuchKey`, `RemoveTooLate`, `RemoveError` |
| sign, verify, encrypt, decrypt, export, key agreement | `UseBegin` (get_key_id), `Lock`, `Use` |
| `Provider::new` | `Start`, `StartError` |
| stop and reload in `main` | `Drain`, `Joined` |

`keys[i]` is the backend: the triple for which the key with id `i` was created.
Attributes, algorithms and data are left out: no property depends on them.

The AtomicU32 does not wrap: the counter exceeds the limit, 2^30 - 1, by at most
the number of threads (`Saturate` stores the limit again).

### CryptoAuthLib

| Code | Steps |
|---|---|
| `psa_generate_key_internal`, `psa_import_key_internal` | `CreateBegin` (does_not_exist), `Reserve` (find_suitable_slot), `WriteKey` (gen_key, import_key), `Insert`; errors `CreateRefused`, `ReserveError`, `ExtractError` (import only), `WriteKeyError`, `InsertOverwrites` and `InsertError`, the last three followed by `Release` (set_slot_status) |
| `psa_destroy_key_internal` | `DestroyBegin` (get_key_id), `Remove` (remove_key_info), `Release`; errors `NoSuchKey`, `RemoveTooLate`, `RemoveError` |
| sign, verify, export | `UseBegin` (get_key_attributes), `Lookup` (get_key_id), `Use` (the call of the device); errors `LookupTooLate`, `UseRefused` |
| `Provider::new` | `Start`, `StartError` |

`slots` is `KeySlotStorage`, `device` what is in the slots: the triple for which a
key was last written, which a release does not erase.  The comparison of
attributes with the configuration of a slot (`key_slot.rs`) is the constant
`Fits`: for each kind of attributes the slots that suit it.  A creation picks its
kind when it reserves.  A failed write may have changed the slot or not.
`Start` removes every mapping, because `does_not_exist` answers an error for
each triple that `get_all` has listed; so `key_validate_and_mark_busy`, and with it
the reference counts, is code that never runs and is not modelled.

### Pkcs11

| Code | Steps |
|---|---|
| `psa_generate_key_internal`, `psa_import_key_internal` | `CreateBegin` (does_not_exist), `CreateKeyId`, `CreateObjects`, `Insert`; errors `CreateRefused`, `SessionError`, `CreateError`, `InsertOverwrites` or `InsertError` followed by `Rollback` |
| `psa_destroy_key_internal` | `DestroyBegin`, `Remove`, `DestroyFirst`, `DestroySecond`; errors `NoSuchKey`, `RemoveTooLate`, `RemoveError`, `DestroyError` |
| sign, verify, encrypt, decrypt; export | `UseBegin`, `Attributes`, `Use`; `ExportBegin`, `Lookup`, `Use` |
| `software_psa_verify_hash_internal`, `software_psa_asymmetric_encrypt_internal` | `SoftwareBegin`, `Lookup`, `SoftwareExport`, `SoftwareImport`, `SoftwareUse`, `SoftwareRemove`; `SoftwareError` |
| `Provider::new` | `Start`, `StartError` |

`objects` is the token, which outlives the process; an object knows its id and
class, and its `owner` is what the model adds.  `local_ids` is the field of the
provider.  An id is drawn from the finite set `Id`; the loop of `create_key_id`
with no id left is a step that is never enabled.  `leftovers` is a history
variable: ids of objects that had no mapping when the provider started.

### Tpm

`CreateBegin` (does_not_exist) comes before `Lock`; creation, insertion and use
are behind it (`Guarded`), where a call may fail or the thread `Panic`, which
poisons the mutex; a thread that then takes it panics as well (`LockPanics`).
Destruction removes the mapping and nothing else.  `key_id` is a key context.  A
context is a value: a new one is one that nothing refers to.  `sole` is a history
variable: the context that a creation without a rival of the same name stored.

### TrustedService

`keys[i]` is the secure world: the triple that the key with id `i` was created
for.  Each remote call is one step, since `Context` has a mutex for one call, and
fails before or after it is executed.  `id_counter` behaves as in `MbedCrypto`;
`Provider::new` rebuilds it from the mappings and asks the secure world nothing.

### ServiceLoop and ServiceLifecycle

`pc` is the place in `main`; `build_service` is the steps `Configure`,
`BuildKeyInfoManagers`, one `BuildProvider` or `SkipProvider` for each section,
the authenticators and the listener.  A signal sets a flag; the loop tests
the two flags, then accepts.  A connection goes from `backlog` to `queue` to
`running`.  `job[c]` is the Arc of the front end handler that a job holds, with
its configuration; `Alive` derives from these which instances of providers exist.
`asked` is a history variable: a SIGHUP that no configuration was read after.

### FrontEnd

One request: `front_pc` is its next check, in the order of `handle_request`,
`authenticate`, `dispatch_request`, `is_capable` and `execute_request`.
`calls` collects the methods of providers that were called, with the application
they were called for.  A request is a record of what the checks distinguish; a
body decodes or not.  The tables of opcodes are those of the providers.  Where the code
tests one thing after another, the model is a chain of `IF`s in the same order, as the
first test that fails decides the status.

### CoreProvider

The three operations visit the providers in order (`core_pc` is the step of each
thread, `visiting` its provider); each visit is one lock of a key
info manager (`Visit...`), each `psa_destroy_key` of `delete_client` one step,
while other requests create and destroy keys at any time.  `steady`, `seen`
and `excused` are history variables per request: keys that were there all the
time, at some time, and those that its answer may leave out or leave behind.

### NodeAuth

`pc` is the place in the loop of the server's `main`: `GetNewNode` with its list
(`items`), its cache (`clusterNodes`) and its wait (`waitTime`), the calls of
`IsAgentReady` and `RequestVerify`, and the commands of `RemoveSelf`.  The agent
is the steps `AgentClient` and `AgentEncrypt`, on behalf of the server's call;
`clients` holds the hosts whose REST service remembers a `GoClient`.  Encryption is
`Answer(own_key, data)`: what was encrypted, and whether under the key that the
server decrypts with.  `MaxEvents` bounds joins, changes of readiness, and ends of agents
and REST services; starts of agents and timeouts are not bounded.

## Runs

| Run | Properties | What it shows | Bounds |
|---|---|---|---|
| `ondisk_contract` | `AckedIsKept`, `StoreSpec` | files and cache implement the persistent map, with every failure and crash | 3 triples, 2 values: overwriting with a different value, and bystanders |
| `ondisk_power` | `CacheAgreesWithDisk`, `WrittenBackIsKept` | power failures lose only what was not written back | 2 triples, 2 values |
| `mbed_races` | `IdInv`, `MappedKeyStays`, `ZombiesStayUnreachable` | overlapping requests, all failures and restarts never mix up two triples' keys, and only requests about a triple itself take its mapped key away | 2 threads, 2 triples, ids 1..4: the limit is reached, keys are destroyed and created again, ids reissued after a restart |
| `mbed_sequential` | `KeyStoreSpec`, `OrphansOnlyFromFailures`, `DrainEnds` | without overlapping requests about one triple, the provider is one durable map from triples to keys, only crashes and failed destructions leave keys behind, and stop and reload terminate | 2 threads, 2 triples, ids 1..4 |
| `mbed_rollback` | `RollbackKeyIsPrivate` (violated) | see the findings | 2 threads, 1 triple |
| `calib_races` | `MappedSlotIsWritten`, `LockedSlotsUntouched` | overlapping requests and all failures: no mapping of what the device refused, no step on a locked slot | 2 threads, 2 triples, slots 1..3 of which 3 is locked; kinds that fit two, all and none |
| `calib_sequential` | `SlotInv`, `UsedSlotIsOwn`, `BusySlotHasOwner` | without overlapping requests about one triple, one owner for each slot, its own key for each mapping, no slot lost | 3 threads and 3 triples for 2 free slots: the storage runs full |
| `calib_restart` | `ValidMappingsKept` (violated) | see the findings | 1 thread, 1 triple |
| `tokens` | `FoundObjectIsOwn`, `VolatileKeysReleased`, `KeyStoreSpec`, `ObjectsLostByTokenOnly` (PKCS 11); `SecureKeyIsOwn`, `DeadMappingsFromRollback` (Trusted Service) | which keys are reached, kept and lost when requests interleave, calls fail or are lost, and the process dies | 2 threads, 2 triples; 2 ids of the token, so that they run out and are drawn again; ids 1..4 of the secure world; 341 502 states |
| `tpm` | `SoleKeyKept`, `BrokenContextUnused`, `TpmDrainEnds` (TPM); `TokenDrainEnds` (PKCS 11) | acknowledged keys stay, a poisoned mutex keeps everybody out, and stop and reload terminate with errors, panics and few ids left | 2 threads; TPM: 2 triples, 4 contexts, so that both triples have a key while both threads make one; PKCS 11: 1 triple, 2 ids; 278 409 states |
| `service` | `ServiceTypeOK` (all parts); `OneInstancePerKind`, `RequestsKeepTheirConfig`, `LifecycleSpec`, `StopEnds`, `HupIsHonoured` (loop); `CallsAreAuthorized`, `ResponseAgrees` (one request); `DeletedUnlessExcused`, `ListsAreHonest`, `WalksEnd` (core provider) | the service around the providers | 3 connections, 2 reloads, 4 configurations, 2 of them refused; every opcode at every provider and every combination of defects; 5 keys of 2 applications at 2 providers; 105 113 states |
| `node_auth` | `PassIsEarned`, `RemovalHasCause`, `VerifiedNodesStay`, `EveryNodeIsDecided` | no node passes without its key, none is removed without a cause, every one is decided | a master and 2 workers on 2 machines, one without the right key; 1 event; 459 290 states |

`tokens`, `tpm` and `service` hold several modules in one run: a behaviour is a run of
one of the parts, chosen initially, and the others keep their initial state.  In
`tokens` the PKCS 11 provider runs without overlapping requests about one triple, which
`KeyStoreSpec` and `ObjectsLostByTokenOnly` need; in `tpm` its requests overlap, as
those of the other two do.  `FoundObjectIsOwn` needs no such restriction: it is a theorem.
`service` stops where the process has exited, hence `CHECK_DEADLOCK FALSE`.

`KeyStoreSpec` is in the runs of `MbedCrypto` and `Pkcs11`; for the other three providers it
is a theorem without a run.  `AckedKeyUsable` and `AckedObjectFound`, which say of the
acknowledged keys what `KeyStoreSpec` says of all, are theorems too and not repeated in the runs.

The conjuncts of `IdInv` and `SlotInv` have names and theorems of their own.  The other
type invariants and inductive invariants (`MappedInv`, `KeptInv`, `DurableInv`, `TokenInv`, `TpmInv`,
`LeadsInv`, `LoopInv`, `FrontInv`, `CoreInv`, `AuthInv`) are not repeated in the runs: they are
proved.

Two threads are enough for the races between a check and a use, as each involves
one pair of requests; the theorems remove the bounds for all safety properties.

One event of `node_auth` is enough to take an agent, a client or readiness away, or to
add a node, at every step of an attempt; what needs more of them is covered by the
theorems, except `EveryNodeIsDecided`.

**Fairness.** `FairSpec` of `MbedCrypto`, `Pkcs11` and `Tpm`: weak fairness of every
thread's steps (the operating system runs every thread, and a mutex that is free is
eventually taken: once draining no new request arrives, so nobody can starve a
thread) and of the end of the join.  `ServiceLoop`: weak fairness of `main` and of
the threads of the pool; `CoreFairSpec` of
`CoreProvider`: of the threads.  `NodeAuth`: weak fairness
of the server's loop, which has no exit, and of the end of the wait; strong fairness
of `Cordon`, `Drain` and `Delete`, that is, `kubectl` that is called again and again
succeeds again and again.  Without the latter a removal that fails for ever would put the decision off for
ever, as the code retries without a limit.  As `MaxEvents` bounds the joins, `EveryNodeIsDecided` is
about clusters to which nodes join finitely often.  Nothing is assumed about
clients, signals, agents or other failures.

**Mutants.** Beside an action, a definition `Action_Fault` is the action with a
plausible bug (marked `mutant` in the comment).  It is not part of the
specification; replacing the action by it violates the property that it is listed
with in `PROJECT.json`.

## Findings

* *Rollback of a mapped key* (`mbed_rollback`): of two overlapping creations of a
  triple the second overwrites the mapping, fails, and destroys the key that the
  triple now maps to; "Safe as this thread should be the only one accessing this
  key yet" (`mbed_crypto/key_management.rs:59`, `:104`) does not hold.
* *Restart* (`calib_restart`): `Provider::new` of CryptoAuthLib takes the error of
  `does_not_exist`, which says that the mapping is there, for an invalid entry:
  every restart deletes all mappings and sets all their slots free, against
  "Delete invalid entries or invalid mappings" (`cryptoauthlib/mod.rs:100`).

Observations without a run of their own:

* `new` of the on-disk manager fails at the first file that does not deserialize,
  so a crash while one mapping is written makes the service refuse to start,
  against "to prevent the modification of one mapping impacting the other ones"
  (`on_disk_manager/mod.rs:178`).  `OnDiskKeyInfoManager` has this case.
* The operations return before the data is on the device, against "Methods
  modifying the mapping will also block until the modifications are done on
  disk" (`on_disk_manager/mod.rs:7`).  `WrittenBackIsKept` says what remains true.
* CryptoAuthLib: when `raw_key_extract` refuses the data of an import the slot has
  been reserved and is not released (`cryptoauthlib/key_management.rs:123`).  With
  this path taken away (no `"data"` in `Faults`) `BusySlotHasOwner` holds, and is a
  theorem.
* CryptoAuthLib: one request reads the slot of a triple; others destroy that key
  and create one of another client in the same slot; the first request then signs
  with that key.  "Isolated key stores" (`../README.md:41`) need clients that wait
  for their answers: for those `OwnSlotUsed` is a theorem.  Two overlapping creations
  of one triple lead there as well (`cryptoauthlib/key_management.rs:53`).
* TPM: of two overlapping creations of a triple the second overwrites the context of the
  first, whose client has been told that it has the key (`tpm/key_management.rs:29`).
  `SoleKeyKept` shows that a context is lost in no other way.
* PKCS 11: `local_ids` is rebuilt from the mappings alone (`pkcs11/mod.rs:104`), so the id of an
  object without mapping may be drawn again, and a search may then find that object.
  `FoundObjectIsOwn` excuses these; no other foreign object is found.
* Trusted Service: `Provider::new` never asks the secure world which keys exist,
  although the comment at `trusted_service/mod.rs:70` says that mappings whose key is
  not present are deleted.  `SecureKeyIsOwn` shows that no mix-up follows.
* Core: `SUPPORTED_OPCODES` of the core provider lacks `ListClients` and
  `DeleteClient`, which it implements; the converse holds (`ResponseAgrees`).
* Front end: "If an error occurs during (un)marshalling; no operation will be
  performed" (`front/front_end.rs:41`) is true of requests only: encoding or writing
  the answer may fail after the operation has been done.
* Main: `allow_root` is looked at when the process starts, and not at a reload.
* Node authentication: a node whose agent is not ready when it joins is removed
  at once, as the wait of 300 seconds covers only a failed ping; a node that passes after a half-done
  removal stays cordoned; a name that joins again keeps its cached `pass`, address and
  nonce; a worker promoted to master is still verified; `RandomString` never yields
  the last letter of its alphabet (`utils.go:20`).
* Mbed Crypto: after a failed destruction and a restart the `id_counter` is below
  the id of a key that still exists, against "Holds the highest ID of all keys
  (including destroyed keys)" (`mbed_crypto/mod.rs:71`).
  `ZombiesStayUnreachable` shows that the consequence is a refused creation, never
  access to the old key.

## Proofs

**Providers and `KeyStore`.**  For each of the five providers, with its assumption:

* `ImplementsKeyStore`: `~Overlap /\ Spec => KeyStoreSpec`.  By `KeyMap`, under the
  inductive invariant the key that is reached under a triple is that of its mapping, so the
  map changes only where mappings do; `KindStep` says how a step of one thread changes
  what the threads may still do.  `AnswerImplements` treats the steps that end a request,
  `RequestImplements` those that begin one, `StepImplements` the rest of a request with
  one case for each action, `ServiceImplements` stop, reload, crash and start.  The invariant has
  to say why each answer is true: that a creation finds its triple still unmapped when
  it inserts, that a destruction or a use still has the id of the mapping, that the key of a mapping
  is in the backend, and that "exists" and "absent" agree with the files
  (`RequestsAgree`, `MappedKeysLive`, `KnownIsStored` and their counterparts, resting on
  `OneRequestPerTriple`).
  That a new key is no other triple's needs ids to be private.
* `AnswersStayTrue`: `~Overlap /\ Spec => []AnswersHold`, from the same invariant.

The invariant is `KeptInv` in `MbedCrypto`, `Pkcs11`, `TrustedService` and `Tpm`, and `SlotInv` in
`CryptoAuthLib`.

`MbedCrypto_proofs.tla`, from `MbedAssumption` alone (the limits of the ids are
natural numbers with `0 < IdMin <= IdMax`, the sentinels are no threads or
triples), for any numbers of threads, triples and ids and any set of faults:

* `TypeCorrect`: `Spec => []TypeOK`.
* `IdsKeptApart`: `Spec => []IdInv`.  `MappingsInjective` is not inductive: a
  step of `Insert` preserves it only if the new id is not mapped yet, which
  follows from ids being fresh when they are issued (`IssuedIdsFresh`), which in turn needs
  every id in use to be at most the counter (`IdsBelowCounter`), also after a
  start, when the counter is rebuilt from the files; there `StoredAgrees` and
  `IdleWhenDown` say that the files contain no surprise and no thread holds an
  id.  `HeldKeyIsOwn` and `ReadIdsNotFresh` carry the ownership of a key from the
  moment an id is read to the moment it is used.  `Saturate`, which lowers the
  counter, is the step where `IdsBelowCounter` needs ids to be bounded by the limit.
* `NoSharedKey`, `OwnKeyMapped`, `FreshIdsIssued`: the three properties, from `IdInv`.
* `MappedKeysStay`: `Spec => MappedKeyStays`, an action property for overlapping requests,
  from `MappedInv`.  `IdInv` says of a stale id only that the key under it is its
  triple's or gone; that destroying under it hits no mapped key needs that an id which a request
  has read is mapped by no other triple (`HeldIdsNotOthers`), and after the removal by none
  (`DestroyedIdsUnmapped`), also when the removal took a newer mapping than the one that was read.
* `ZombiesUnreachable`: `Spec => ZombiesStayUnreachable`, an action property,
  from `IdInv` and a lemma with one step per action.
* `AckedKeysUsable`: `~Overlap /\ Spec => []AckedKeyUsable`, from `KeptInv`.  That clients
  wait for their answers is needed: `mbed_rollback` shows what two overlapping creations
  do.  That the key of an acknowledged mapping lives (`MappedKeysLive`) is lost where a
  thread destroys a key, unless no mapping in the files has the id it holds; for a
  rollback this needs that its insertion has found the triple free and that no other
  request works on the triple since (`RequestsAgree`, `OneRequestPerTriple`), and for
  other triples `IdInv`.  `KnownIsStored` needs the client to be unsure while a request
  that changes its mapping is under way.
* `KeysHaveOwners`: `~Overlap /\ Spec => OrphansOnlyFromFailures`, an action property, from
  the same invariant, one lemma for the steps of a thread and one for those of the service.

`CryptoAuthLib_proofs.tla`, from `CalibAssumption` (slots are numbers, the locked
ones and those of `Fits` among them), for any numbers of threads, triples, slots and
kinds:

* `TypeCorrect`; `LockedSlotsSafe` (from `LockInv`: no request at the device has a
  locked slot) and `MappedSlotsWritten` (from `WrittenInv`, which adds the files,
  from which a start reads, and the requests about to insert): these hold however
  requests overlap.
* `SlotsKeptApart`: `~Overlap /\ Spec => []SlotInv`.  `SlotsExclusive` alone is not
  inductive: that a destruction frees nobody else's slot needs the slot that it read
  at its begin to be still that of its triple (`RequestsAgree`), hence that no
  other request works on the triple (`OneRequestPerTriple`); that a reserved slot is
  not somebody's needs mapped slots to be busy (`MappedKeyInSlot`); restarts need
  `StoredAgrees` and `IdleWhenDown`.  `SlotsNeverShared` and `OwnSlotUsed` follow.
  `DiskUpToDate` and `AbsentIsUnmapped` are there for `ImplementsKeyStore`: a key that was
  destroyed is in neither copy of the mappings.
* `BusySlotsOwned`: with `"data" \notin Faults` no slot is lost, from `SlotInv`.

`OnDiskKeyInfoManager_proofs.tla`, from `OnDiskAssumption` (the sentinels are
distinct and no triples or values):

* `TypeCorrect`, and `AckedKept` from `AckInv`: an operation about to return has
  written what it will say, and says nothing before.
* `ImplementsStore`: `Spec => StoreSpec`, step by step under the refinement mapping
  (a triple is in doubt when file and cache disagree); it needs `AckInv` where the
  cache is updated.
* `ImplementsClient`: `Spec => ClientSpec`, the same for what the models of the providers
  assume.  Under the mapping to `Published` and `Readable`, `Write` and `Delete` are
  `InsertKeyInfo` and `RemoveKeyInfo`; `Unlink` and `Create`, which have lost the old
  file, are `InsertKeyInfoError`; the death of the process is `ReloadWithout({})`; every
  other step is invisible, `InsertCommit` and `RemoveCommit` by `AckInv`.  `ClientSpec` says
  nothing about which request gets which answer: that one that returns an error has not
  taken effect is `AckInv`.
* `CacheAgrees` and the action property `WrittenBackKept` of `OnDiskDurability`, from
  `DurableInv`.  Under power failures a file need not have what was acknowledged, so
  `AckInv` does not hold; what replaces it is that where the device has
  what was acknowledged, the file has it as well (`DurableIsCurrent`).

`Pkcs11_proofs.tla`, from `Pkcs11Assumption` (sentinels and known faults), for
any numbers of threads, triples and ids, with overlapping requests:

* `TypeCorrect`, `IdsKeptApart`: `Spec => []IdInv`.  `IdsNeverShared` needs that a new id is
  in no mapping (`NewIdsPrivate`), which needs every id in use to be in `local_ids`
  (`IdsRecorded`), after a start as well: `StoredAgrees`, `IdleWhenDown`.
* `FoundObjectsOwn`, from `IdInv` and `OwnersAgree`, which says of each id in use
  that the objects under it belong to its triple or were left over at a start.
* `VolatileKeysGone`, from the types of the steps.
* `AckedObjectsFound`: `~Overlap /\ Spec => []AckedObjectFound`, and the action property
  `ObjectsLostByToken`: `~Overlap /\ Spec => ObjectsLostByTokenOnly`, from `KeptInv`: beside
  what `KeptInv` of `MbedCrypto` says, a destruction has at most one object left after
  its first (`OneObjectLeft`), but for ids of leftovers.

`Tpm_proofs.tla`, from `TpmAssumption`: `TypeCorrect` and `GuardAndKeys`:
`Spec => []TpmInv`; `MappingsKept`: `~Overlap /\ Spec => []KeptInv`.  That an
acknowledged context stays (`SoleKeysKept`) needs that no rival creates a key under its name (`NoRival`), and that nobody gets past a poisoned
mutex (`BrokenContextsUnused`) needs `GuardHeld`.  `KeptInv` adds to `TpmInv` that the triple of
a creation is unmapped and that a context not stored yet is referred to by nothing else
(`NewContextsPrivate`).

`TrustedService_proofs.tla`, from `TrustedServiceAssumption`: `TypeCorrect` and
`IdsKeptApart`: `Spec => []SecureIdInv`.  `SecureKeysOwn` needs the key of each id
that a request holds to be its own or gone (`KeyOfRequest`), and ids to have one
triple each (`OneUserPerId`), for which new ids are above all others (`IdsBelowCounter`).  The
assumption places `NoId` below the limits, as no id is ever issued there.
`DeadMappingsRolledBack`: `Spec => DeadMappingsFromRollback`, an action property, from
`LeadsInv`, which adds that new ids are private and that whoever destroys a key does so
under an id that no triple maps to.  `MappingsKept`: `~Overlap /\ Spec => []KeptInv`, on top of
`LeadsInv`: without overlapping requests about a triple no mapping is dead
(`MappedKeysLive`), although the provider never asks the secure world.  The properties
`SecureKeyIsOwn` and `DeadMappingsFromRollback` of the run `tokens` are these of `TrustedService`, by `INSTANCE`.

`Service_proofs.tla`, from `ServiceAssumption`, the assumptions of the three parts:

* Main loop: `LoopInv` says that a connection is in one place, no job exists at the steps
  where `main` builds or drops (`PoolEmpty`), and a job is one of the present build
  (`OneBuild`).  `ConfigKept` and `InstancesApart` follow, and `ImplementsLifecycle`:
  `Spec => LifecycleSpec`, step by step.
* One request: `FrontInv` says of each step which defects the request cannot have any more
  (`ChecksPassed`), and that an application is the one the authenticator found
  (`AppIsIdentity`).  `OnlyAuthorizedCalls` and `ResponsesAgree` follow.
* Core provider: `CoreInv` relates history and state (`HistoryIsTrue`): a key that was there
  all the time is there, and what is there has been seen.  `ClientsDeleted` and `ListsHonest`
  are conjuncts, as the statement about a request under way is what is inductive.  The
  invariant is split by thread (`InvByThread`), so that each action needs a proof for
  its own thread and one for the others, of which only the keys change.
* `ServiceTypeCorrect`: `ServiceSpec => []ServiceTypeOK`.  For the loop this needs that
  handlers are numbered by the reloads that were asked for (`BuildsCounted`), which bounds
  the numbers that jobs hold, and `BuildProgress`: `main` listens only with a handler.

`NodeAuth_proofs.tla`, from `NodeAuthAssumption` (names are positive numbers, finitely many):
`TypeCorrect`; `AuthInv` says what the server knows at each step of an attempt,
for instance that an answer under its key is one that the agent of this node gave;
`PassesEarned`, `RemovalsHaveCause` and the action property `VerifiedStay` follow.

`MCTokenProviders` and `MCTpm` extend or instantiate modules that state their assumptions
as definitions, which these assume for TLC and the theorems have as hypotheses; the same
for `Service` and its three parts.

Model-checked only: the liveness properties `DrainEnds`, `TokenDrainEnds`, `TpmDrainEnds`,
`StopEnds`, `HupIsHonoured`, `WalksEnd` and `EveryNodeIsDecided`.  They rest on fairness, that
is on `ENABLED`, which is out of the prover's reach.  Every other property of the passing
runs is a theorem.  The two properties that a run refutes are of course none.

## Plan

Done, in this order: key info manager with the proof of the refinement; Mbed Crypto
and CryptoAuthLib providers with the proofs of the safety of ids and slots;
PKCS 11, TPM and Trusted Service providers, with proofs; main loop with the proof that
it implements `ServiceLifecycle`; front end; core provider; node authentication,
with proofs; proofs for clients that wait for their answers, of durability, of the
service around the providers, and that the on-disk manager is the client that the
providers assume, and that each provider implements one abstract map from triples to keys.
Left: `NodeAuth` with more events, to look at rejoining names under liveness.

## Not modelled

* Conversion between wire formats, parsing of the configuration and the command
  line, log output, cryptography, hashes, random numbers, the tables that map error
  codes: pure functions and I/O, which keep no state between requests.
* A listener that is passed by socket activation: it differs in who creates the socket.
* The handlers for keys, signatures and random numbers of the REST service in front of
  Parsec (`../../ParsecClient`): each passes one call on.  Its map of clients, and the encryption and
  decryption that node authentication calls, are in `NodeAuth`.
* The server's own restart, and a node without annotations, at which `GetNewNode` panics.
* Camera, Triton and EdgeFaaS programs: no state of their own.
* End-to-end tests and fuzzing: programs that test the service.
