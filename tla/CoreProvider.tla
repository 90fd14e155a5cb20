---------------------------- MODULE CoreProvider ----------------------------
(***************************************************************************)
(* The core provider's operations on the keys of all providers             *)
(* (providers/core): list_keys, list_clients and delete_client visit the   *)
(* providers one after the other, and each visit takes the lock of the key *)
(* info manager for itself, while other threads create and destroy keys.   *)
(* A provider that fails is passed over, and the answer is Success.        *)
(***************************************************************************)
EXTENDS Naturals, Sequences

CONSTANTS
    Thread,     (* worker threads that serve requests to the core provider *)
    Client,     (* application names                                       *)
    NoClient,
    KeyName,
    Key,        (* the key triples that the clients use                    *)
    Provider,   (* the providers of the configuration                      *)
    ProvList,   (* prov_list: they in the order of the configuration       *)
    CoreFaults  (* what may fail: "list", "destroy"                        *)

(* What the constants must satisfy; the module that composes this one      *)
(* assumes it.                                                             *)
CoreProviderAssumption ==
    /\ NoClient \notin Client
    /\ ProvList \in Seq(Provider)
    /\ \A p \in Provider : \E i \in DOMAIN ProvList : ProvList[i] = p
    /\ \A i, j \in DOMAIN ProvList : ProvList[i] = ProvList[j] => i = j
    /\ Key \subseteq [provider : Provider, app : Client, name : KeyName]
    /\ CoreFaults \subseteq {"list", "destroy"}

VARIABLES
    keys,       (* the triples in the key info managers of the providers   *)
    core_pc,    (* per thread: the operation, or "destroy" within          *)
                (* delete_client, or "idle"                                *)
    client,     (* per thread: the application it asks about               *)
    visiting,   (* per thread: the provider being visited                  *)
    todo,       (* per thread: names delete_client has still to destroy    *)
    found,      (* per thread: the result so far                           *)
    steady,     (* history: keys that were there during the whole request  *)
    seen,       (* history: keys that were there at some time of it        *)
    excused     (* history: keys that delete_client may leave behind       *)

walk == <<core_pc, client, visiting, todo, found>>
history == <<steady, seen, excused>>
coreVars == <<keys, walk, history>>

CoreTypeOK ==
    /\ keys \subseteq Key
    /\ core_pc \in [Thread -> {"idle", "list_keys", "list_clients", "delete_client", "destroy"}]
    /\ client \in [Thread -> Client \cup {NoClient}]
    /\ visiting \in [Thread -> 1 .. Len(ProvList) + 1]
    /\ todo \in [Thread -> SUBSET KeyName]
    /\ found \in [Thread -> SUBSET (Key \cup Client)]
    /\ steady \in [Thread -> SUBSET Key]
    /\ seen \in [Thread -> SUBSET Key]
    /\ excused \in [Thread -> SUBSET Key]
    /\ \A th \in Thread :
          /\ steady[th] \subseteq seen[th]
          /\ core_pc[th] = "destroy" => visiting[th] <= Len(ProvList) /\ client[th] \in Client

CoreInit ==
    /\ keys = {}
    /\ core_pc = [th \in Thread |-> "idle"]
    /\ client = [th \in Thread |-> NoClient]
    /\ visiting = [th \in Thread |-> 1]
    /\ todo = [th \in Thread |-> {}]
    /\ found = [th \in Thread |-> {}]
    /\ steady = [th \in Thread |-> {}]
    /\ seen = [th \in Thread |-> {}]
    /\ excused = [th \in Thread |-> {}]

(* KeyInfoManagerClient::list_keys and list_clients, of one provider.      *)
ListKeys(p, a) == {k \in keys : k.provider = p /\ k.app = a}
ListClients(p) == {k.app : k \in {m \in keys : m.provider = p}}

Position(k) == CHOOSE i \in DOMAIN ProvList : ProvList[i] = k.provider
Lists(th) == core_pc[th] \in {"list_keys", "list_clients"}
Deletes(th) == core_pc[th] \in {"delete_client", "destroy"}

(* delete_client has asked the provider of the key for its list.           *)
Asked(th, k) ==
    /\ Deletes(th) /\ client[th] = k.app
    /\ Position(k) < visiting[th] \/ (Position(k) = visiting[th] /\ core_pc[th] = "destroy")

---------------------------------------------------------------------------
(* The other threads: psa_generate_key, psa_import_key, psa_destroy_key.   *)

Create(k) ==
    /\ k \notin keys
    /\ keys' = keys \cup {k}
    /\ seen' = [th \in Thread |-> IF Lists(th) THEN seen[th] \cup {k} ELSE seen[th]]
    /\ excused' = [th \in Thread |->
                      IF Asked(th, k) /\ ~(Position(k) = visiting[th] /\ k.name \in todo[th])
                      THEN excused[th] \cup {k} ELSE excused[th]]
    /\ UNCHANGED <<walk, steady>>

Destroy(k) ==
    /\ k \in keys
    /\ keys' = keys \ {k}
    /\ steady' = [th \in Thread |-> steady[th] \ {k}]
    /\ excused' = [th \in Thread |-> excused[th] \ {k}]
    /\ UNCHANGED <<walk, seen>>
---------------------------------------------------------------------------
Begin(th, op, a) ==
    /\ core_pc[th] = "idle"
    /\ core_pc' = [core_pc EXCEPT ![th] = op]
    /\ client' = [client EXCEPT ![th] = a]
    /\ steady' = [steady EXCEPT ![th] = IF op = "delete_client" THEN {} ELSE keys]
    /\ seen' = [seen EXCEPT ![th] = IF op = "delete_client" THEN {} ELSE keys]
    /\ UNCHANGED <<keys, visiting, todo, found, excused>>

Here(th) == ProvList[visiting[th]]
Visits(th, op) == core_pc[th] = op /\ visiting[th] <= Len(ProvList)
Advance(th) == visiting' = [visiting EXCEPT ![th] = @ + 1]

VisitKeys_Overwrites(th) ==   \* mutant: the result of the provider replaces the others'
    /\ Visits(th, "list_keys")
    /\ found' = [found EXCEPT ![th] = ListKeys(Here(th), client[th])]
    /\ Advance(th)
    /\ UNCHANGED <<keys, core_pc, client, todo, history>>

(* One turn of the loop of list_keys.                                      *)
VisitKeys(th) ==
    /\ Visits(th, "list_keys")
    /\ found' = [found EXCEPT ![th] = @ \cup ListKeys(Here(th), client[th])]
    /\ Advance(th)
    /\ UNCHANGED <<keys, core_pc, client, todo, history>>

(* One turn of the loop of list_clients; the result has no duplicates.     *)
VisitClients(th) ==
    /\ Visits(th, "list_clients")
    /\ found' = [found EXCEPT ![th] = @ \cup ListClients(Here(th))]
    /\ Advance(th)
    /\ UNCHANGED <<keys, core_pc, client, todo, history>>

VisitToDelete(th) ==
    /\ Visits(th, "delete_client")
    /\ core_pc' = [core_pc EXCEPT ![th] = "destroy"]
    /\ todo' = [todo EXCEPT ![th] = {k.name : k \in ListKeys(Here(th), client[th])}]
    /\ UNCHANGED <<keys, client, visiting, found, history>>

(* unwrap_or_else: nothing of this provider.                               *)
VisitError(th) ==
    /\ \E op \in {"list_keys", "list_clients", "delete_client"} : Visits(th, op)
    /\ "list" \in CoreFaults
    /\ Advance(th)
    /\ steady' = [steady EXCEPT ![th] = {k \in @ : k.provider # Here(th)}]
    /\ excused' = [excused EXCEPT ![th] =
                      IF Deletes(th) THEN @ \cup ListKeys(Here(th), client[th]) ELSE @]
    /\ UNCHANGED <<keys, core_pc, client, todo, found, seen>>

Target(th, n) == [provider |-> Here(th), app |-> client[th], name |-> n]

(* psa_destroy_key of one listed key; one that is gone is no error to      *)
(* delete_client.                                                          *)
DestroyKey(th, n) ==
    /\ core_pc[th] = "destroy" /\ n \in todo[th]
    /\ todo' = [todo EXCEPT ![th] = @ \ {n}]
    /\ keys' = keys \ {Target(th, n)}
    /\ steady' = [other \in Thread |-> steady[other] \ {Target(th, n)}]
    /\ excused' = [other \in Thread |-> excused[other] \ {Target(th, n)}]
    /\ UNCHANGED <<core_pc, client, visiting, found, seen>>

DestroyError_GivesUp(th, n) ==   \* mutant: `?` instead of unwrap_or_else
    /\ core_pc[th] = "destroy" /\ n \in todo[th]
    /\ "destroy" \in CoreFaults
    /\ todo' = [todo EXCEPT ![th] = {}]
    /\ excused' = [excused EXCEPT ![th] = @ \cup (keys \cap {Target(th, n)})]
    /\ UNCHANGED <<keys, core_pc, client, visiting, found, steady, seen>>

(* The key may stay; delete_client goes on with the next one.              *)
DestroyError(th, n) ==
    /\ core_pc[th] = "destroy" /\ n \in todo[th]
    /\ "destroy" \in CoreFaults
    /\ todo' = [todo EXCEPT ![th] = @ \ {n}]
    /\ excused' = [excused EXCEPT ![th] = @ \cup (keys \cap {Target(th, n)})]
    /\ UNCHANGED <<keys, core_pc, client, visiting, found, steady, seen>>

NextProvider_Relists(th) ==   \* mutant: the provider is asked again until it has none
    /\ core_pc[th] = "destroy" /\ todo[th] = {}
    /\ core_pc' = [core_pc EXCEPT ![th] = "delete_client"]
    /\ IF ListKeys(Here(th), client[th]) = {} THEN Advance(th) ELSE UNCHANGED visiting
    /\ UNCHANGED <<keys, client, todo, found, history>>

NextProvider(th) ==
    /\ core_pc[th] = "destroy" /\ todo[th] = {}
    /\ core_pc' = [core_pc EXCEPT ![th] = "delete_client"]
    /\ Advance(th)
    /\ UNCHANGED <<keys, client, todo, found, history>>

(* Success.                                                                *)
Answer(th) ==
    /\ core_pc[th] # "idle" /\ visiting[th] > Len(ProvList)
    /\ core_pc' = [core_pc EXCEPT ![th] = "idle"]
    /\ client' = [client EXCEPT ![th] = NoClient]
    /\ visiting' = [visiting EXCEPT ![th] = 1]
    /\ found' = [found EXCEPT ![th] = {}]
    /\ steady' = [steady EXCEPT ![th] = {}]
    /\ seen' = [seen EXCEPT ![th] = {}]
    /\ excused' = [excused EXCEPT ![th] = {}]
    /\ UNCHANGED <<keys, todo>>

Step(th) ==
    \/ VisitKeys(th) \/ VisitClients(th) \/ VisitToDelete(th) \/ VisitError(th)
    \/ \E n \in KeyName : DestroyKey(th, n) \/ DestroyError(th, n)
    \/ NextProvider(th) \/ Answer(th)

CoreNext ==
    \/ \E th \in Thread :
          \/ Step(th)
          \/ \E a \in Client : Begin(th, "list_keys", a) \/ Begin(th, "delete_client", a)
          \/ Begin(th, "list_clients", NoClient)
    \/ \E k \in Key : Create(k) \/ Destroy(k)

CoreSpec == CoreInit /\ [][CoreNext]_coreVars

(* The operating system schedules every thread.                            *)
CoreFairSpec == CoreSpec /\ \A th \in Thread : WF_coreVars(Step(th))
---------------------------------------------------------------------------
(* When delete_client answers Success, and at each provider that it has    *)
(* passed, all keys of the client are gone ("Delete all data a client has  *)
(* in the service"), also those that other requests destroyed and created  *)
(* again meanwhile, except what was created after the provider had been    *)
(* asked for its list, and what the provider failed to list or to destroy. *)
DeletedUnlessExcused ==
    \A th \in Thread : \A k \in keys :
        Asked(th, k) =>
            \/ k \in excused[th]
            \/ Position(k) = visiting[th] /\ k.name \in todo[th]

(* What list_keys and list_clients return has every key, and every client  *)
(* with a key, that was there during the whole request, of each provider   *)
(* that did not fail, and only what was there at some time of it; although *)
(* no lock spans the providers.                                            *)
Reported(th, k) == IF core_pc[th] = "list_keys" THEN k ELSE k.app
Asks(th, k) == core_pc[th] = "list_clients" \/ k.app = client[th]

ListsAreHonest ==
    \A th \in Thread : Lists(th) =>
        /\ \A k \in steady[th] :
              Asks(th, k) /\ Position(k) < visiting[th] => Reported(th, k) \in found[th]
        /\ found[th] \subseteq {Reported(th, k) : k \in {m \in seen[th] : Asks(th, m)}}

(* Every request to the core provider ends, while clients go on creating   *)
(* the keys that delete_client destroys.                                   *)
WalksEnd == \A th \in Thread : core_pc[th] # "idle" ~> core_pc[th] = "idle"
---------------------------------------------------------------------------
(* The inductive invariant.                                                *)

(* A request begins with the first provider and an empty result, for a     *)
(* client unless it lists them.                                            *)
BeginsAnew ==
    \A th \in Thread :
        /\ core_pc[th] = "idle" => visiting[th] = 1 /\ found[th] = {}
        /\ core_pc[th] \in {"list_keys", "delete_client"} => client[th] \in Client

(* A key that was there all the time is there, and what is there was seen. *)
HistoryIsTrue ==
    \A th \in Thread :
        /\ steady[th] \subseteq keys
        /\ Lists(th) => keys \subseteq seen[th]

CoreInv ==
    CoreTypeOK /\ BeginsAnew /\ HistoryIsTrue /\ DeletedUnlessExcused /\ ListsAreHonest
===========================================================================
