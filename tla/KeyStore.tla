------------------------------ MODULE KeyStore ------------------------------
(***************************************************************************)
(* What a provider promises to clients that wait for their answers: one    *)
(* map from key triples to keys.  However many steps a request takes in    *)
(* the backend and the key info manager, it changes the key of its own     *)
(* triple, once, and only between its begin and its end; its answer is     *)
(* true of the map; the map outlives the process and every failed call.    *)
(***************************************************************************)
CONSTANTS
    Thread,     (* worker threads of the service                           *)
    KeyTriple,  (* the (application, provider, key name) triples requested *)
    Key,        (* keys of the backend                                     *)
    NoKey,      (* no key under a triple                                   *)
    NoTriple,   (* the triple of an idle thread                            *)
    Durable     (* the provider keeps its keys when it is built anew       *)

VARIABLES
    status,     (* "up", "draining" or "down"                              *)
    kind,       (* per thread: what its request may still do: "create",    *)
                (* "destroy", "use" the key, or only "end"; or "idle"      *)
    triple,     (* per thread: the triple of its request                   *)
    key,        (* per triple: the key a client reaches under it           *)
    known       (* per triple: what the last answer about it said          *)

requests == <<kind, triple>>
storeVars == <<status, kind, triple, key, known>>

KeyStoreInit ==
    /\ status = "down"
    /\ kind = [th \in Thread |-> "idle"]
    /\ triple = [th \in Thread |-> NoTriple]
    /\ key = [t \in KeyTriple |-> NoKey]
    /\ known = [t \in KeyTriple |-> "absent"]

---------------------------------------------------------------------------
(* An answer k about t is true of the map, or says nothing.                *)
True(t, k) ==
    \/ k = "exists" /\ key[t] # NoKey
    \/ k = "absent" /\ key[t] = NoKey
    \/ k = "unsure"

Arrives(th, t) ==
    /\ status = "up"
    /\ kind[th] = "idle"
    /\ \A other \in Thread : triple[other] # t

Tell(t, k) == known' = [known EXCEPT ![t] = k]

(* The request is over at once, without effect.                            *)
Refuse(th, t, k) ==
    /\ Arrives(th, t)
    /\ True(t, k)
    /\ Tell(t, k)
    /\ UNCHANGED <<status, requests, key>>

(* A request that may change the key; one that uses it.                    *)
Begin(th, t, request) ==
    /\ Arrives(th, t)
    /\ kind' = [kind EXCEPT ![th] = request]
    /\ triple' = [triple EXCEPT ![th] = t]
    /\ IF request = "use" THEN UNCHANGED known ELSE Tell(t, "unsure")
    /\ UNCHANGED <<status, key>>

End(th, k) ==
    /\ kind' = [kind EXCEPT ![th] = "idle"]
    /\ triple' = [triple EXCEPT ![th] = NoTriple]
    /\ Tell(triple[th], k)
    /\ UNCHANGED status

(* A creation ends with a key that no other triple has.                    *)
Create(th, k) ==
    /\ kind[th] = "create"
    /\ key[triple[th]] = NoKey
    /\ \A t \in KeyTriple : key[t] # k
    /\ key' = [key EXCEPT ![triple[th]] = k]
    /\ End(th, "exists")

(* A destruction takes the key away before it ends, or at once.            *)
Destroy(th) ==
    /\ kind[th] = "destroy"
    /\ kind' = [kind EXCEPT ![th] = "end"]
    /\ key' = [key EXCEPT ![triple[th]] = NoKey]
    /\ UNCHANGED <<status, triple, known>>

DestroyAtOnce(th, t) ==
    /\ Arrives(th, t)
    /\ key' = [key EXCEPT ![t] = NoKey]
    /\ Tell(t, "absent")
    /\ UNCHANGED <<status, requests>>

(* A creation has failed and undoes what it has done, which nobody sees.   *)
GiveUp(th) ==
    /\ kind[th] = "create"
    /\ kind' = [kind EXCEPT ![th] = "end"]
    /\ UNCHANGED <<status, triple, key, known>>

(* The answer of a request that has no effect, or has had it.  One that    *)
(* has used the key may leave the client as wise as it was.                *)
Answer(th, k) ==
    /\ kind[th] # "idle"
    /\ True(triple[th], k) \/ (kind[th] = "use" /\ k = known[triple[th]])
    /\ End(th, k)
    /\ UNCHANGED key
---------------------------------------------------------------------------
Drain ==
    /\ status = "up"
    /\ status' = "draining"
    /\ UNCHANGED <<requests, key, known>>

Join ==
    /\ status = "draining"
    /\ \A th \in Thread : kind[th] = "idle"
    /\ status' = "down"
    /\ UNCHANGED <<requests, key, known>>

(* The process dies; the map is what it was.                               *)
Crash ==
    /\ status # "down"
    /\ status' = "down"
    /\ kind' = [th \in Thread |-> "idle"]
    /\ triple' = [th \in Thread |-> NoTriple]
    /\ known' = [t \in KeyTriple |->
                    IF \E th \in Thread : triple[th] = t THEN "unsure" ELSE known[t]]
    /\ UNCHANGED key

(* The provider is built from what is on disk and in the backend, or that  *)
(* fails.                                                                  *)
Start ==
    /\ status = "down"
    /\ status' \in {"up", "down"}
    /\ \E lost \in SUBSET KeyTriple :
          /\ Durable => lost = {}
          /\ key' = [t \in KeyTriple |-> IF t \in lost THEN NoKey ELSE key[t]]
    /\ UNCHANGED <<requests, known>>
---------------------------------------------------------------------------
KeyStoreNext ==
    \/ \E th \in Thread, t \in KeyTriple :
          \/ \E k \in {"exists", "absent"} : Refuse(th, t, k)
          \/ \E request \in {"create", "destroy", "use"} : Begin(th, t, request)
          \/ DestroyAtOnce(th, t)
    \/ \E th \in Thread :
          \/ \E k \in Key : Create(th, k)
          \/ Destroy(th) \/ GiveUp(th)
          \/ \E k \in {"exists", "absent", "unsure"} : Answer(th, k)
    \/ Drain \/ Join \/ Crash \/ Start

KeyStoreSpec == KeyStoreInit /\ [][KeyStoreNext]_storeVars

(* What an answer said of a key stays true until the next request about    *)
(* its triple, so a key that was destroyed does not come back.             *)
AnswersHold ==
    \A t \in KeyTriple :
        /\ Durable /\ known[t] = "exists" => key[t] # NoKey
        /\ known[t] = "absent" => key[t] = NoKey
===========================================================================
