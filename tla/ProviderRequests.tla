-------------------------- MODULE ProviderRequests --------------------------
(***************************************************************************)
(* The requests that the threads of the service serve in one provider, and *)
(* the service around it: what the modules of the providers share.  A      *)
(* request about a key triple is a sequence of steps of one thread; its    *)
(* locals are the triple and the id or slot of the key it works on.        *)
(***************************************************************************)
CONSTANTS
    Thread,     (* worker threads of the service                           *)
    KeyTriple,  (* the (application, provider, key name) triples requested *)
    NoTriple,   (* the triple of an idle thread                            *)
    NoId,       (* the id of a request that has none yet                   *)
    Overlap,    (* requests about one triple may overlap in time           *)
    Faults      (* what may fail                                           *)

VARIABLES
    status,     (* "up", "draining": main joins the threads, or "down"     *)
    pc,         (* per thread: next step of its request                    *)
    triple,     (* per thread: the triple of its request                   *)
    key_id,     (* per thread: the local variable with the id of the key   *)
    known       (* history: per triple, what the last answer about it said *)

RequestTypeOK(Steps) ==
    /\ status \in {"up", "draining", "down"}
    /\ pc \in [Thread -> Steps \cup {"idle"}]
    /\ triple \in [Thread -> KeyTriple \cup {NoTriple}]
    /\ \A th \in Thread : pc[th] # "idle" <=> triple[th] # NoTriple
    /\ known \in [KeyTriple -> {"exists", "absent", "unsure"}]

(* A fresh installation, the service not yet started.                      *)
RequestInit ==
    /\ status = "down"
    /\ pc = [th \in Thread |-> "idle"]
    /\ triple = [th \in Thread |-> NoTriple]
    /\ key_id = [th \in Thread |-> NoId]
    /\ known = [t \in KeyTriple |-> "absent"]

---------------------------------------------------------------------------
Fails(fault) == fault \in Faults

Goto(th, from, to) ==
    /\ pc[th] = from
    /\ pc' = [pc EXCEPT ![th] = to]

(* A request about t arrives at an idle thread.  Without Overlap a client  *)
(* waits for the answer before it sends another request about t.           *)
Arrives(th, t) ==
    /\ status = "up"
    /\ pc[th] = "idle"
    /\ Overlap \/ \A other \in Thread : triple[other] # t

(* It goes on at step `to` with the id it has read, if any; until it is    *)
(* answered, k is what the client knows.                                   *)
Begin(th, t, to, id, k) ==
    /\ Arrives(th, t)
    /\ Goto(th, "idle", to)
    /\ triple' = [triple EXCEPT ![th] = t]
    /\ key_id' = [key_id EXCEPT ![th] = id]
    /\ known' = [known EXCEPT ![t] = k]
    /\ UNCHANGED status

(* It is answered at once.                                                 *)
Refuse(th, t, k) ==
    /\ Arrives(th, t)
    /\ known' = [known EXCEPT ![t] = k]
    /\ UNCHANGED <<status, pc, triple, key_id>>

(* The request of th ends with an answer that says k about its triple.     *)
Answer(th, k) ==
    /\ pc' = [pc EXCEPT ![th] = "idle"]
    /\ triple' = [triple EXCEPT ![th] = NoTriple]
    /\ key_id' = [key_id EXCEPT ![th] = NoId]
    /\ known' = [known EXCEPT ![triple[th]] = k]
    /\ UNCHANGED status

---------------------------------------------------------------------------
(* main accepts no more connections and the queue of the pool is empty:    *)
(* the point after which no request starts.                                *)
StopArrivals ==
    /\ status = "up"
    /\ status' = "draining"
    /\ UNCHANGED <<pc, triple, key_id, known>>

(* The join returns and main drops the provider (stop or reload).          *)
JoinThreads ==
    /\ status = "draining"
    /\ \A th \in Thread : pc[th] = "idle"
    /\ status' = "down"
    /\ UNCHANGED <<pc, triple, key_id, known>>

(* The process dies; the clients of its requests get no answer.            *)
LoseThreads ==
    /\ Fails("crash")
    /\ status # "down"
    /\ status' = "down"
    /\ pc' = [th \in Thread |-> "idle"]
    /\ triple' = [th \in Thread |-> NoTriple]
    /\ key_id' = [th \in Thread |-> NoId]
    /\ known' = [t \in KeyTriple |->
                    IF \E th \in Thread : triple[th] = t THEN "unsure"
                                                         ELSE known[t]]
---------------------------------------------------------------------------
(* What each thread may still do for its client (KeyStore), told from the  *)
(* step it is at.                                                          *)
RequestKinds(creating, destroying, using) ==
    [th \in Thread |->
        IF pc[th] = "idle" THEN "idle"
        ELSE IF pc[th] \in creating THEN "create"
        ELSE IF pc[th] \in destroying THEN "destroy"
        ELSE IF pc[th] \in using THEN "use" ELSE "end"]
===========================================================================
