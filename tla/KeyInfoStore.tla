--------------------------- MODULE KeyInfoStore ---------------------------
(***************************************************************************)
(* What a key info manager promises to the providers (the ManageKeyInfo    *)
(* trait, key_info_managers/mod.rs): a persistent map from key triples to  *)
(* key information.                                                        *)
(*                                                                         *)
(* One modification is under way at a time (the write lock of the client). *)
(* While the triple `busy` is being modified its persistent copy may stop  *)
(* agreeing with `mapping`; the triples where it disagrees are `doubt`.  A *)
(* restart may change the mapping of the triples in doubt and of no other. *)
(***************************************************************************)
CONSTANTS KeyTriple, KeyInfo,
          NoInfo,     (* no mapping for a triple            *)
          NoTriple    (* no modification is under way       *)

VARIABLES mapping,    (* what the readers of the map see    *)
          busy,       (* the triple being modified          *)
          doubt,      (* triples that a restart may change  *)
          serving     (* the manager answers requests       *)

storeVars == <<mapping, busy, doubt, serving>>

StoreInit ==
    /\ mapping = [t \in KeyTriple |-> NoInfo]
    /\ busy = NoTriple
    /\ doubt = {}
    /\ serving = FALSE

Begin(t) ==
    /\ serving
    /\ busy = NoTriple
    /\ busy' = t
    /\ UNCHANGED <<mapping, doubt, serving>>

(* A step of the modification on the persistent copy of the busy triple.   *)
Touch ==
    /\ busy # NoTriple
    /\ doubt' \in {doubt \cup {busy}, doubt \ {busy}}
    /\ UNCHANGED <<mapping, busy, serving>>

(* The modification succeeds: memory and the persistent copy agree on v.   *)
Apply(v) ==
    /\ busy # NoTriple
    /\ mapping' = [mapping EXCEPT ![busy] = v]
    /\ doubt' = doubt \ {busy}
    /\ busy' = NoTriple
    /\ UNCHANGED serving

(* The modification fails: readers keep seeing the old mapping.            *)
Abandon ==
    /\ busy # NoTriple
    /\ busy' = NoTriple
    /\ UNCHANGED <<mapping, doubt, serving>>

Stop ==
    /\ serving
    /\ serving' = FALSE
    /\ busy' = NoTriple
    /\ UNCHANGED <<mapping, doubt>>

Restore ==
    /\ ~serving
    /\ serving' = TRUE
    /\ mapping' \in [KeyTriple -> KeyInfo \cup {NoInfo}]
    /\ \A t \in KeyTriple \ doubt : mapping'[t] = mapping[t]
    /\ doubt' = {}
    /\ UNCHANGED busy

StoreNext ==
    \/ \E t \in KeyTriple : Begin(t)
    \/ Touch
    \/ \E v \in KeyInfo \cup {NoInfo} : Apply(v)
    \/ Abandon
    \/ Stop
    \/ Restore

StoreSpec == StoreInit /\ [][StoreNext]_storeVars
===========================================================================
