----------------------- MODULE KeyInfoManagerClient -----------------------
(***************************************************************************)
(* key_info_managers/mod.rs as one provider sees it: the map from its key  *)
(* triples to the ids of the keys in its backend.  Every operation of the  *)
(* client takes the RwLock for itself, so each is one step.  An operation  *)
(* that fails leaves the map alone, but a failed overwrite may already     *)
(* have lost the file (OnDiskKeyInfoManager): `stored` is what a restart   *)
(* would read back.                                                        *)
(***************************************************************************)
CONSTANTS KeyTriple,
          NoId       (* no mapping *)

VARIABLES key_info,  (* the map, as get_key_id and does_not_exist read it  *)
          stored     (* the map that is on disk                            *)

KimTypeOK(Ids) ==
    /\ key_info \in [KeyTriple -> Ids \cup {NoId}]
    /\ stored \in [KeyTriple -> Ids \cup {NoId}]

KimInit ==
    /\ key_info = [t \in KeyTriple |-> NoId]
    /\ stored = [t \in KeyTriple |-> NoId]

Exists(t) == key_info[t] # NoId

InsertKeyInfo_CacheOnly(t, id) ==   \* mutant: the file is not written
    /\ key_info' = [key_info EXCEPT ![t] = id]
    /\ UNCHANGED stored

(* insert_key_info.  The map is overwritten in any case; the answer is an  *)
(* error, PsaErrorAlreadyExists, when Exists(t) held before.               *)
InsertKeyInfo(t, id) ==
    /\ key_info' = [key_info EXCEPT ![t] = id]
    /\ stored' = [stored EXCEPT ![t] = id]

(* insert_key_info answers KeyInfoManagerError.                            *)
InsertKeyInfoError(t) ==
    /\ stored' \in {stored, [stored EXCEPT ![t] = NoId]}
    /\ UNCHANGED key_info

RemoveKeyInfo_CacheOnly(t) ==   \* mutant: the file stays
    /\ key_info' = [key_info EXCEPT ![t] = NoId]
    /\ UNCHANGED stored

(* remove_key_info; PsaErrorDoesNotExist when Exists(t) did not hold.      *)
RemoveKeyInfo(t) ==
    /\ key_info' = [key_info EXCEPT ![t] = NoId]
    /\ stored' = [stored EXCEPT ![t] = NoId]

(* The manager is built anew from the files, and the provider then removes *)
(* the mappings of the triples in `bad`.                                   *)
ReloadWithout(bad) ==
    /\ stored' = [t \in KeyTriple |-> IF t \in bad THEN NoId ELSE stored[t]]
    /\ key_info' = stored'
===========================================================================
