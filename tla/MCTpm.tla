-------------------------------- MODULE MCTpm --------------------------------
(* The TPM provider for TLC, and the PKCS 11 provider under fairness with  *)
(* requests that overlap: one behaviour is a run of the service with one   *)
(* of them, and the state of the other stays as it was initially.          *)
EXTENDS Tpm

CONSTANTS TokenId, TokenTriple

VARIABLES provider,
          p11_status, p11_key_info, p11_stored, p11_objects, p11_local_ids, p11_psa_key,
          p11_pc, p11_triple, p11_key_id, p11_known, p11_leftovers

pkcs11 == <<p11_status, p11_key_info, p11_stored, p11_objects, p11_local_ids, p11_psa_key,
            p11_pc, p11_triple, p11_key_id, p11_known, p11_leftovers>>
mcvars == <<provider, vars, pkcs11>>

P == INSTANCE Pkcs11 WITH
        Id <- TokenId, KeyTriple <- TokenTriple, Overlap <- TRUE,
        Faults <- {"crash", "kim", "token", "data", "psa"},
        status <- p11_status, key_info <- p11_key_info, stored <- p11_stored,
        objects <- p11_objects, local_ids <- p11_local_ids, psa_key <- p11_psa_key,
        pc <- p11_pc, triple <- p11_triple, key_id <- p11_key_id, known <- p11_known,
        leftovers <- p11_leftovers

ASSUME MCTpmAssumption == TpmAssumption /\ P!Pkcs11Assumption

MCInit == provider \in {"tpm", "pkcs11"} /\ Init /\ P!Init

NextTpm == provider = "tpm" /\ Next /\ UNCHANGED <<provider, pkcs11>>
NextPkcs11 == provider = "pkcs11" /\ P!Next /\ UNCHANGED <<provider, vars>>

(* The steps of one thread, and the join of main, in whichever provider.   *)
StepOf(th) ==
    \/ provider = "tpm" /\ Step(th) /\ UNCHANGED <<provider, pkcs11>>
    \/ provider = "pkcs11" /\ P!Step(th) /\ UNCHANGED <<provider, vars>>

JoinedOf ==
    \/ provider = "tpm" /\ Joined /\ UNCHANGED <<provider, pkcs11>>
    \/ provider = "pkcs11" /\ P!Joined /\ UNCHANGED <<provider, vars>>

MCSpec ==
    /\ MCInit /\ [][NextTpm \/ NextPkcs11]_mcvars
    /\ \A th \in Thread : WF_mcvars(StepOf(th))
    /\ WF_mcvars(JoinedOf)
---------------------------------------------------------------------------
(* Pkcs11: stop and reload terminate while ids are left.                   *)
TokenDrainEnds == P!TokenDrainEnds
===========================================================================
