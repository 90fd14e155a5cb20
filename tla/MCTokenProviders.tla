-------------------------- MODULE MCTokenProviders --------------------------
(* The PKCS 11 and the Trusted Service provider for TLC: one behaviour is  *)
(* a run of the service with one of them, and the state of the other stays *)
(* as it was initially.                                                    *)
EXTENDS Pkcs11, Integers, TLC

CONSTANT IdMax

VARIABLES provider,
          ts_status, ts_key_info, ts_stored, ts_keys, ts_id_counter,
          ts_pc, ts_triple, ts_key_id, ts_known

trusted == <<ts_status, ts_key_info, ts_stored, ts_keys, ts_id_counter,
             ts_pc, ts_triple, ts_key_id, ts_known>>
mcvars == <<provider, vars, trusted>>

S == INSTANCE TrustedService WITH
        IdMin <- 1, Overlap <- TRUE, Faults <- {"crash", "kim", "rpc"},
        status <- ts_status, key_info <- ts_key_info, stored <- ts_stored,
        keys <- ts_keys, id_counter <- ts_id_counter, pc <- ts_pc,
        triple <- ts_triple, key_id <- ts_key_id, known <- ts_known

ASSUME TokenProvidersAssumption == Pkcs11Assumption /\ S!TrustedServiceAssumption

MCInit == provider \in {"pkcs11", "trusted"} /\ Init /\ S!Init

NextPkcs11 == provider = "pkcs11" /\ Next /\ UNCHANGED <<provider, trusted>>
NextTrusted == provider = "trusted" /\ S!Next /\ UNCHANGED <<provider, vars>>

MCSpec == MCInit /\ [][NextPkcs11 \/ NextTrusted]_mcvars

(* Threads are alike, and so are triples.                                  *)
MCSymmetry == Permutations(Thread) \cup Permutations(KeyTriple)
---------------------------------------------------------------------------
(* TrustedService: no id leads to the key of another triple.               *)
SecureKeyIsOwn == S!SecureKeyIsOwn

(* TrustedService: only a rollback takes the key of a mapping away.        *)
DeadMappingsFromRollback == S!DeadMappingsFromRollback
===========================================================================
