----------------------------- MODULE MCService -----------------------------
(* The service around the providers, for TLC.  One behaviour is one of:    *)
(* main with its loop and its thread pool; a request on its way to a       *)
(* provider; the requests to the core provider.  The state of the other    *)
(* two stays what it was initially.                                        *)
EXTENDS Service

CONSTANTS appA, appB

VARIABLE part

mcvars == <<part, vars, frontVars, coreVars>>

(* "both" is a good configuration and "one" has a thread only; "twice" and *)
(* "none" are refused.                                                     *)
MCConfig == {"both", "one", "twice", "none"}
MCProviders == [c \in MCConfig |-> CASE c = "both" -> <<"mbed_crypto", "tpm">>
                                     [] c = "one" -> <<"tpm">>
                                     [] c = "twice" -> <<"mbed_crypto", "mbed_crypto">>
                                     [] c = "none" -> <<>>]
MCPoolSize == [c \in MCConfig |-> IF c = "both" THEN 2 ELSE 1]

MCKind == {"mbed_crypto", "tpm"}
MCAllowRoot == {"both"}

(* Every opcode at every provider in a well-formed request, and every      *)
(* combination of defects for some opcodes.  pkcs11 is not registered.     *)
MCBackend == {"core", "mbed_crypto", "pkcs11", "tpm", "cryptoauthlib", "trusted_service"}
MCRegistered == MCBackend \ {"core", "pkcs11"}
MCOpcode == {"Ping", "ListProviders", "ListOpcodes", "ListAuthenticators", "ListKeys",
             "ListClients", "DeleteClient", "PsaGenerateKey", "PsaDestroyKey", "PsaSignHash",
             "PsaVerifyHash", "PsaImportKey", "PsaExportKey", "PsaExportPublicKey",
             "PsaAsymmetricDecrypt", "PsaAsymmetricEncrypt", "PsaAeadEncrypt",
             "PsaAeadDecrypt", "PsaHashCompare", "PsaHashCompute", "PsaRawKeyAgreement",
             "PsaGenerateRandom", "PsaSignMessage", "PsaVerifyMessage"}
MCRequest ==
    [provider : MCBackend, opcode : MCOpcode,
     auth_type : {"NoAuth", "Direct", "UnixPeerCredentials", "JwtSvid"},
     buffer : {appA}, types : {"ok"}, body : {"ok"}]
    \cup
    [provider : {"core", "tpm", "pkcs11"},
     opcode : {"Ping", "ListKeys", "DeleteClient", "PsaSignHash", "PsaGenerateRandom"},
     auth_type : {"NoAuth", "Direct", "UnixPeerCredentials"},
     buffer : {appA, appB, "empty", "invalid"},
     types : {"ok", "content", "accept"}, body : {"ok", "undecodable", "unreadable"}]

MCKeyName == {"n1", "n2"}
MCProvider == {"p1", "p2"}
MCProvList == <<"p1", "p2">>
MCKey == LET K(p, a, n) == [provider |-> p, app |-> a, name |-> n]
         IN  {K("p1", appA, "n1"), K("p1", appA, "n2"), K("p2", appA, "n1"),
              K("p1", appB, "n1"), K("p2", appB, "n2")}

(* Where the request of the front end stays while another part moves.      *)
Idle ==
    /\ request = [provider |-> "tpm", opcode |-> "PsaSignHash", auth_type |-> "NoAuth",
                  buffer |-> appA, types |-> "ok", body |-> "ok"]
    /\ peer = appA /\ authenticator = "Direct"

MCInit ==
    /\ part \in {"loop", "front", "core"}
    /\ part # "front" => Idle
    /\ Init /\ FrontInit /\ CoreInit

NextLoop == part = "loop" /\ Next /\ UNCHANGED <<part, frontVars, coreVars>>
NextFront == part = "front" /\ FrontNext /\ UNCHANGED <<part, vars, coreVars>>
NextCore == part = "core" /\ CoreNext /\ UNCHANGED <<part, vars, frontVars>>

StepOfMain == part = "loop" /\ Main /\ UNCHANGED <<part, frontVars, coreVars>>
StartOfJob == part = "loop" /\ StartJob /\ UNCHANGED <<part, frontVars, coreVars>>
EndOfJob(c) == part = "loop" /\ EndJob(c) /\ UNCHANGED <<part, frontVars, coreVars>>
Walk(th) == part = "core" /\ Step(th) /\ UNCHANGED <<part, vars, frontVars>>

(* The fairness of FairSpec and CoreFairSpec.                              *)
MCSpec ==
    /\ MCInit /\ [][NextLoop \/ NextFront \/ NextCore]_mcvars
    /\ WF_mcvars(StepOfMain) /\ WF_mcvars(StartOfJob)
    /\ \A c \in Conn : WF_mcvars(EndOfJob(c))
    /\ \A th \in Thread : WF_mcvars(Walk(th))
===========================================================================
