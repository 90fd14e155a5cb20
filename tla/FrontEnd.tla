------------------------------ MODULE FrontEnd ------------------------------
(***************************************************************************)
(* One request on its way through the service: the front end handler reads *)
(* it and has it authenticated, the dispatcher finds the back end handler  *)
(* of the provider, the handler checks what it may do and calls the method *)
(* of the provider, and the answer is written back.  Threads share nothing *)
(* on this way; what the methods do is in the modules of the providers.    *)
(***************************************************************************)
CONSTANTS
    App,         (* application names                                      *)
    NoApp,       (* None: a request without authentication                 *)
    Admins,      (* the admins of the configuration                        *)
    Registered,  (* the providers of the configuration                     *)
    Request,     (* the requests that a client may send                    *)
    NoStatus     (* no response yet                                        *)

(* The statuses of responses; an error of a provider counts as one.        *)
Status == {"Success", "ProviderError", "ReadError", "AuthenticationError", "InvalidEncoding",
           "AuthenticatorNotRegistered", "NotAuthenticated", "AdminOperation",
           "ProviderNotRegistered", "PsaErrorNotSupported", "WrongProviderId",
           "ContentTypeNotSupported", "AcceptTypeNotSupported", "DeserializingBodyFailed",
           "SerializingBodyFailed"}

(* What the constants must satisfy; the module that composes this one      *)
(* assumes it.  "empty" and "invalid" are no application names: a field    *)
(* that authenticators read no name from.                                  *)
FrontEndAssumption ==
    /\ NoApp \notin App /\ App \cap {"empty", "invalid"} = {}
    /\ Admins \subseteq App
    /\ Registered \subseteq {"mbed_crypto", "pkcs11", "tpm", "cryptoauthlib",
                             "trusted_service"}
    /\ NoStatus \notin Status

VARIABLES
    request,        (* what the client sends                               *)
    peer,           (* the user at the other end of the socket             *)
    authenticator,  (* the one authenticator of the configuration          *)
    front_pc,       (* next step                                           *)
    app,            (* handle_request: the authenticated application       *)
    response,       (* the status of the response                          *)
    calls           (* the methods called on a provider                    *)

input == <<request, peer, authenticator>>
frontVars == <<request, peer, authenticator, front_pc, app, response, calls>>
---------------------------------------------------------------------------
(* Opcodes, and the methods behind them.                                   *)

(* Opcode::is_core and Opcode::is_admin of the interface crate.            *)
CoreOpcodes == {"Ping", "ListProviders", "ListOpcodes", "ListAuthenticators", "ListKeys",
                "ListClients", "DeleteClient"}
AdminOpcodes == {"ListClients", "DeleteClient"}

(* The arms of execute_request that go on without an application.          *)
Anonymous == {"Ping", "ListProviders", "ListOpcodes", "ListAuthenticators",
              "ListClients", "DeleteClient",
              "PsaHashCompute", "PsaHashCompare", "PsaGenerateRandom"}

(* What every provider must implement, since the trait has no default.     *)
Required == {"ListKeys", "ListClients"}

CoreMethods == {"Ping", "ListProviders", "ListOpcodes", "ListAuthenticators", "ListKeys",
                "ListClients", "DeleteClient"}

MbedCryptoMethods == Required \cup
    {"PsaGenerateKey", "PsaImportKey", "PsaExportPublicKey", "PsaExportKey", "PsaDestroyKey",
     "PsaSignHash", "PsaVerifyHash", "PsaAsymmetricEncrypt", "PsaAsymmetricDecrypt",
     "PsaAeadEncrypt", "PsaAeadDecrypt", "PsaHashCompute", "PsaHashCompare",
     "PsaRawKeyAgreement", "PsaGenerateRandom"}

Pkcs11Methods == Required \cup
    {"PsaGenerateKey", "PsaImportKey", "PsaExportPublicKey", "PsaDestroyKey", "PsaSignHash",
     "PsaVerifyHash", "PsaAsymmetricEncrypt", "PsaAsymmetricDecrypt"}

TpmMethods == Required \cup
    {"PsaGenerateKey", "PsaImportKey", "PsaExportPublicKey", "PsaDestroyKey", "PsaSignHash",
     "PsaVerifyHash", "PsaAsymmetricEncrypt", "PsaAsymmetricDecrypt"}

(* With an ATECCx08: each method answers PsaErrorNotSupported unless its   *)
(* opcode is in supported_opcodes.                                         *)
CryptoAuthLibMethods == Required \cup
    {"PsaHashCompute", "PsaHashCompare", "PsaGenerateRandom", "PsaGenerateKey",
     "PsaDestroyKey", "PsaImportKey", "PsaSignHash", "PsaVerifyHash", "PsaSignMessage",
     "PsaVerifyMessage", "PsaExportPublicKey", "PsaExportKey"}

TrustedServiceMethods == Required \cup
    {"PsaGenerateKey", "PsaDestroyKey", "PsaImportKey", "PsaExportPublicKey",
     "PsaExportKey", "PsaGenerateRandom", "PsaSignHash", "PsaVerifyHash"}

Methods(provider) ==
    CASE provider = "core" -> CoreMethods
      [] provider = "mbed_crypto" -> MbedCryptoMethods
      [] provider = "pkcs11" -> Pkcs11Methods
      [] provider = "tpm" -> TpmMethods
      [] provider = "cryptoauthlib" -> CryptoAuthLibMethods
      [] provider = "trusted_service" -> TrustedServiceMethods

(* SUPPORTED_OPCODES, as ListOpcodes returns them.                         *)
CoreSupported == {"ListProviders", "ListOpcodes", "Ping", "ListAuthenticators", "ListKeys"}

MbedCryptoSupported ==
    {"PsaGenerateKey", "PsaDestroyKey", "PsaSignHash", "PsaVerifyHash", "PsaImportKey",
     "PsaExportKey", "PsaExportPublicKey", "PsaAsymmetricDecrypt", "PsaAsymmetricEncrypt",
     "PsaAeadEncrypt", "PsaAeadDecrypt", "PsaHashCompare", "PsaHashCompute",
     "PsaRawKeyAgreement", "PsaGenerateRandom"}

Pkcs11Supported ==
    {"PsaGenerateKey", "PsaDestroyKey", "PsaSignHash", "PsaVerifyHash", "PsaImportKey",
     "PsaExportPublicKey", "PsaAsymmetricDecrypt", "PsaAsymmetricEncrypt"}

TpmSupported ==
    {"PsaGenerateKey", "PsaDestroyKey", "PsaSignHash", "PsaVerifyHash", "PsaImportKey",
     "PsaExportPublicKey", "PsaAsymmetricDecrypt", "PsaAsymmetricEncrypt"}

CryptoAuthLibSupported ==
    {"PsaGenerateKey", "PsaDestroyKey", "PsaHashCompute", "PsaHashCompare",
     "PsaGenerateRandom", "PsaImportKey", "PsaSignHash", "PsaVerifyHash", "PsaSignMessage",
     "PsaVerifyMessage", "PsaExportPublicKey", "PsaExportKey"}

TrustedServiceSupported ==
    {"PsaDestroyKey", "PsaGenerateKey", "PsaSignHash", "PsaVerifyHash", "PsaImportKey",
     "PsaExportPublicKey", "PsaExportKey", "PsaGenerateRandom"}

Supported(provider) ==
    CASE provider = "core" -> CoreSupported
      [] provider = "mbed_crypto" -> MbedCryptoSupported
      [] provider = "pkcs11" -> Pkcs11Supported
      [] provider = "tpm" -> TpmSupported
      [] provider = "cryptoauthlib" -> CryptoAuthLibSupported
      [] provider = "trusted_service" -> TrustedServiceSupported
---------------------------------------------------------------------------
(* A request: provider, opcode, auth_type, buffer (a name, "empty" or      *)
(* "invalid": not UTF-8, not four bytes, no valid token), types: "ok",     *)
(* "content" or "accept" is not protobuf, body: "ok", "undecodable" or     *)
(* "unreadable": the stream fails, or it is above body_len_limit.          *)
FrontTypeOK ==
    /\ request \in Request
    /\ peer \in App
    /\ authenticator \in {"Direct", "UnixPeerCredentials", "JwtSvid"}
    /\ front_pc \in {"read", "authenticate", "dispatch", "execute", "write", "done"}
    /\ app \in App \cup {NoApp}
    /\ response \in Status \cup {NoStatus}
    /\ response = NoStatus <=> front_pc \notin {"write", "done"}
    /\ app # NoApp => request.auth_type = authenticator
    /\ \A c \in calls : c.opcode = request.opcode /\ c.provider = request.provider

FrontInit ==
    /\ request \in Request
    /\ peer \in App
    /\ authenticator \in {"Direct", "UnixPeerCredentials", "JwtSvid"}
    /\ front_pc = "read"
    /\ app = NoApp
    /\ response = NoStatus
    /\ calls = {}

(* A response with the status instead of what is left to do.               *)
Respond(status) ==
    /\ front_pc' = "write"
    /\ response' = status

Proceed(to) == front_pc' = to /\ UNCHANGED response

---------------------------------------------------------------------------
(* FrontEndHandler::handle_request.                                        *)

Read ==
    /\ front_pc = "read"
    /\ IF request.body = "unreadable" THEN Respond("ReadError") ELSE Proceed("authenticate")
    /\ UNCHANGED <<input, app, calls>>

(* DirectAuthenticator::authenticate: the application, or why there is none. *)
Direct(buffer) ==
    IF buffer \in App THEN [app |-> buffer] ELSE [error |-> "AuthenticationError"]

Unix_Claim(buffer) ==   \* mutant: the declared uid is not compared
    IF buffer \in App THEN [app |-> buffer] ELSE [error |-> "AuthenticationError"]

(* UnixPeerCredentialsAuthenticator::authenticate.                         *)
Unix(buffer) ==
    IF buffer \in App /\ buffer = peer
    THEN [app |-> peer] ELSE [error |-> "AuthenticationError"]

(* JwtSvidAuthenticator::authenticate; the Workload API knows whose token  *)
(* it is.                                                                  *)
Jwt(buffer) ==
    CASE buffer = "invalid" -> [error |-> "InvalidEncoding"]
      [] buffer \in App -> [app |-> buffer]
      [] OTHER -> [error |-> "AuthenticationError"]

Authenticated ==
    CASE authenticator = "Direct" -> Direct(request.buffer)
      [] authenticator = "UnixPeerCredentials" -> Unix(request.buffer)
      [] authenticator = "JwtSvid" -> Jwt(request.buffer)

Authenticate ==
    /\ front_pc = "authenticate"
    /\ CASE request.auth_type = "NoAuth" ->
              Proceed("dispatch") /\ UNCHANGED app
         [] request.auth_type = authenticator /\ "app" \in DOMAIN Authenticated ->
              Proceed("dispatch") /\ app' = Authenticated.app
         [] request.auth_type = authenticator /\ "error" \in DOMAIN Authenticated ->
              Respond(Authenticated.error) /\ UNCHANGED app
         [] OTHER ->
              Respond("AuthenticatorNotRegistered") /\ UNCHANGED app
    /\ UNCHANGED <<input, calls>>
---------------------------------------------------------------------------
(* Dispatcher::dispatch_request and BackEndHandler::is_capable.            *)

(* build_backend_handlers.                                                 *)
Backends == Registered \cup {"core"}

IsCapable_CoreOnly(id) ==   \* mutant: only the core provider is asked
    IF id = "core" /\ request.opcode \notin CoreOpcodes THEN "PsaErrorNotSupported"
    ELSE IF request.types = "content" THEN "ContentTypeNotSupported"
    ELSE IF request.types = "accept" THEN "AcceptTypeNotSupported"
    ELSE "Success"

IsCapable(id) ==
    IF (id = "core") # (request.opcode \in CoreOpcodes) THEN "PsaErrorNotSupported"
    ELSE IF request.provider # id THEN "WrongProviderId"
    ELSE IF request.types = "content" THEN "ContentTypeNotSupported"
    ELSE IF request.types = "accept" THEN "AcceptTypeNotSupported"
    ELSE "Success"

Dispatch ==
    /\ front_pc = "dispatch"
    /\ IF request.provider \notin Backends THEN Respond("ProviderNotRegistered")
       ELSE IF IsCapable(request.provider) # "Success" THEN Respond(IsCapable(request.provider))
       ELSE Proceed("execute")
    /\ UNCHANGED <<input, app, calls>>
---------------------------------------------------------------------------
(* BackEndHandler::execute_request: admin, decoding, application, method.  *)

IsAdmin(name) == name \in Admins

Refusal ==
    IF request.opcode \in AdminOpcodes /\ app = NoApp THEN "NotAuthenticated"
    ELSE IF request.opcode \in AdminOpcodes /\ ~IsAdmin(app) THEN "AdminOperation"
    ELSE IF request.body = "undecodable" THEN "DeserializingBodyFailed"
    ELSE IF request.opcode \notin Anonymous /\ app = NoApp THEN "NotAuthenticated"
    ELSE IF request.opcode \notin Methods(request.provider) THEN "PsaErrorNotSupported"
    ELSE "Success"

(* The methods of an arm without an application do not get one.            *)
Call == [provider |-> request.provider, opcode |-> request.opcode,
         app |-> IF request.opcode \in Anonymous THEN NoApp ELSE app]

(* result_to_response may fail after the method has done its work.         *)
Execute ==
    /\ front_pc = "execute"
    /\ IF Refusal # "Success"
       THEN Respond(Refusal) /\ UNCHANGED calls
       ELSE /\ \E s \in {"Success", "ProviderError", "SerializingBodyFailed"} : Respond(s)
            /\ calls' = calls \cup {Call}
    /\ UNCHANGED <<input, app>>

(* write_to_stream; an error is only logged.                               *)
Write ==
    /\ front_pc = "write"
    /\ front_pc' = "done"
    /\ UNCHANGED <<input, app, response, calls>>

FrontNext == Read \/ Authenticate \/ Dispatch \/ Execute \/ Write

FrontSpec == FrontInit /\ [][FrontNext]_frontVars
---------------------------------------------------------------------------
(* Whose request it is, as far as the authenticators can know: the user of *)
(* the socket, the subject of the token, the claim.                        *)
Identity == IF authenticator = "UnixPeerCredentials" THEN peer ELSE request.buffer

(* Whatever combination of header, payload and body is sent: a provider    *)
(* works with keys only for the identity behind the request, and lists or  *)
(* deletes clients only for an admin's.                                    *)
CallsAreAuthorized ==
    \A c \in calls :
        /\ c.app # NoApp => c.app = Identity /\ request.auth_type = authenticator
        /\ c.opcode \notin Anonymous => c.app # NoApp
        /\ c.opcode \in AdminOpcodes =>
               Identity \in Admins /\ request.auth_type = authenticator

(* What may be wrong with a request, each with its status.                 *)
BadAuthentication ==
    {s \in Status :
       \/ /\ s = "AuthenticatorNotRegistered"
          /\ request.auth_type \notin {authenticator, "NoAuth"}
       \/ /\ s \in {"AuthenticationError", "InvalidEncoding"}
          /\ request.auth_type = authenticator
          /\ request.buffer # Identity \/ request.buffer \notin App}

BadRequest ==
    {s \in Status :
       \/ s = "ProviderNotRegistered" /\ request.provider \notin Backends
       \/ /\ s = "PsaErrorNotSupported" /\ request.provider \in Backends
          /\ \/ (request.provider = "core") # (request.opcode \in CoreOpcodes)
             \/ request.opcode \notin Methods(request.provider)
       \/ s = "ContentTypeNotSupported" /\ request.types = "content"
       \/ s = "AcceptTypeNotSupported" /\ request.types = "accept"
       \/ s = "DeserializingBodyFailed" /\ request.body = "undecodable"
       \/ /\ s = "NotAuthenticated" /\ request.auth_type = "NoAuth"
          /\ request.opcode \notin Anonymous \ AdminOpcodes
       \/ /\ s = "AdminOperation" /\ request.opcode \in AdminOpcodes
          /\ Identity \notin Admins}

(* A request with nothing wrong is served, once; one with something wrong  *)
(* is not served at all and is answered with something that is wrong with  *)
(* it, never as unsupported if ListOpcodes reports the operation; and who  *)
(* fails to authenticate learns nothing but that.                          *)
ResponseAgrees ==
    front_pc \in {"write", "done"} =>
        /\ response = "PsaErrorNotSupported" =>
             request.opcode \notin Supported(request.provider)
        /\ CASE request.body = "unreadable" -> response = "ReadError" /\ calls = {}
             [] request.body # "unreadable" /\ BadAuthentication # {} ->
                  response \in BadAuthentication /\ calls = {}
             [] request.body # "unreadable" /\ BadAuthentication = {} /\ BadRequest # {} ->
                  response \in BadRequest /\ calls = {}
             [] OTHER ->
                  /\ response \in {"Success", "ProviderError", "SerializingBodyFailed"}
                  /\ \E c \in calls : calls = {c}
---------------------------------------------------------------------------
(* The inductive invariant.                                                *)

(* The application is the identity behind the request, once established.   *)
AppIsIdentity == app # NoApp => app = Identity /\ app \in App

(* How far the request has come says what is not wrong with it.            *)
ChecksPassed ==
    /\ front_pc \notin {"write", "done"} => calls = {}
    /\ front_pc \in {"authenticate", "dispatch", "execute"} => request.body # "unreadable"
    /\ front_pc \in {"dispatch", "execute"} =>
          /\ BadAuthentication = {}
          /\ app = NoApp => request.auth_type = "NoAuth"
    /\ front_pc = "execute" =>
          request.provider \in Backends /\ IsCapable(request.provider) = "Success"

FrontInv ==
    FrontTypeOK /\ AppIsIdentity /\ ChecksPassed /\ CallsAreAuthorized /\ ResponseAgrees
=============================================================================
