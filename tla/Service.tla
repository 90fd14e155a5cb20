------------------------------ MODULE Service ------------------------------
(***************************************************************************)
(* The service around the providers: main with its loop and thread pool,   *)
(* the way of a request to a provider, and the core provider's requests.   *)
(* What a job of the pool does inside is the concern of the other two,     *)
(* and they keep no state in common with main: the front end handler is    *)
(* immutable once built, and the core provider reads the key info managers *)
(* under their locks.                                                      *)
(***************************************************************************)
EXTENDS ServiceLoop, FrontEnd, CoreProvider

ASSUME ServiceAssumption ==
    ServiceLoopAssumption /\ FrontEndAssumption /\ CoreProviderAssumption

ServiceSpec == Spec /\ FrontSpec /\ CoreSpec
---------------------------------------------------------------------------
(* The types of the three parts.  Whenever main listens it holds the one   *)
(* handler built last, which has a provider; a response is there exactly   *)
(* when the request is answered, and the application an authenticator      *)
(* gave; the core provider visits only providers of its list.              *)
ServiceTypeOK == LoopTypeOK /\ FrontTypeOK /\ CoreTypeOK
=============================================================================
