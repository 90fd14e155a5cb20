-------------------------- MODULE ServiceLifecycle --------------------------
(***************************************************************************)
(* What a provider may expect of the service around it, and what the       *)
(* modules of the providers assume in StopArrivals, JoinThreads and Start: *)
(* a provider is dropped, and the next one built, only while no request is *)
(* being served, and nothing is accepted from the moment the service has   *)
(* begun to wait for the requests that are.                                *)
(***************************************************************************)
CONSTANT Conn        (* connections of clients                             *)

VARIABLES status,    (* "up", "draining" or "down"                         *)
          serving    (* connections accepted and not finished              *)

lifecycleVars == <<status, serving>>

Init == status = "down" /\ serving = {}

Start ==
    /\ status = "down" /\ status' = "up"
    /\ UNCHANGED serving

Accept ==
    /\ status = "up"
    /\ \E c \in Conn \ serving : serving' = serving \cup {c}
    /\ UNCHANGED status

Finish ==
    /\ \E c \in serving : serving' = serving \ {c}
    /\ UNCHANGED status

StopArrivals ==
    /\ status = "up" /\ status' = "draining"
    /\ UNCHANGED serving

JoinThreads ==
    /\ status = "draining" /\ serving = {}
    /\ status' = "down"
    /\ UNCHANGED serving

Next == Start \/ Accept \/ Finish \/ StopArrivals \/ JoinThreads

Spec == Init /\ [][Next]_lifecycleVars
===========================================================================
