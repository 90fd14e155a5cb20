------------------------------ MODULE MCNodeAuth ------------------------------
(* A master and two workers on two machines, one without the right key.    *)
EXTENDS NodeAuth

MCName == 1 .. 3
MCMaster == {1}
===============================================================================
