---------------------- MODULE MCOnDiskKeyInfoManager ----------------------
(* OnDiskKeyInfoManager for TLC: the constants get model values in the     *)
(* configurations (three triples, two values for contract; see the README).*)
EXTENDS OnDiskKeyInfoManager
===========================================================================
