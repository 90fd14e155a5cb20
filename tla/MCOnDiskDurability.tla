------------------------ MODULE MCOnDiskDurability ------------------------
(* OnDiskDurability for TLC.                                               *)
EXTENDS OnDiskDurability
===========================================================================
