--------------------------- MODULE MCMbedCrypto ---------------------------
(* MbedCrypto for TLC.                                                     *)
EXTENDS MbedCrypto
===========================================================================
