-------------------------- MODULE MCCryptoAuthLib --------------------------
(* CryptoAuthLib for TLC: slots 1 to 3, of which slot 3 is locked; "ecc"   *)
(* keys go to slots 1 and 3, "aes" keys to any, and no slot suits "rsa".   *)
EXTENDS CryptoAuthLib

MCSlot == 1 .. 3
MCLockedSlot == {3}
MCKind == {"ecc", "aes", "rsa"}
MCFits == [k \in MCKind |-> CASE k = "ecc" -> {1, 3}
                              [] k = "aes" -> MCSlot
                              [] OTHER -> {}]
===========================================================================
