--------------------------- MODULE MCMediaTekRIL ---------------------------
(* Two calls of the framework, every value of persist.ril.enable, and few  *)
(* enough messages that every interleaving of them is explored.            *)
EXTENDS MediaTekRIL, TLC

EnableValues == BOOLEAN
EveryCode == UnsolCodes
FewCodes == {"INCOMING_CALL_INDICATION", "RADIO_STATE_CHANGED"}
CallSymmetry == Permutations(Calls)
=============================================================================
