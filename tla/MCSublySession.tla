--------------------------- MODULE MCSublySession ---------------------------
(* SublySession on small instances: two language pairs, so that a switch    *)
(* and a switch back are possible, a recogniser whose model serves one pair *)
(* (Vosk, sherpa) and a translator that serves every pair (LiteRT-LM).      *)
EXTENDS SublySession

CONSTANTS enVi, jaEn, none

MCPairs == {enVi, jaEn}
MCPairBound == {"asr"}
=============================================================================
