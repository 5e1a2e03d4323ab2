------------------------ MODULE MCWhisperTranscriber ------------------------
(* WhisperTranscriber on small instances: two preparations, one of them      *)
(* for a language to be detected, and lengths in proportion to those of the  *)
(* SDK, where no silence is shorter than the shortest segment.               *)
EXTENDS WhisperTranscriber

CONSTANTS en, auto
MCPreps == {en, auto}
MCAuto == {auto}
=============================================================================
