-------------------- MODULE MCStreamingTranslationStage --------------------
(* StreamingTranslationStage on small instances.  The collector and the     *)
(* idle flush both call onFinal.                                            *)
EXTENDS StreamingTranslationStage

CONSTANTS collector, flush
MCCallers == {collector, flush}
MCCollectorOnly == {collector}

\* An incremental translator asked for drafts, from a subject-verb-object and
\* from a subject-object-verb language, and one that translates finals only.
Pieces == [drafts |-> TRUE, restructure |-> FALSE, preview |-> TRUE, throws |-> TRUE]
Restructured == [drafts |-> TRUE, restructure |-> TRUE, preview |-> FALSE, throws |-> FALSE]
Finals == [drafts |-> FALSE, restructure |-> FALSE, preview |-> TRUE, throws |-> FALSE]

MCSetups == {Pieces, Restructured, Finals}
=============================================================================
