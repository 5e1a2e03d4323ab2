----------------------------- MODULE CaptionLog -----------------------------
(***************************************************************************)
(* What a translation stage promises its caller: the sentences it accepts  *)
(* are captioned in the order they were accepted, each by exactly one      *)
(* caption, which may cover several of them; and once the input is closed  *)
(* the stage finishes, unless it is abandoned.  The interface is that of   *)
(* onFinal, finish and onState.                                            *)
(***************************************************************************)
EXTENDS Naturals

VARIABLES
    accepted,   \* sentences accepted so far; sentence n is the n-th of them
    captioned,  \* sentences 1 .. captioned have their caption
    closed,     \* finish() was called
    output      \* "live", "complete" or "abandoned"

vars == <<accepted, captioned, closed, output>>

Init ==
    /\ accepted = 0
    /\ captioned = 0
    /\ closed = FALSE
    /\ output = "live"

Accept ==
    /\ ~closed
    /\ accepted' = accepted + 1
    /\ UNCHANGED <<captioned, closed, output>>

CloseInput ==
    /\ closed' = TRUE
    /\ UNCHANGED <<accepted, captioned, output>>

\* One caption for every sentence up to the n-th that has none yet.
Caption ==
    /\ output = "live"
    /\ \E n \in (captioned + 1) .. accepted : captioned' = n
    /\ UNCHANGED <<accepted, closed, output>>

Complete ==
    /\ output = "live"
    /\ closed
    /\ captioned = accepted
    /\ output' = "complete"
    /\ UNCHANGED <<accepted, captioned, closed>>

\* The worker is cancelled, or dies.
Abandon ==
    /\ output = "live"
    /\ output' = "abandoned"
    /\ UNCHANGED <<accepted, captioned, closed>>

Next == Accept \/ CloseInput \/ Caption \/ Complete \/ Abandon

Spec == Init /\ [][Next]_vars /\ WF_vars(Caption) /\ WF_vars(Complete)
=============================================================================
