------------------------- MODULE MCSentenceAssembly -------------------------
(* SentenceAssembly on small instances: the recognisers of the SDK, with the *)
(* stage and without it.                                                     *)
EXTENDS SentenceAssembly

\* A streaming recogniser whose text is punctuated by a model (Chinese).
Punctuated == [inline |-> FALSE, restores |-> TRUE, capitals |-> FALSE,
               partials |-> TRUE, stops |-> "perhaps", ended |-> "always",
               retracts |-> FALSE, echoes |-> {0}, mishears |-> {}]

\* The same with punctuation restoring off, which leaves text in the pool.
Unrestored == [Punctuated EXCEPT !.restores = FALSE]

\* A recogniser that cases and punctuates (sherpa's punctuating models).
Cased == [Punctuated EXCEPT !.capitals = TRUE, !.ended = "stopped"]

\* Windows with overlap, cut at a length cap (whisper), without its partials.
Windows == [Punctuated EXCEPT !.partials = FALSE, !.ended = "perhaps", !.echoes = {0, 2}]

\* A recogniser whose text has no punctuation, and whose final may come out
\* blank (Vosk).
Plain == [Unrestored EXCEPT !.stops = "never", !.retracts = TRUE]

Inline(s) == [s EXCEPT !.inline = TRUE]

\* Text committed from partials is heard differently in the final.
Revising == [Punctuated EXCEPT !.mishears = {1}]

MCSetups == {Punctuated, Unrestored, Cased, Windows, Plain, Revising, Inline(Unrestored)}
MCFinalsToCome == {Unrestored, Inline(Windows)}
=============================================================================
