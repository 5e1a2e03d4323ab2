--------------------------- MODULE EarlyCommitter ---------------------------
(***************************************************************************)
(* Sentences committed from partial hypotheses, before the recogniser's    *)
(* final: the committer's state and its three operations, on the texts of  *)
(* SentenceExtractor.  Partials and finals are whole utterances: the       *)
(* pooled text, then what the recogniser says now.                         *)
(***************************************************************************)
EXTENDS SentenceExtractor

CONSTANTS
    StablePartials,    \* STABLE_PARTIALS
    MinFollowing       \* MIN_FOLLOWING_CHARS, in words

ASSUME CommitterConstants == {StablePartials, MinFollowing} \subseteq Nat \ {0}

\* committed: the words committed since the last final; candidate:
\* lastCandidate, <<>> for null.
NewCommitter ==
    [committed |-> <<>>, candidate |-> <<>>, seen |-> 0, diverged |-> FALSE]

\* offsetAfter does not return null, and what it returns is Len(prefix).
StartsWith(text, prefix) == IsPrefix(prefix, Words(text))

\* The end of the last sentence with enough speech after it, or 0.
LastCompleteSentenceEnd(text, from) ==
    LastOrZero({i \in Stops(text) : i > from /\ Len(text) - i >= MinFollowing})

SplitSentences(text) == Pieces(text, Stops(text) \cup ({Len(text)} \ {0}))

-----------------------------------------------------------------------------
Held(committer) ==
    [committer |-> [committer EXCEPT !.candidate = <<>>], sentences |-> <<>>]

Waits(committer, candidate, seen) ==
    [committer |-> [committer EXCEPT !.candidate = candidate, !.seen = seen],
     sentences |-> <<>>]

Commits(committer, candidate) ==
    [committer |-> [committer EXCEPT !.committed = @ \o Words(candidate),
                                     !.candidate = <<>>, !.seen = 0],
     sentences |-> SplitSentences(candidate)]

CommitOnPartial(committer, hypothesis) ==
    LET start == Len(committer.committed)
        end == LastCompleteSentenceEnd(hypothesis, start)
        candidate == SubSeq(hypothesis, start + 1, end)
    IN  IF committer.diverged THEN [committer |-> committer, sentences |-> <<>>]
        ELSE IF ~StartsWith(hypothesis, committer.committed)
             THEN Held([committer EXCEPT !.diverged = TRUE])
        ELSE IF end = 0 THEN Held(committer)
        ELSE IF candidate # committer.candidate THEN Waits(committer, candidate, 1)
        ELSE IF committer.seen + 1 < StablePartials
             THEN Waits(committer, candidate, committer.seen + 1)
        ELSE Commits(committer, candidate)

-----------------------------------------------------------------------------
\* Dice similarity, over words: at least 0.6.
Similar(a, b) ==
    a # <<>> /\ b # <<>> /\ 10 * 2 * Cardinality(Range(a) \cap Range(b)) >= 6 * (Len(a) + Len(b))

\* Drops the leading sentences close to what was committed, in order.
KeepRevised(text, committed) ==
    LET keep(acc, sentence) ==
            LET window == SubSeq(acc.remaining, 1, Min({Len(acc.remaining),
                                                        Len(sentence) + Len(sentence) \div 4}))
            IN  IF acc.kept = <<>> /\ Similar(Words(sentence), window)
                THEN [acc EXCEPT !.remaining = After(@, Min({Len(@), Len(sentence)}))]
                ELSE [acc EXCEPT !.kept = @ \o sentence]
    IN  FoldLeft(keep, [remaining |-> committed, kept |-> <<>>], SplitSentences(text)).kept

\* The final's text without what was committed from its partials.
Uncommitted(committer, text) ==
    IF StartsWith(text, committer.committed)
    THEN After(text, Len(committer.committed))
    ELSE KeepRevised(text, committer.committed)
=============================================================================
