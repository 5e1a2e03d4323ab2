------------------------- MODULE SentenceExtractor -------------------------
(***************************************************************************)
(* The pool of text that recognition results are gathered in until a       *)
(* sentence is complete, as operators on its state.                        *)
(*                                                                         *)
(* Text is a sequence of tokens.  A token is a spoken word: "word" says    *)
(* which, and compares as normalizeWord does, regardless of case and       *)
(* punctuation; "stop" says that a terminator follows it, "capital" that   *)
(* it is capitalised.  A sentence boundary of the break iterator is a      *)
(* token with a stop.                                                      *)
(***************************************************************************)
EXTENDS SequencesExt, Integers

CONSTANTS
    MaxSentenceWords,  \* MAX_WORDS_PER_SENTENCE
    OverlapWords,      \* OVERLAP_WORDS
    MinOverlapWords    \* MIN_OVERLAP_WORDS

ASSUME ExtractorConstants ==
    /\ MaxSentenceWords \in Nat \ {0}
    /\ OverlapWords \in Nat
    /\ MinOverlapWords \in Nat \ {0}

Words(text) == [i \in DOMAIN text |-> text[i].word]

Stopped(text) == text # <<>> /\ Last(text).stop

LastOrZero(positions) == Max(positions \cup {0})

\* The positions, one call of findCut after the other.
InOrder(positions) ==
    [k \in 1 .. Cardinality(positions) |->
        CHOOSE p \in positions : Cardinality({q \in positions : q <= p}) = k]

\* The text up to the last of the positions, cut after each.
Pieces(text, cuts) ==
    LET at == InOrder(cuts)
    IN  [k \in DOMAIN at |-> SubSeq(text, IF k = 1 THEN 1 ELSE at[k - 1] + 1, at[k])]

After(text, position) == SubSeq(text, position + 1, Len(text))

Stops(text) == {i \in DOMAIN text : text[i].stop}

\* Every position findCut returns, one call after the other: the end of each
\* sentence, then every MaxSentenceWords words of the unterminated rest.
Cuts(text) ==
    LET ended == LastOrZero(Stops(text))
    IN  Stops(text) \cup {i \in DOMAIN text : i > ended /\ (i - ended) % MaxSentenceWords = 0}

-----------------------------------------------------------------------------
NewExtractor == [pool |-> <<>>, recent |-> <<>>]

IsEmpty(extractor) == extractor.pool = <<>>

\* The words the chunk repeats from the end of what was appended last.
StripLeadingOverlap(chunk, recent) ==
    LET repeats(k) == SubSeq(Words(chunk), 1, k) = SubSeq(recent, Len(recent) - k + 1, Len(recent))
        overlaps == {k \in MinOverlapWords .. Min({OverlapWords, Len(recent), Len(chunk)}) : repeats(k)}
    IN  After(chunk, LastOrZero(overlaps))

RememberTail(recent, text) ==
    LET all == recent \o Words(text)
    IN  After(all, Max({0, Len(all) - OverlapWords}))

AppendChunk(extractor, chunk) ==
    LET trimmed == StripLeadingOverlap(chunk, extractor.recent)
    IN  [pool |-> extractor.pool \o trimmed,
         recent |-> RememberTail(extractor.recent, trimmed)]

\* extractCompleted: the sentences it returns, and the state it leaves.
Completed(extractor) == Pieces(extractor.pool, Cuts(extractor.pool))

Rest(extractor) == [extractor EXCEPT !.pool = After(@, LastOrZero(Cuts(@)))]

Drain(extractor) == [extractor EXCEPT !.pool = <<>>]
=============================================================================
