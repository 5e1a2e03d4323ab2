-------------------------- MODULE SentenceAssembly --------------------------
(***************************************************************************)
(* How the pipeline turns recognition results into the sentences that are  *)
(* captioned: the coroutine that collects the recogniser, with the pool    *)
(* (SentenceExtractor) and the sentences taken from partials               *)
(* (EarlyCommitter), and the idle flush, a coroutine per final that left   *)
(* text in the pool, which waits and then takes it.  extractorMutex guards *)
(* the pool; a step of either coroutine is what it does between two        *)
(* suspensions, or under one hold of the mutex.                            *)
(*                                                                         *)
(* The speaker says the words 1, 2, ... in order; "ends" are those that    *)
(* end a sentence.  A word misheard is its negation.                       *)
(***************************************************************************)
EXTENDS EarlyCommitter

CONSTANTS
    Setups,            \* the pipelines considered, see Setup
    DedupeMinContain,  \* DEDUPE_MIN_CONTAIN_LEN, in words
    MaxWords,          \* bound: words the speaker says
    MaxPartials        \* bound: partials of one utterance

\* inline: finals are translated by the coroutine that has them, with no
\* stage; restores: restorePunctuation; capitals: the engine's
\* capitalisesOnlySentenceStarts.  Of the recogniser: partials, whether it
\* emits any; stops, whether it writes a sentence's terminator always, perhaps
\* or never; ended, whether a final says it ended a sentence always, perhaps
\* (a window cut at the length cap), or when it ends in a terminator;
\* retracts, whether an utterance with partials may end without a final;
\* echoes, how many words of the last final the next may repeat; mishears,
\* the words it may get wrong.
Setup == [inline : BOOLEAN, restores : BOOLEAN, capitals : BOOLEAN,
          partials : BOOLEAN, stops : {"always", "perhaps", "never"},
          ended : {"always", "perhaps", "stopped"}, retracts : BOOLEAN,
          echoes : SUBSET Nat, mishears : SUBSET Nat]

ASSUME AssemblyConstants ==
    /\ {DedupeMinContain, MaxWords, MaxPartials} \subseteq Nat
    /\ \A s \in Setups : [s EXCEPT !.echoes = {}, !.mishears = {}] \in
            [inline : BOOLEAN, restores : BOOLEAN, capitals : BOOLEAN,
             partials : BOOLEAN, stops : {"always", "perhaps", "never"},
             ended : {"always", "perhaps", "stopped"}, retracts : BOOLEAN,
             echoes : {{}}, mishears : {{}}]

VARIABLES
    setup,        \* one of Setups
    ends,         \* the words that end a sentence of the speech
    said,         \* words the recogniser is done with
    retracted,    \* history: those no final brought, as their utterance came
                  \* out blank: noise heard as speech
    heard,        \* words the partials since the last final have covered
    partials,     \* how many partials those are
    pc,           \* where the collector is
    result,       \* the result it is on
    agenda,       \* the sentences it is about to hand in
    extractor,    \* extractor
    committer,    \* earlyCommitter
    lastFinal,    \* lastFinalOriginal
    flushes,      \* the flush coroutines: flushJob, and cancelled ones
    finished,     \* stage.finish() was called
    captions,     \* history: the sentences that reached translation
    lost,         \* history: words a flush took and did not hand in
    strayed       \* history: a flush went on after its cancellation

collector == <<pc, result, agenda>>
speech == <<setup, ends, retracted>>
vars == <<speech, said, heard, partials, collector, extractor, committer, lastFinal,
          flushes, finished, captions, lost, strayed>>

NoResult == [text |-> <<>>, ended |-> FALSE]

Init ==
    /\ setup \in Setups
    /\ ends \in SUBSET (1 .. MaxWords)
    /\ said = 0
    /\ retracted = {}
    /\ heard = 0
    /\ partials = 0
    /\ pc = "collect"
    /\ result = NoResult
    /\ agenda = <<>>
    /\ extractor = NewExtractor
    /\ committer = NewCommitter
    /\ lastFinal = <<>>
    /\ flushes = {}
    /\ finished = FALSE
    /\ captions = <<>>
    /\ lost = {}
    /\ strayed = FALSE

-----------------------------------------------------------------------------
(* The recogniser.                                                         *)

\* What it may make of the words from .. to.
Heard(from, to) ==
    LET written == CASE setup.stops = "always" -> {ends}
                     [] setup.stops = "perhaps" -> SUBSET (ends \cap from .. to)
                     [] setup.stops = "never" -> {{}}
        token(word, stops, wrong) ==
            [word |-> IF word \in wrong THEN -word ELSE word,
             stop |-> word \in stops,
             capital |-> setup.capitals /\ (word = 1 \/ word - 1 \in ends)]
    IN  {[i \in 1 .. to - from + 1 |-> token(from + i - 1, stops, wrong)] :
            stops \in written, wrong \in SUBSET (setup.mishears \cap from .. to)}

EndsSentence(text) ==
    CASE setup.ended = "always" -> {TRUE}
      [] setup.ended = "perhaps" -> BOOLEAN
      [] setup.ended = "stopped" -> {Stopped(text)}

\* A window cut mid-utterance loses its terminator.
MidUtteranceTrim(text, ended) ==
    IF setup.ended = "perhaps" /\ ~ended THEN [text EXCEPT ![Len(text)].stop = FALSE] ELSE text

\* Mutant of CancelFlush: the flush goes on when a result arrives.
LeaveFlush == flushes

CancelFlush == {[f EXCEPT !.cancelled = TRUE] : f \in {f \in flushes : f.at # "delay"}}

Collecting == pc = "collect" /\ agenda = <<>>

ReceivePartial(to) ==
    /\ Collecting
    /\ setup.partials
    /\ partials < MaxPartials
    /\ \E text \in Heard(said + 1, to) : result' = [NoResult EXCEPT !.text = text]
    /\ heard' = to
    /\ partials' = partials + 1
    /\ pc' = "partial"
    /\ flushes' = CancelFlush
    /\ UNCHANGED <<speech, said, agenda, extractor, committer, lastFinal, finished, captions, lost, strayed>>

ReceiveFinal(to, echo) ==
    /\ Collecting
    /\ \E text \in Heard(said + 1 - echo, to) : \E ended \in EndsSentence(text) :
          result' = [text |-> MidUtteranceTrim(text, ended), ended |-> ended]
    /\ said' = to
    /\ heard' = to
    /\ partials' = 0
    /\ pc' = "final"
    /\ flushes' = CancelFlush
    /\ UNCHANGED <<speech, agenda, extractor, committer, lastFinal, finished, captions, lost, strayed>>

\* The final of an utterance that had partials comes out blank: none is emitted.
RetractUtterance ==
    /\ Collecting
    /\ setup.retracts
    /\ partials > 0
    /\ said' = heard
    /\ retracted' = retracted \cup (said + 1) .. heard
    /\ partials' = 0
    /\ UNCHANGED <<setup, ends, heard, collector, extractor, committer, lastFinal, flushes, finished, captions, lost, strayed>>

-----------------------------------------------------------------------------
(* Sentences handed in: the check for a duplicate, then emitFinal.         *)

Within(a, b) == Len(a) >= DedupeMinContain
                /\ \E i \in 0 .. Len(b) - Len(a) : SubSeq(b, i + 1, i + Len(a)) = a

IsDuplicateFinal(sentence) ==
    LET now == Words(sentence)
    IN  now # <<>> /\ lastFinal # <<>> /\ (now = lastFinal \/ Within(now, lastFinal) \/ Within(lastFinal, now))

RememberFinal(sentence) ==
    lastFinal' = IF IsDuplicateFinal(sentence) /\ Len(sentence) < Len(lastFinal)
                 THEN lastFinal ELSE Words(sentence)

Caption(sentence, kind) == Append(captions, [words |-> Words(sentence), kind |-> kind])

Emit ==
    /\ agenda # <<>>
    /\ pc # "failed"
    /\ RememberFinal(Head(agenda).text)
    /\ captions' = IF IsDuplicateFinal(Head(agenda).text) THEN captions
                   ELSE Caption(Head(agenda).text, Head(agenda).kind)
    /\ agenda' = Tail(agenda)
    /\ UNCHANGED <<speech, said, heard, partials, pc, result, extractor, committer, flushes, finished, lost, strayed>>

\* Without a stage a failed translation throws out of the pipeline.
TranslationFails ==
    /\ setup.inline
    /\ pc # "failed"
    /\ \/ agenda # <<>> /\ ~IsDuplicateFinal(Head(agenda).text)
       \/ \E f \in flushes : f.at = "translating"
    /\ pc' = "failed"
    /\ flushes' = {}
    /\ UNCHANGED <<speech, said, heard, partials, result, agenda, extractor, committer, lastFinal, finished, captions, lost, strayed>>

-----------------------------------------------------------------------------
(* The collector on a result.                                              *)

Agenda(sentences, kind) == [i \in DOMAIN sentences |-> [text |-> sentences[i], kind |-> kind]]

AddStop(text) == IF text = <<>> THEN text ELSE [text EXCEPT ![Len(text)].stop = TRUE]

Terminate(text) == IF setup.restores THEN AddStop(text) ELSE text

Restore(text, addTerminator, capitalise) ==
    IF ~setup.restores \/ Stopped(text) THEN text
    ELSE LET cased == IF capitalise THEN [text EXCEPT ![1].capital = TRUE] ELSE text
         IN  IF addTerminator THEN AddStop(cased) ELSE cased

CommitEarly ==
    /\ pc = "partial"
    /\ \E outcome \in {CommitOnPartial(committer, extractor.pool \o result.text)} :
          /\ committer' = outcome.committer
          /\ agenda' = Agenda(outcome.sentences, "early")
    /\ pc' = "collect"
    /\ result' = NoResult
    /\ UNCHANGED <<speech, said, heard, partials, extractor, lastFinal, flushes, finished, captions, lost, strayed>>

\* Unterminated pooled text, then a final that opens a sentence.
WasASentence ==
    /\ ~IsEmpty(extractor)
    /\ ~Stopped(extractor.pool)
    /\ setup.capitals
    /\ result.text[1].capital

ClosePool ==
    /\ pc = "final"
    /\ agenda' = IF WasASentence THEN Agenda(<<Terminate(extractor.pool)>>, "closed") ELSE <<>>
    /\ extractor' = IF WasASentence THEN Drain(extractor) ELSE extractor
    /\ pc' = "assemble"
    /\ UNCHANGED <<speech, said, heard, partials, result, committer, lastFinal, flushes, finished, captions, lost, strayed>>

FinalChunk == Restore(result.text, result.ended, IsEmpty(extractor) \/ Stopped(extractor.pool))

\* Mutant of Pooled: the pool is not drained before the remainder goes in.
PooledTwice(finalChunk) ==
    IF committer.committed = <<>> THEN AppendChunk(extractor, finalChunk)
    ELSE AppendChunk(extractor, Uncommitted(committer, extractor.pool \o finalChunk))

\* The pool with the final in it.
Pooled(finalChunk) ==
    IF committer.committed = <<>> THEN AppendChunk(extractor, finalChunk)
    ELSE AppendChunk(Drain(extractor), Uncommitted(committer, extractor.pool \o finalChunk))

Assemble ==
    /\ pc = "assemble"
    /\ agenda = <<>>
    /\ \E pooled \in {Pooled(FinalChunk)} :
          /\ extractor' = Rest(pooled)
          /\ agenda' = Agenda(Completed(pooled), "final")
    /\ committer' = NewCommitter
    /\ pc' = "launch"
    /\ UNCHANGED <<speech, said, heard, partials, result, lastFinal, flushes, finished, captions, lost, strayed>>

\* Mutant of LaunchFlush: no flush after a final that did not end a sentence.
LaunchFlushAtAnEnd ==
    /\ pc = "launch"
    /\ agenda = <<>>
    /\ flushes' = IF IsEmpty(extractor) \/ ~result.ended THEN flushes
                  ELSE flushes \cup {[at |-> "delay", text |-> <<>>, cancelled |-> FALSE]}
    /\ pc' = "collect"
    /\ result' = NoResult
    /\ UNCHANGED <<speech, said, heard, partials, agenda, extractor, committer, lastFinal, finished, captions, lost, strayed>>

LaunchFlush ==
    /\ pc = "launch"
    /\ agenda = <<>>
    /\ flushes' = IF IsEmpty(extractor) THEN flushes
                  ELSE flushes \cup {[at |-> "delay", text |-> <<>>, cancelled |-> FALSE]}
    /\ pc' = "collect"
    /\ result' = NoResult
    /\ UNCHANGED <<speech, said, heard, partials, agenda, extractor, committer, lastFinal, finished, captions, lost, strayed>>

\* A recogniser makes a final of the utterance it is in before its results
\* end, if there is any text in it.
EndOfAudio ==
    /\ Collecting
    /\ partials = 0 \/ setup.retracts
    /\ flushes' = CancelFlush
    /\ pc' = "tail"
    /\ UNCHANGED <<speech, said, heard, partials, result, agenda, extractor, committer, lastFinal, finished, captions, lost, strayed>>

\* Mutant of DrainTail: the stream ends without a look at the pool.
SkipTail ==
    /\ pc = "tail"
    /\ pc' = "finish"
    /\ UNCHANGED <<speech, said, heard, partials, result, agenda, extractor, committer, lastFinal, flushes, finished, captions, lost, strayed>>

DrainTail ==
    /\ pc = "tail"
    /\ agenda' = IF IsEmpty(extractor) THEN <<>> ELSE Agenda(<<Terminate(extractor.pool)>>, "flush")
    /\ extractor' = Drain(extractor)
    /\ pc' = "finish"
    /\ UNCHANGED <<speech, said, heard, partials, result, committer, lastFinal, flushes, finished, captions, lost, strayed>>

FinishStage ==
    /\ pc = "finish"
    /\ agenda = <<>>
    /\ finished' = ~setup.inline
    /\ pc' = "done"
    /\ UNCHANGED <<speech, said, heard, partials, result, agenda, extractor, committer, lastFinal, flushes, captions, lost, strayed>>

-----------------------------------------------------------------------------
(* The idle flush.  Once it is past its delay nothing stops it before its  *)
(* next suspension: a mutex that is held, or the translation of an inline  *)
(* pipeline.                                                               *)

Becomes(f, next) == flushes' = (flushes \ {f}) \cup {next}
Ends(f) == flushes' = flushes \ {f}
Goes(f) == strayed' = (strayed \/ f.cancelled)

FlushWakes(f) ==
    /\ f.at = "delay"
    /\ Becomes(f, [f EXCEPT !.at = "awake"])
    /\ UNCHANGED <<speech, said, heard, partials, collector, extractor, committer, lastFinal, finished, captions, lost, strayed>>

FlushDrains(f) ==
    /\ f.at = "awake"
    /\ IF IsEmpty(extractor) THEN Ends(f)
       ELSE Becomes(f, [f EXCEPT !.at = "drained", !.text = extractor.pool])
    /\ extractor' = Drain(extractor)
    /\ strayed' = (strayed \/ (f.cancelled /\ ~IsEmpty(extractor)))
    /\ UNCHANGED <<speech, said, heard, partials, collector, committer, lastFinal, finished, captions, lost>>

\* To the stage, which takes nothing after finish, or to the translator.
FlushHandsIn(f) ==
    /\ f.at = "drained"
    /\ RememberFinal(f.text)
    /\ IF setup.inline /\ ~IsDuplicateFinal(f.text)
       THEN Becomes(f, [f EXCEPT !.at = "translating"])
       ELSE Ends(f)
    /\ IF setup.inline \/ IsDuplicateFinal(f.text) THEN UNCHANGED <<captions, lost>>
       ELSE IF finished THEN lost' = lost \cup Range(Words(f.text)) /\ UNCHANGED captions
       ELSE captions' = Caption(Terminate(f.text), "flush") /\ UNCHANGED lost
    /\ Goes(f)
    /\ UNCHANGED <<speech, said, heard, partials, collector, extractor, committer, finished>>

FlushSends(f) ==
    /\ f.at = "translating"
    /\ captions' = Caption(Terminate(f.text), "flush")
    /\ Ends(f)
    /\ Goes(f)
    /\ UNCHANGED <<speech, said, heard, partials, collector, extractor, committer, lastFinal, finished, lost>>

FlushDies(f) ==
    /\ f.cancelled
    /\ f.at \in {"awake", "translating"}
    /\ Ends(f)
    /\ lost' = lost \cup Range(Words(f.text))
    /\ UNCHANGED <<speech, said, heard, partials, collector, extractor, committer, lastFinal, finished, captions, strayed>>

-----------------------------------------------------------------------------
Collect ==
    \/ CommitEarly \/ ClosePool \/ Assemble \/ LaunchFlush \/ Emit
    \/ DrainTail \/ FinishStage

Flush == \E f \in flushes :
    \/ FlushWakes(f) \/ FlushDrains(f) \/ FlushHandsIn(f) \/ FlushSends(f)
    \/ FlushDies(f)

\* Hypotheses grow, and the final covers what they covered.
Covering == Max({said + 1, heard}) .. MaxWords

\* A window repeats what was said, not what was noise.
Echoes == {echo \in setup.echoes \cap 0 .. said : retracted \cap (said + 1 - echo) .. said = {}}

Final == \E to \in Covering, echo \in Echoes : ReceiveFinal(to, echo)

Recognise ==
    \/ \E to \in Covering : ReceivePartial(to)
    \/ Final
    \/ RetractUtterance
    \/ EndOfAudio

Next == Collect \/ Flush \/ Recognise \/ TranslationFails

Spec == Init /\ [][Next]_vars
\* The collector and the flush run on Dispatchers.Default.  A recogniser that
\* has emitted a partial is fair too: a final for that utterance is coming, or
\* it comes out blank.
FairSpec ==
    /\ Spec
    /\ WF_vars(Collect)
    /\ WF_vars(Flush)
    /\ WF_vars(partials > 0 /\ (Final \/ RetractUtterance))

-----------------------------------------------------------------------------
(* Properties.                                                             *)

Position(word) == IF word < 0 THEN -word ELSE word
Positions(words) == {Position(w) : w \in Range(words)}

\* Recognisers that do not revise a word they emitted, have their pool closed
\* by a capital, or give partials from which a sentence is committed and then
\* no final; and that repeat as many words as the extractor looks for, fewer
\* being taken for what the speaker repeats, and none where partials, which
\* are not stripped, come before the final.
Steady ==
    /\ ~setup.capitals
    /\ setup.mishears = {}
    /\ setup.retracts => setup.stops = "never"
    /\ setup.echoes \subseteq {0} \cup MinOverlapWords .. OverlapWords
    /\ setup.partials => setup.echoes \subseteq {0}

\* Where the word of a final can be: captioned, pooled, about to be handed in,
\* with a flush, or in the final that is being assembled.
Places ==
    (IF pc = "done" THEN {} ELSE {Words(extractor.pool), Words(result.text)})
        \cup {caption.words : caption \in Range(captions)}
        \cup {Words(entry.text) : entry \in Range(agenda)}
        \cup {Words(f.text) : f \in flushes}

\* Pooling delays text and drops none: every word a final brought is captioned
\* or still on its way, through early commits, forced splits, overlaps that
\* are stripped and the end of the audio, unless a flush was cancelled while
\* it held it, or past its delay.
NoWordIsLost ==
    Steady /\ ~strayed /\ pc # "failed" =>
        (1 .. said) \ retracted \subseteq
            (UNION {Positions(place) : place \in Places}) \cup {Position(w) : w \in lost}

\* What is not revised is captioned once: what partials committed is not
\* captioned again with the final, nor what the idle flush took, nor what a
\* window repeats of the window before.
EachWordIsCaptionedOnce ==
    Steady /\ ~strayed =>
        \A i, j \in DOMAIN captions :
            /\ i # j => Range(captions[i].words) \cap Range(captions[j].words) = {}
            /\ Cardinality(Range(captions[i].words)) = Len(captions[i].words)

\* Captions follow the speech: a sentence is handed in after everything said
\* before it, by whichever of early commit, final and flush it was made.
CaptionsFollowTheSpeech ==
    Steady /\ ~strayed =>
        \A i, j \in DOMAIN captions :
            i < j => \A v \in Positions(captions[i].words), w \in Positions(captions[j].words) : v < w

\* Text in the pool does not stay there: the final that completes it or the
\* idle flush takes it.
PooledTextIsFlushed == ~IsEmpty(extractor) ~> IsEmpty(extractor) \/ pc = "failed"
=============================================================================
