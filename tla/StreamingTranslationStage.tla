---------------------- MODULE StreamingTranslationStage ----------------------
(***************************************************************************)
(* The incremental translation stage: the recogniser's side, which runs    *)
(* the WaitKBuffer and queues work under the stage's lock and then wakes   *)
(* the worker; the worker, which merges what has queued up, translates it  *)
(* in one segment per sentence and publishes the result; and the live      *)
(* preview, a coroutine the worker runs while it has nothing to do.        *)
(*                                                                         *)
(* Text is a sequence of words <<sentence, version, position>>: version    *)
(* "heard" for words of the hypotheses, "revised" for the words of a final *)
(* that no longer starts with what was committed.  A translation is the    *)
(* sequence of the words it translates.                                    *)
(***************************************************************************)
EXTENDS SequencesExt

CONSTANTS
    Callers,          \* the coroutines that call onFinal: collector, idle flush
    Collector,        \* the one that also calls onPartial and finish
    Setups,           \* the stages considered: records of drafts and
                      \* restructure (policy.restructureOnFinal), of preview
                      \* (livePreview) and of throws (onState throws on
                      \* Failed, as the session's does)
    MergeMaxWords,    \* MERGE_MAX_CHARS
    MaxSentences,     \* bound: finals accepted in one behaviour
    MaxWords          \* bound: words of a sentence

ASSUME ConstantsAssumption ==
    /\ Collector \in Callers
    /\ Setups \subseteq [drafts : BOOLEAN, restructure : BOOLEAN,
                         preview : BOOLEAN, throws : BOOLEAN]
    /\ {MergeMaxWords, MaxSentences, MaxWords} \subseteq Nat

VARIABLES
    setup,             \* the constructor's arguments: one of Setups
    finished,          \* finished
    inputSentenceId,   \* inputSentenceId
    liveSentenceId,    \* liveSentenceId
    committed,         \* words the WaitKBuffer has committed of the sentence
    previewSource,     \* words of previewSource, the last hypothesis, which
                       \* is the WaitKBuffer's previousUnits too
    previewSourceSentenceId,
    queue,             \* queue
    wakeUp,            \* the conflated channel holds a token
    signalling,        \* callers between the lock and wakeUp.trySend
    pc,                \* where the worker is
    work,              \* the event it is on
    segment,           \* segment: the words it translated, or NoSegment
    workerSentenceId,
    workerTranslation,
    pieceFailed,
    previewedWords,    \* words of previewedSource
    previewedSentenceId,
    preview,           \* the preview coroutine
    previewTranslation,
    previewTranslationSentenceId,
    openSegments,      \* segments opened and not closed, native conversations
    cancelled,         \* the worker's coroutine was cancelled
    shown,             \* the last value published: its kind and sentence
    resolved,          \* sentences that have their caption
    captions,          \* history: every Finalized and Failed published
    heard              \* history: every final accepted

inputVars == <<setup, finished, inputSentenceId, liveSentenceId, committed,
               previewSource, previewSourceSentenceId, signalling, heard>>
sentenceVars == <<segment, workerSentenceId, workerTranslation, pieceFailed>>
previewVars == <<previewedWords, previewedSentenceId, preview,
                 previewTranslation, previewTranslationSentenceId>>
outputVars == <<shown, resolved, captions>>
vars == <<inputVars, queue, wakeUp, pc, work, sentenceVars, previewVars,
          openSegments, cancelled, outputVars>>

NoSentence == 0
NoSegment == << <<NoSentence, "none", 0>> >>
NoWork == [kind |-> "none", id |-> NoSentence]

Words(id, version, from, to) ==
    [n \in 1 .. (to + 1 - from) |-> <<id, version, from + n - 1>>]

Commit(id, delta) == [kind |-> "Commit", id |-> id, delta |-> delta]
Final(id, source, delta, diverged) ==
    [kind |-> "Final", id |-> id, source |-> source, delta |-> delta,
     diverged |-> diverged]

Init ==
    /\ setup \in Setups
    /\ finished = FALSE
    /\ inputSentenceId = 1
    /\ liveSentenceId = 1
    /\ committed = 0
    /\ previewSource = 0
    /\ previewSourceSentenceId = NoSentence
    /\ queue = <<>>
    /\ wakeUp = FALSE
    /\ signalling = {}
    /\ pc = "take"
    /\ work = NoWork
    /\ segment = NoSegment
    /\ workerSentenceId = 1
    /\ workerTranslation = <<>>
    /\ pieceFailed = FALSE
    /\ previewedWords = 0
    /\ previewedSentenceId = NoSentence
    /\ preview = [at |-> "off", id |-> NoSentence, words |-> 0]
    /\ previewTranslation = <<>>
    /\ previewTranslationSentenceId = NoSentence
    /\ openSegments = 0
    /\ cancelled = FALSE
    /\ shown = [kind |-> "Idle", id |-> NoSentence]
    /\ resolved = 0
    /\ captions = <<>>
    /\ heard = <<>>

-----------------------------------------------------------------------------
(* The recogniser's side.  Once finished, onPartial and onFinal return at  *)
(* once.                                                                   *)

\* onPartial with a hypothesis of n words: the WaitKBuffer may commit words
\* on which it agrees with the hypothesis before it, which are queued; the
\* caller then wakes the worker, outside the lock.  With nothing to commit it
\* wakes the worker, inside the lock, for a preview.
OnPartial(n) ==
    /\ ~finished
    /\ Collector \notin signalling
    /\ inputSentenceId <= MaxSentences
    /\ liveSentenceId' = inputSentenceId
    /\ previewSource' = n
    /\ previewSourceSentenceId' = inputSentenceId
    /\ \/ /\ setup.drafts
          /\ \E c \in (committed + 1) .. Min({n, previewSource}) :
                /\ committed' = c
                /\ queue' = Append(queue, Commit(inputSentenceId,
                              Words(inputSentenceId, "heard", committed + 1, c)))
          /\ signalling' = signalling \cup {Collector}
          /\ UNCHANGED wakeUp
       \/ /\ wakeUp' = (wakeUp \/ setup.preview)
          /\ UNCHANGED <<committed, queue, signalling>>
    /\ UNCHANGED <<setup, finished, inputSentenceId, heard, pc, work, sentenceVars,
                   previewVars, openSegments, cancelled, outputVars>>

\* onFinal with a sentence of n words.  buffer.onFinal compares it with what
\* was committed: it goes on from there, or it diverged.
OnFinal(c, n) ==
    /\ ~finished
    /\ c \notin signalling
    /\ inputSentenceId <= MaxSentences
    /\ \E diverged \in BOOLEAN :
          LET source == Words(inputSentenceId,
                              IF diverged THEN "revised" ELSE "heard", 1, n)
          IN  /\ IF diverged THEN committed > 0 ELSE committed <= n
              /\ heard' = Append(heard, source)
              /\ queue' = Append(queue,
                            Final(inputSentenceId, source,
                                  IF diverged THEN <<>>
                                  ELSE SubSeq(source, committed + 1, n), diverged))
    /\ committed' = 0
    /\ inputSentenceId' = inputSentenceId + 1
    /\ previewSource' = 0
    /\ signalling' = signalling \cup {c}
    /\ UNCHANGED <<setup, finished, liveSentenceId, previewSourceSentenceId, wakeUp,
                   pc, work, sentenceVars, previewVars, openSegments,
                   cancelled, outputVars>>

\* finish()
Finish ==
    /\ ~finished
    /\ Collector \notin signalling
    /\ finished' = TRUE
    /\ signalling' = signalling \cup {Collector}
    /\ UNCHANGED <<setup, inputSentenceId, liveSentenceId, committed, previewSource,
                   previewSourceSentenceId, heard, queue, wakeUp, pc, work,
                   sentenceVars, previewVars, openSegments, cancelled,
                   outputVars>>

\* Mutant of Signal: the channel keeps nothing for a worker that is not
\* receiving.
SignalIfReceiving(c) ==
    /\ c \in signalling
    /\ wakeUp' = (wakeUp \/ pc \in {"wait", "preview"})
    /\ signalling' = signalling \ {c}
    /\ UNCHANGED <<setup, finished, inputSentenceId, liveSentenceId, committed,
                   previewSource, previewSourceSentenceId, heard, queue, pc,
                   work, sentenceVars, previewVars, openSegments, cancelled,
                   outputVars>>

\* wakeUp.trySend(Unit), on a conflated channel.
Signal(c) ==
    /\ c \in signalling
    /\ wakeUp' = TRUE
    /\ signalling' = signalling \ {c}
    /\ UNCHANGED <<setup, finished, inputSentenceId, liveSentenceId, committed,
                   previewSource, previewSourceSentenceId, heard, queue, pc,
                   work, sentenceVars, previewVars, openSegments, cancelled,
                   outputVars>>

-----------------------------------------------------------------------------
(* The worker loop.                                                        *)

\* Mutant of SameSentence: a final does not end the run of events.
AnySentence(q) == 1 .. Len(q)

\* How many queued events nextWork takes as one: the pieces of one sentence,
\* with its final if it is there; or, without drafts, the finals that fit in
\* one caption.
SameSentence(q) == { n \in 1 .. Len(q) : q[n].id = q[1].id }

FitsOneCaption(q) ==
    { n \in 1 .. Len(q) :
        Len(FlattenSeq([k \in 1 .. n |-> q[k].source])) <= MergeMaxWords }

Taken(q) ==
    IF q[1].kind = "Commit" THEN Max(SameSentence(q))
    ELSE IF setup.drafts THEN 1
    ELSE Max(FitsOneCaption(q) \cup {1})

\* nextWork and mergeQueuedFinals.
Merged(q) ==
    LET last == q[Taken(q)]
        deltas == FlattenSeq([k \in 1 .. Taken(q) |-> q[k].delta])
        sources == FlattenSeq([k \in 1 .. Taken(q) |-> q[k].source])
    IN  IF last.kind = "Commit" THEN Commit(last.id, deltas)
        ELSE IF q[1].kind = "Commit"
        THEN [last EXCEPT !.delta = IF last.diverged THEN <<>> ELSE deltas]
        ELSE IF Taken(q) = 1 THEN last
        ELSE Final(last.id, sources, sources, FALSE)

TakeWork ==
    /\ pc = "take"
    /\ \/ /\ queue = <<>>
          /\ pc' = "empty"
          /\ UNCHANGED <<queue, work>>
       \/ /\ queue # <<>>
          /\ work' = Merged(queue)
          /\ queue' = SubSeq(queue, Taken(queue) + 1, Len(queue))
          /\ pc' = "enter"
    /\ UNCHANGED <<inputVars, wakeUp, sentenceVars, previewVars, openSegments,
                   cancelled, outputVars>>

\* segment?.close(); segment = null
CloseSegment ==
    /\ segment' = NoSegment
    /\ openSegments' = IF segment = NoSegment THEN openSegments
                       ELSE openSegments - 1

\* Mutant of CheckFinished: the queue is not looked at again.
CheckFinishedOnly ==
    /\ pc = "empty"
    /\ \/ /\ finished
          /\ pc' = "ended"
          /\ CloseSegment
       \/ /\ ~finished
          /\ pc' = "idle"
          /\ UNCHANGED <<segment, openSegments>>
    /\ UNCHANGED <<inputVars, queue, wakeUp, work, workerSentenceId,
                   workerTranslation, pieceFailed, previewVars, cancelled,
                   outputVars>>

\* Nothing queued: return if the input is finished too, with the finally of
\* run().
CheckFinished ==
    /\ pc = "empty"
    /\ \/ /\ finished /\ queue = <<>>
          /\ pc' = "ended"
          /\ CloseSegment
       \/ /\ ~(finished /\ queue = <<>>)
          /\ pc' = "idle"
          /\ UNCHANGED <<segment, openSegments>>
    /\ UNCHANGED <<inputVars, queue, wakeUp, work, workerSentenceId,
                   workerTranslation, pieceFailed, previewVars, cancelled,
                   outputVars>>

\* nextPreview: the sentence being spoken has grown since its last preview.
\* A word stands for PREVIEW_MIN_CHARS and PREVIEW_MIN_GROWTH letters.
PreviewDue ==
    /\ setup.preview
    /\ ~finished
    /\ previewSourceSentenceId = inputSentenceId
    /\ previewSource > 0
    /\ previewSourceSentenceId = previewedSentenceId =>
           previewSource > previewedWords

\* runPreview launches the preview, or the worker waits.
StartPreview ==
    /\ pc = "idle"
    /\ \/ /\ PreviewDue
          /\ previewedWords' = previewSource
          /\ previewedSentenceId' = previewSourceSentenceId
          /\ preview' = [at |-> "running", id |-> previewSourceSentenceId,
                         words |-> previewSource]
          /\ openSegments' = openSegments + 1
          /\ pc' = "preview"
       \/ /\ ~PreviewDue
          /\ pc' = "wait"
          /\ UNCHANGED <<previewedWords, previewedSentenceId, preview,
                         openSegments>>
    /\ UNCHANGED <<inputVars, queue, wakeUp, work, sentenceVars,
                   previewTranslation, previewTranslationSentenceId,
                   cancelled, outputVars>>

\* wakeUp.receive()
Receive ==
    /\ pc = "wait"
    /\ wakeUp
    /\ wakeUp' = FALSE
    /\ pc' = "take"
    /\ UNCHANGED <<inputVars, queue, work, sentenceVars, previewVars,
                   openSegments, cancelled, outputVars>>

\* Mutant of PreviewWoken: the preview is cancelled but not joined.
PreviewLeftRunning ==
    /\ pc = "preview"
    /\ wakeUp
    /\ wakeUp' = FALSE
    /\ pc' = IF queue # <<>> \/ finished THEN "take" ELSE "preview"
    /\ UNCHANGED <<inputVars, queue, work, sentenceVars, previewVars,
                   openSegments, cancelled, outputVars>>

\* runPreview's select received a wake-up: cancel the preview and join it if
\* there is work, otherwise go on.
PreviewWoken ==
    /\ pc = "preview"
    /\ wakeUp
    /\ wakeUp' = FALSE
    /\ pc' = IF queue # <<>> \/ finished THEN "join" ELSE "preview"
    /\ UNCHANGED <<inputVars, queue, work, sentenceVars, previewVars,
                   openSegments, cancelled, outputVars>>

\* The preview is over; a wake-up it consumed may have been for new work.
PreviewOver ==
    /\ pc \in {"preview", "join"}
    /\ preview.at = "off"
    /\ wakeUp' = TRUE
    /\ pc' = "take"
    /\ UNCHANGED <<inputVars, queue, work, sentenceVars, previewVars,
                   openSegments, cancelled, outputVars>>

\* Mutant of Redo: a failed piece is forgotten.
RedoUnlessFailed(failed, hadPieces) ==
    work.kind = "Final" /\ (work.diverged \/ (setup.restructure /\ hadPieces))

\* finishSentence translates the whole sentence again, in a new segment.
Redo(failed, hadPieces) ==
    work.kind = "Final" /\ (work.diverged \/ failed \/ (setup.restructure /\ hadPieces))

\* translatePiece and finishSentence up to their generation: enterSentence,
\* then what is left to translate.  A generation opens the segment it needs.
Enter ==
    /\ pc = "enter"
    /\ LET new == work.id # workerSentenceId
           old == IF new THEN NoSegment ELSE segment
           text == IF new THEN <<>> ELSE workerTranslation
           failed == pieceFailed /\ ~new
           redo == Redo(failed, old # NoSegment \/ text # <<>>)
           generate == redo \/ work.delta # <<>>
           kept == IF redo THEN NoSegment ELSE old
       IN  /\ workerSentenceId' = work.id
           /\ pieceFailed' = failed
           /\ workerTranslation' = IF redo THEN <<>> ELSE text
           /\ segment' = IF generate /\ kept = NoSegment THEN <<>> ELSE kept
           /\ openSegments' = openSegments
                 + (IF segment' = NoSegment THEN 0 ELSE 1)
                 - (IF segment = NoSegment THEN 0 ELSE 1)
           /\ work' = IF redo THEN [work EXCEPT !.delta = work.source] ELSE work
           /\ pc' = IF generate THEN "append" ELSE "resolve"
    /\ UNCHANGED <<inputVars, queue, wakeUp, previewVars, cancelled,
                   outputVars>>

\* appendStreaming: a token arrives (one stands for all).  It is shown if no
\* later sentence has started, which is read before it is published.
Token ==
    /\ pc = "append"
    /\ workerTranslation # segment \o work.delta
    /\ workerTranslation' = segment \o work.delta
    /\ pc' = IF work.id >= liveSentenceId THEN "show" ELSE "append"
    /\ UNCHANGED <<inputVars, queue, wakeUp, work, segment, workerSentenceId,
                   pieceFailed, previewVars, openSegments, cancelled,
                   outputVars>>

ShowPartial ==
    /\ pc = "show"
    /\ shown' = [kind |-> "Partial", id |-> work.id]
    /\ pc' = "append"
    /\ UNCHANGED <<inputVars, queue, wakeUp, work, sentenceVars, previewVars,
                   openSegments, cancelled, resolved, captions>>

\* The generation is complete.
AppendDone ==
    /\ pc = "append"
    /\ segment' = segment \o work.delta
    /\ workerTranslation' = segment'
    /\ pc' = IF work.kind = "Final" THEN "resolve" ELSE "take"
    /\ UNCHANGED <<inputVars, queue, wakeUp, work, workerSentenceId,
                   pieceFailed, previewVars, openSegments, cancelled,
                   outputVars>>

\* The translator throws: a piece is left to its final, a final is reported.
AppendFails ==
    /\ pc = "append"
    /\ \/ /\ work.kind = "Commit"
          /\ CloseSegment
          /\ pieceFailed' = TRUE
          /\ pc' = "take"
          /\ UNCHANGED <<workerSentenceId, workerTranslation, outputVars>>
       \/ /\ work.kind = "Final"
          /\ shown' = [kind |-> "Failed", id |-> work.id]
          /\ resolved' = work.id
          /\ captions' = Append(captions, [source |-> work.source, ok |-> FALSE])
          /\ pc' = "reset"
          /\ UNCHANGED <<sentenceVars, openSegments>>
    /\ UNCHANGED <<inputVars, queue, wakeUp, work, previewVars, cancelled>>

\* publish(Finalized(final.sentence, segment?.translation ?: workerTranslation))
Resolve ==
    /\ pc = "resolve"
    /\ shown' = [kind |-> "Finalized", id |-> work.id]
    /\ resolved' = work.id
    /\ captions' = Append(captions,
          [source |-> work.source, ok |-> TRUE,
           text |-> IF segment = NoSegment THEN workerTranslation ELSE segment])
    /\ pc' = "reset"
    /\ UNCHANGED <<inputVars, queue, wakeUp, work, sentenceVars, previewVars,
                   openSegments, cancelled>>

\* Mutant of LeaveSentence: the translation of the old sentence stays.
LeaveTheText ==
    /\ pieceFailed' = FALSE
    /\ workerSentenceId' = work.id + 1
    /\ UNCHANGED workerTranslation

LeaveSentence ==
    /\ pieceFailed' = FALSE
    /\ workerSentenceId' = work.id + 1
    /\ workerTranslation' = <<>>

\* finishSentence's finally, and the loop again, unless onState threw.
ResetSentence ==
    /\ pc = "reset"
    /\ CloseSegment
    /\ LeaveSentence
    /\ work' = NoWork
    /\ pc' = IF setup.throws /\ shown.kind = "Failed" THEN "crashed" ELSE "take"
    /\ UNCHANGED <<inputVars, queue, wakeUp, previewVars, cancelled,
                   outputVars>>

-----------------------------------------------------------------------------
(* The preview coroutine.                                                  *)

\* A token: kept if its sentence is still the one being spoken, and then
\* published, outside the lock.  A cancelled preview receives none.
PreviewToken ==
    /\ preview.at = "running"
    /\ pc # "join" /\ ~cancelled
    /\ preview.id = inputSentenceId
    /\ previewTranslation' = Words(preview.id, "heard", 1, preview.words)
    /\ previewTranslationSentenceId' = preview.id
    /\ preview' = [preview EXCEPT !.at = "publish"]
    /\ UNCHANGED <<inputVars, queue, wakeUp, pc, work, sentenceVars,
                   previewedWords, previewedSentenceId, openSegments,
                   cancelled, outputVars>>

PublishPreview ==
    /\ preview.at = "publish"
    /\ shown' = [kind |-> "Partial", id |-> preview.id]
    /\ preview' = [preview EXCEPT !.at = "running"]
    /\ UNCHANGED <<inputVars, queue, wakeUp, pc, work, sentenceVars,
                   previewedWords, previewedSentenceId, previewTranslation,
                   previewTranslationSentenceId, openSegments, cancelled,
                   resolved, captions>>

\* Mutant of PreviewEnds: its segment stays open.
PreviewLeaksItsSegment ==
    /\ preview.at = "running"
    /\ preview' = [at |-> "off", id |-> NoSentence, words |-> 0]
    /\ UNCHANGED <<inputVars, queue, wakeUp, pc, work, sentenceVars,
                   previewedWords, previewedSentenceId, previewTranslation,
                   previewTranslationSentenceId, openSegments, cancelled,
                   outputVars>>

\* It completes, fails or is cancelled: use { } closes its segment.
PreviewEnds ==
    /\ preview.at = "running"
    /\ preview' = [at |-> "off", id |-> NoSentence, words |-> 0]
    /\ openSegments' = openSegments - 1
    /\ UNCHANGED <<inputVars, queue, wakeUp, pc, work, sentenceVars,
                   previewedWords, previewedSentenceId, previewTranslation,
                   previewTranslationSentenceId, cancelled, outputVars>>

-----------------------------------------------------------------------------
(* Cancellation of the pipeline, which owns the worker.                    *)

Terminated == pc \in {"ended", "crashed", "cancelled"}

Cancel ==
    /\ ~cancelled
    /\ ~Terminated
    /\ cancelled' = TRUE
    /\ UNCHANGED <<inputVars, queue, wakeUp, pc, work, sentenceVars,
                   previewVars, openSegments, outputVars>>

\* A suspension point notices it: the finally of run() closes the segment,
\* after a preview has ended, and that of finishSentence leaves its sentence.
Unwind ==
    /\ cancelled
    /\ pc \in {"wait", "preview", "join", "append", "reset"}
    /\ preview.at = "off"
    /\ pc' = "cancelled"
    /\ CloseSegment
    /\ IF work.kind = "Final" /\ pc \in {"append", "reset"}
       THEN LeaveSentence
       ELSE UNCHANGED <<workerSentenceId, workerTranslation, pieceFailed>>
    /\ UNCHANGED <<inputVars, queue, wakeUp, work, previewVars, cancelled,
                   outputVars>>

-----------------------------------------------------------------------------
Input ==
    \/ \E n \in 1 .. MaxWords : OnPartial(n)
    \/ \E c \in Callers, n \in 1 .. MaxWords : OnFinal(c, n)
    \/ Finish

Worker ==
    \/ TakeWork
    \/ CheckFinished
    \/ StartPreview
    \/ Receive
    \/ PreviewWoken
    \/ PreviewOver
    \/ Enter
    \/ Token
    \/ ShowPartial
    \/ AppendDone
    \/ AppendFails
    \/ Resolve
    \/ ResetSentence
    \/ Unwind

Preview == PreviewToken \/ PublishPreview \/ PreviewEnds

Next ==
    \/ Input
    \/ \E c \in Callers : Signal(c)
    \/ Worker
    \/ Preview
    \/ Cancel

Spec == Init /\ [][Next]_vars

\* The worker runs, callers leave onPartial and onFinal, a generation ends
\* (its output is bounded), and a preview that was cancelled unwinds.  A
\* preview nobody cancels may go on for ever.  A cancelled worker may pass a
\* suspension point that has its result at hand, but not every one it meets:
\* its cancellation is strongly fair.
PreviewUnwinds ==
    /\ pc = "join" \/ cancelled
    /\ PublishPreview \/ PreviewEnds

Fairness ==
    /\ WF_vars(Worker)
    /\ SF_vars(Unwind)
    /\ \A c \in Callers : WF_vars(Signal(c))
    /\ WF_vars(PreviewUnwinds)

FairSpec == Spec /\ Fairness

-----------------------------------------------------------------------------
(* Properties.                                                             *)

\* The captions published, put end to end, are the finals accepted, put end
\* to end, up to the last one resolved: nothing is lost, repeated, reordered
\* or cut by the merging of pieces and finals in nextWork.
CaptionsCoverTheFinals ==
    FlattenSeq([n \in DOMAIN captions |-> captions[n].source])
        = FlattenSeq(SubSeq(heard, 1, resolved))

\* A Finalized translation translates every word of its final, once, in
\* order, and no other word: pieces appended before it, a piece that failed,
\* a revision of what was committed and a restructured sentence included.
FinalTranslatesItsSentence ==
    \A n \in DOMAIN captions :
        captions[n].ok => captions[n].text = captions[n].source

\* translationForCurrentSentence never returns words of another sentence,
\* wherever the worker and the preview are between their updates.
CurrentTranslationIsCurrent ==
    /\ workerSentenceId = inputSentenceId =>
          \A i \in DOMAIN workerTranslation :
              workerTranslation[i][1] = inputSentenceId
    /\ previewTranslationSentenceId = inputSentenceId =>
          \A i \in DOMAIN previewTranslation :
              previewTranslation[i][1] = inputSentenceId

\* Every native segment opened and not closed is held by the worker or by
\* the preview, so a worker that has returned, died or been cancelled leaves
\* none open.
NoSegmentLeaks ==
    openSegments = (IF segment = NoSegment THEN 0 ELSE 1)
                 + (IF preview.at = "off" THEN 0 ELSE 1)

\* A partial is never published for a sentence that has its caption, nor for
\* one older than the last partial: the worker and the preview do not
\* overwrite each other's later sentence.
PartialsNeverGoBack ==
    [][shown' # shown /\ shown'.kind = "Partial" =>
          shown'.id > resolved /\ (shown.kind = "Partial" => shown'.id >= shown.id)]_vars

\* Every accepted final gets its caption unless the worker is cancelled or
\* onState throws: no wake-up is lost, and a preview that never ends does not
\* hold back committed work.
EveryFinalIsCaptioned ==
    \A n \in 1 .. MaxSentences :
        inputSentenceId > n ~> resolved >= n \/ cancelled \/ pc = "crashed"

\* The stage keeps the promise of CaptionLog: captions follow the finals, one
\* by one or merged, and finish() ends the output unless it is abandoned.
Log == INSTANCE CaptionLog WITH
          accepted <- inputSentenceId - 1,
          captioned <- resolved,
          closed <- finished,
          output <- IF pc = "ended" THEN "complete"
                    ELSE IF pc \in {"crashed", "cancelled"} THEN "abandoned"
                    ELSE "live"

CaptionLogSpec == Log!Spec
=============================================================================
