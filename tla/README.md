# Subly SDK: specification and verification

Subly is an Android library that captions live audio: it captures sound,
recognises speech on the device, translates it on the device, and gives the
application a stream of captions. This directory holds TLA+ models of the parts
of it where order and timing decide what is correct, TLC configurations that
check them on small instances, and proofs that TLAPS checks for every value of
the constants: about the session's lifecycle and what its captions are made
with, the translation stage, the language model's translator and its crash
guard, the Whisper engine, the hand-over between translators, the speech gate,
the models on disk, and the native thread pool.

Paths are relative to the repository; `sdk/` is short for
`sdk/src/main/java/com/helios/subly/sdk/`, and likewise for the other modules.

## 1. The system

| Component | State | Operations | Where |
|---|---|---|---|
| Session | `_state`, `config`, `prepJob`, `pipelineJob`, the coroutine scope, the two engines | `prepare`, `start`, `setLanguages`, `stop`, `close`; `runPreparation`, the pipeline | `sdk/SublySession.kt` |
| Sentence assembly | the pool of unfinished text, words seen last, sentences committed early, last caption, the idle flush's job | a partial, a final, the timer, the end of the audio | `runPipeline` in `sdk/SublySession.kt`, `sdk/SentenceExtractor.kt`, `sdk/EarlyCommitter.kt`, `sdk/PunctuationRestorer.kt` |
| Translation stage | queue, wake-up channel, open segment, current translation, preview | `onPartial`, `onFinal`, `finish`, the worker `run`, the preview, cancellation | `sdk/streaming/StreamingTranslationStage.kt` |
| Wait-k buffer | units of the last hypothesis, units committed | `onPartial`, `onFinal`, `reset` | `sdk/streaming/WaitKBuffer.kt` |
| Hand-over translator | primary's job, its state, whether it is usable | `prepareModel`, `translate`, `openSegment`, `release` | `sdk/translation/HandoverTranslator.kt` |
| LLM translator | engine, language pair, active conversation, inference lock; crash markers on disk | `prepareModel`, `translate`, segments, `release` | `translator/litertlm/LiteRtLmTranslator.kt`, `core/model/DelegateCrashGuard.kt` |
| ML Kit translator | one client | `prepareModel`, `translate`, `release` | `translator/mlkit/MlKitTranslator.kt` |
| Whisper engine | native context with its language, pinned language and carried text; handle, target language, queue of windows | `prepareModel`, `transcribe`, `release` | `asr/whisper/WhisperTranscriber.kt`, `asr/whisper/src/main/cpp/whisper-jni.cpp` |
| Other recognisers | model handle, claimed pair, decoding state | `prepareModel`, `transcribe`, `release` | `asr/vosk`, `asr/sherpa` |
| Speech gate, segmenter | delay line, verdicts; segment, pre-roll, noise floor | `process`, `flush`, `reset`; `chunk` | `asr/vad/SpeechGate.kt`, `asr/whisper/SpeechSegmenter.kt` |
| Downloads | temporary and final files | provision, download, rename, verify, unpack | `core/downloader`, the `*ModelLoader.kt` |
| Native thread pool | generation counter, barrier, chunk counter, `stop`, `pause`, `abort`, a mutex and a condition | compute a graph, pause, resume, free | `asr/whisper/src/main/cpp/ggml/src/ggml-cpu/ggml-cpu.c` |
| Capture | recorder | read loop | `audio/impl` |

How they interact:

* The application calls the session's methods from any thread; they exclude one
  another through the session's monitor. `prepare` and `setLanguages` launch a
  preparation, `start` the pipeline, on a scope that runs on
  `Dispatchers.Default`. A switch of languages cancels both jobs and launches a
  preparation that joins them; the pipeline joins the preparation. Everything
  the application sees of this goes through `_state`.
* The pipeline collects the recogniser. Each result goes through the pool and
  the early committer, and the sentences that come out are handed to the
  translation stage, or translated on the spot when the translator is not
  incremental. A coroutine per final, the idle flush, takes what stays in the
  pool after a silence; it shares the pool with the collector under a mutex, and
  nothing else.
* The stage has a lock for what the collector and the worker share, a conflated
  channel that wakes the worker, and one preview coroutine at a time. What it
  publishes goes through `onState` to the caption channel; an exception there
  ends the pipeline.
* Engines are prepared by a flow that the session collects. Cancelling the
  collection does not interrupt a native load: a cancelled preparation can
  install its model later, after anything the session has done meanwhile, and
  a later preparation can overlap it.
* The hand-over is a translator of its own above two others: it prepares a fast
  one and a good one at once, the good one in a job that outlives the
  preparation, and picks one of them when a sentence begins.
* The language model's translator tries its compute delegates in order. A
  delegate that crashes takes the process with it, so a marker on disk has to
  tell the next process, which also asks the platform what the last one died of.
* Whisper's segmenter runs in a coroutine of its own and puts windows into an
  unlimited channel; the transcriber takes them, skips partial windows that are
  stale, and calls native code under a lock that language changes and release
  take too. The native code computes its graphs on a pool of threads.

What is hard here is not the data but the schedules: a cancelled coroutine that
has passed its last suspension point; a guard and the write it guards in two
steps; a timer that fires while a result arrives; a wake-up sent while nobody is
waiting; native resources that must be closed on every path, failure and
cancellation included; work that must survive the end of the audio.
`PROJECT.json` lists these hazards line by line, with the properties that would
catch each going wrong.

### What makes each component correct

* Session: one live preparation and one live pipeline at most; a preparation
  never replaces a model under a pipeline that uses it; captions are made with
  the pair the session is set to; joins never deadlock; after `close` nothing
  runs and nothing is left loaded.
* Assembly: every recognised word is captioned once, in the order of the speech.
* Stage: every final it accepts gets one caption, in order, whose text is the
  translation of that final and nothing else; no native segment is left open; a
  live caption never goes back to an earlier sentence.
* LLM translator and crash guard: a delegate that killed the process is not
  tried again for a day and no other is skipped; a model is never freed under a
  generation.
* Hand-over: every preparation is answered, as ready only if an engine serves
  the pair asked for; a sentence has an engine that is ready for its pair.
* Whisper: no native context is used after it is freed, freed in use or lost;
  what was said before a switch does not bias what comes after; speech that was
  loud for long enough to open a segment reaches the model in a final window,
  and after a window that says the speaker goes on the segment stays open until a
  window ends it.
* Thread pool: threads are never in different phases of a graph, a chunk of work
  is done once, the caller has the pool to itself between two graphs, and no
  wake-up is lost.
* Gate and streaming recognisers: no word loses its beginning to the gate and no
  short pause its sound; what a stream captures is captioned once, its tail
  included.
* Downloads: no download is under its final name before it is complete; what a
  loader takes for a model is damaged only where a flow ended before the loader
  could tell; and no failure leaves files on which every retry fails, but for a
  device that has no room for a second copy of the language model.

## 2. Modules

| Module | What it is |
|---|---|
| `SublySession` | the session's methods, jobs and engines |
| `SublySessionProofs` | its theorems |
| `MCSublySession` | its instances |
| `StreamingTranslationStage` | recogniser's side, worker, preview |
| `StreamingTranslationStageProofs` | its theorems, and that it implements `CaptionLog` |
| `CaptionLog` | what a stage promises, the abstract specification |
| `MCStreamingTranslationStage` | its instances |
| `SentenceExtractor` | the pool, as operators on its state |
| `EarlyCommitter` | sentences committed from partials, as operators; extends the pool |
| `SentenceAssembly` | the collector and the idle flush; extends both |
| `SentenceAssemblyProofs` | its theorems |
| `MCSentenceAssembly` | the recognisers and pipelines it is checked with |
| `LiteRtLmTranslator` | the delegates, the crash guard, inference and release |
| `MCLiteRtLmTranslator` | a device |
| `HandoverTranslator` | preparation, the primary's job, sentences |
| `TranslatorProofs` | theorems about both translators |
| `SpeechSegmenter` | the segmenter, as actions |
| `WhisperTranscriber` | preparations, native contexts, the loop of `transcribe`; extends the segmenter |
| `WhisperTranscriberProofs` | theorems about both |
| `MCWhisperTranscriber` | its instances |
| `SpeechGate` | the gate: window, verdicts, delay line |
| `StreamingTranscriber` | `transcribe` of sherpa and Vosk, the gate in front, release and preparation; extends the gate |
| `StreamingTranscriberProofs` | theorems about both |
| `GgmlThreadPool` | the native thread pool and its barrier |
| `GgmlThreadPoolProofs` | its theorems, and that it implements `GraphCompute` |
| `GraphCompute` | what computing a graph promises, the abstract specification |
| `MCGgmlThreadPool` | a pool and the graphs it is given |
| `ModelStore` | the downloader and the five model loaders, with the files they share |
| `ModelStoreProofs` | its theorem |
| `MCModelStore` | one model of each kind |

### SublySession

A method is cut wherever it reads or writes what a coroutine also writes, that
is `_state` and the completion of a job: `Prepare` then `PrepareState`, `Start`
then `LaunchPipeline`, `SetLanguages` then `Relaunch`, `Stop`, `StopRead`,
`StopWrite`, and `Close` to `CloseTranslator`. `monitor` says where the method
holding the monitor is. Only methods cancel jobs, assign `prepJob`,
`pipelineJob` and `config`, and write `Closed`, so those parts are one step. A
call that `checkNotClosed` rejects, or that finds nothing to do, changes nothing
and has no action; in particular `Stop` is there only when there is a job to
cancel or a state to write.

`startWith` and `start` are one action: the audio source they differ in is not
part of the state.

A job is `new`, then in its joins, in its body, and `exit`, `done` or `skipped`
(cancelled before its body went past its joins). A coroutine is cut at each
suspension point, where alone it notices a cancellation, and before each write of
`_state` (`Publish`), since the check that lets it go on and the write are not
one step. `prepareModel` runs in a producer of its own (`flowOn(IO)`); the
producer's steps and the collector's writes appear in the order in which one
causes the other.

An engine in `PairBound` keeps one model per language pair (Vosk and sherpa: it
claims the pair, frees the old model, loads), the others serve every pair once
loaded. `strayed` is a history variable with two causes. A cancelled job that no
current job waits for has written `_state` or touched an engine, which the
code's own chain of joins is there to prevent and two quick switches bring about
(section 6); or `stop` has written `Ready` over another state than the `Running`
it had read (section 7). The properties that need it absent say so.

### StreamingTranslationStage

Text is a sequence of words `<<sentence, version, position>>` and a translation
the sequence of the words it translates, so that "the caption translates its
final" is an equation. The wait-k buffer is represented by how many words it has
committed and by what it may return: a nonempty piece of what two hypotheses
agree on, or nothing; `Continue` or `Diverged` for a final. The worker's `pc`
has a value for each place between two lock sections or suspensions. `wakeUp` is
the conflated channel's token and `signalling` the callers between the lock and
their `trySend`. `PreviewOver` consumes a token as the `select` does. The
`trySend` that follows the preview is not modelled: the worker looks at the
queue before it waits, so that token can only cause one more empty look.

`CaptionLog` is the stage's promise in four variables: sentences accepted, how
many have their caption, whether the input is closed, and whether the output is
live, complete or abandoned. `CaptionLogSpec`, checked as a property, says that
the stage implements it, liveness included.

### SentenceAssembly

Text is a sequence of tokens. A token has a word, and says whether a terminator
follows it and whether it is capitalised; comparing words is comparing what
`normalizeWord` leaves. The speaker says the words 1, 2, ... in order, and which
of them end a sentence is chosen at the start; a recogniser sees a piece of the
speech and may or may not write its terminators. `Setup` describes pipeline and
recogniser together: inline translation or a stage, punctuation restored or not,
and what the recogniser does (partials, terminators, whether a final says it
ended a sentence, overlap with the window before, a blank final after partials,
words heard differently in the final).

The collector is one coroutine: `ReceivePartial` to `CommitEarly`, `ReceiveFinal`
to `ClosePool`, `Assemble` and `LaunchFlush`, and `EndOfAudio` to `DrainTail` and
`FinishStage`; `agenda` holds the sentences it is about to hand in, one `Emit`
each. A flush is in its delay, awake, holding drained text, or translating. The
timer is abstract: it may fire at any time, which includes the three seconds and
the longer time after a window that was cut.

What the model leaves out: characters (offsets and lengths are counted in words,
and the similarity of revised sentences is Dice's over words instead of over
pairs of letters); the comma a forced split prefers and the limits for scripts
without spaces; the splitting of a long sentence into parts; speech that says
the same words again; the overlap that a partial, not only a final, has with the
window before; the duplicate check and the hand-in by the collector are one
step, since the flush alone runs beside it.

### LiteRtLmTranslator

A preparation is cut where another thread or the end of the process can come in
between: the test of `engine`, the space check and download, the guard's
question, arming, initialisation, the probe, disarming, and installing the
engine under `inferenceLock`. `at` is the delegate of `delegateOrder()` it is
trying. Preparations may overlap, because the session lets them (section 6).

A marker has an age, counted up to the guard's limit, and the exits of the
process that the platform remembers since it was written, oldest first and at
most `MaxExits` of them. `Die` records an exit on every marker and starts
everything that is not on disk anew (`NewProcess`); it is what a crashing
delegate does (`Crash`) and what the platform does at any other time (`Kill`,
for want of memory or for another reason). `Skipped` is `skipReason`: the first
exit decides, not the last.

`blamed`, `excused` and `overlapped` are history variables: the delegates on
which the process died of something other than memory; those of whose last
attempt the guard cannot know, because the marker was not written, the platform
forgot the exit, or two preparations shared the marker; and whether two
preparations have loaded in this process.

`Translate` tests `engine` outside the lock, `Generate` reads it again under it,
and `FreeEngine` is `release` once it has the lock.

### HandoverTranslator

Each collection of `prepareModel` has a number and a pair of its own; `serves`
says which pairs the primary takes. `phase` is the preparation, `fast` its fast
job, and `job` has the primary's job of every preparation, since a superseded one
is cancelled and not waited for. A cancelled job stops where it suspends
(`Unwind`), which it need not do between storing a state and the next
suspension; loading and warming up cannot be interrupted. `primaryReady`,
`usable` and `primaryState` are the translator's fields of nearly those names.
Its specification is `HandoverSpec`: names that `LiteRtLmTranslator` has too are
avoided, so that one module can hold the proofs about both.

The two engines appear as this translator sees them: ML Kit closes a client and
opens one for the new pair (`fastFor`); LiteRT-LM refuses a pair it does not
serve and otherwise takes it on at once (`primaryFor`), loading if it is not
loaded. The session's part is its guard: it prepares when nothing is being
prepared and no sentence is open.

### SpeechSegmenter and WhisperTranscriber

Audio is frames of one length, numbered from 1, and a window is an interval of
them. Whether a frame is speech is free. The four actions are the four ways
through the body of the loop: `Wait`, `Grow` with or without a partial window,
`Cut` at the length cap with the tail carried over, and `CloseSegment`; then
`EndOfStream`. `owed` is a history variable with the frames of speech that no
recogniser has been given yet, `continuing` what the last final window said.

A native context is named after the preparation that made it, and what it
remembers (`set`, `pinned`, `carry`) after the preparation whose language was
set then, so that text of before a switch can be told from text of after it. A
native call is two steps with `nativeLock` held (`decoding`), because other
threads run meanwhile; preparing has a step for each access to `handleRef` and
`targetLangRef`. `NotDecoded`, `NotCarried` and `Carried` are the three ways
`nativeTranscribe` ends: without having run the model, with its text dropped, or
with its text carried into the next prompt; the last two may pin a detected
language.

### SpeechGate and StreamingTranscriber

Samples are numbered as they are captured, so that what a final contains can be
compared with what was said. Sound is a sequence of pieces, a frame or a window
of the gate each; a muted window is an empty piece, and of a sequence of such
pieces there is nothing to recognise (`Blank`). A window that is full gets a
verdict of the VAD, which is free, and stays in `windows`; the queues hold its
place there. `process` is cut between two windows (`Fill`, `Judge`, then `Drain`),
since `release` does not wait for it; after `release` the windows that are left
of the frame are judged audible. `muted` is a history variable. `silentWindows`
stops counting at `CloseAfter`, where more make no difference.

A hypothesis is what the decoder has taken since its last reset. Where an
utterance ends is free, because it is the native library that decides. Sherpa
takes the text, emits it and resets the decoder, in three steps with a suspension
in the first two; Vosk is asked for its final text, which resets it, before the
`emit`. `EndOfAudio`, `AcceptTail` and `EmitLast` are `onCompletion` of sherpa;
Vosk has none. `Cancel` is where a collector can notice it. `Prepare` has the
session's guard: nothing is transcribed meanwhile. It frees what was loaded, loads
another model or fails, and leaves the gate as it is but for a VAD that it opens.

### GgmlThreadPool

One step of a thread is one atomic access or one critical section. Thread 0 is
the caller of `ggml_graph_compute`. A worker is in its loop in the pool
(`top`, `stopCheck`, `poll`, `check`, waiting on the condition in `pauseWait`
and `workWait`) or in a graph (`loop`, a node's work, the barrier). A node is
empty, plain, fused with the next, or a matrix product, whose rows are drawn in
chunks from `current_chunk` after each thread has converted its share of the
operand. `Working` marks a thread in the middle of a task, so that two of them
can be seen together. The polling loop is one look that may give up; the abort
callback may ask at every node; `ggml_cond_wait` may wake by itself.

`GraphCompute` promises, in four variables, that a graph is worked off phase by
phase, every task once, and that the call returns when nothing is left or after
a whole number of phases when it was asked to stop. A node has two phases
(`FirstPhase`, `SecondPhase`), the second one the chunks of a matrix product;
either may be empty. `GraphComputeSpec`, checked as a property, says that the pool
implements it, liveness included.

### ModelStore

A model has a way of getting onto the device: `plain` (whisper, the speech
gate), `sized` (the language model, whose file must be long enough), `checked`
(sherpa, with a hash for some files), `zipped` (Vosk) or `bundled` (sherpa, from
the app's assets). A flow is one collection of `provisionWithProgress`, and two
may run at once, because the session's preparations may.

`path` and `temp` lead from a name, and from the name with `.tmp`, to a file, and
an open stream holds its file whatever becomes of the name: `out` and `src` are
the streams. A file is two blocks, so that it can be half written. `Connect` to
`EmitLast` are `downloadModel`, cut between the writes and between `delete`,
`renameTo` and the last `emit`; `DownloadFails` is its `catch`, for an error and
for a cancellation, which is noticed only where something is emitted. An answer
is the file, another one of its length, a short text, or nothing; the downloader
looks at the status and not at the length. `Verify`, `Finish` and `Unpack` are
what the loaders do next. An unpacking writes entry after entry under the final
names and ends early by an error or a cancellation (`UnpackFails`) or because the
archive has no directory or a wrong sum (`Damaged`); the Vosk loader swallows
both and deletes the archive.

A preparation of the language model ends in an error when the device reports less
space than a copy of the model and a margin (`InsufficientSpace`: `Needed` is two
blocks and one), before the loader looks at any file. `room` is what the device has
for the model and the files it leaves; `Usable` is what is left of it beside the
blocks written so far, under whatever name. A preparation that is refused changes
nothing, so it is no step. `Provision` is one that is not.

`Die` ends the process at any step and leaves the files as they are. `unchecked`,
`stopped` and `overlapped` are history variables: names given to downloads whose
hash was not compared yet, the entry at which the last unpacking ended early (the
place behind the last one if it did not), and whether two flows ran at once. What a
loader deletes before it begins is one step. `StoreAssumption` says of a model what
the loaders rely on: no name is in a list twice, what is unpacked has other names
than what it is unpacked from and is what `hasRequiredFiles` looks for, and a file
that has a hash is looked for too.

## 3. Runs

Every run is `tlc -workers 2 -config <run>.cfg <module>`, with the `MC` module of
the component, or `HandoverTranslator` or `StreamingTranscriber` itself.
Deadlock is not checked: an idle or closed session, a worker that has returned,
a freed pool and a pipeline that is done may rest for ever, and what must not
rest is a liveness property.

| Run | Checks | Bounds | States |
|---|---|---|---|
| SessionSafety | `TypeOK`, `OneLiveJobOfEachKind`, `OverlapNeedsASkippedPreparation`, `CaptionsNeedThePreparedPair`, `NoPreparationUnderALivePipeline`, `NothingStartsAfterClose` | two pairs, four jobs | 2 476 608 |
| SessionLiveness | `EveryJobSettles`, `PreparingIsTransient` | two pairs, three jobs | 178 666 |
| StageSafety | `CaptionsCoverTheFinals`, `FinalTranslatesItsSentence`, `CurrentTranslationIsCurrent`, `NoSegmentLeaks`, `PartialsNeverGoBack` | two sentences of up to two words, three policies | 3 542 928 |
| StageLiveness | `EveryFinalIsCaptioned`, `CaptionLogSpec` | two sentences of one word, two callers, three policies | 266 352 |
| AssemblySafety | `NoWordIsLost`, `EachWordIsCaptionedOnce`, `CaptionsFollowTheSpeech` | four words, three partials per utterance, seven recognisers | 2 217 419 |
| AssemblyLiveness | `PooledTextIsFlushed` | three words, two partials, two recognisers | 100 699 |
| LiteRtLm | `EngineOutlivesItsUse`, `NoEngineLeaks`, `DelegateRestsAfterItsCrash`, `SkipsAreDeserved`, `TranslatorAtLast` | GPU and CPU, two preparations, one user, one tick to expiry, two exits, two faults | 923 425 |
| Handover | `SentencesHaveTheirEngine`, `PreparationsAnswer` | three preparations | 47 827 |
| Whisper | `ContextsOutliveTheirUse`, `NothingCrossesASwitch`, `NoSpeechIsLost`, `UtterancesEnd` | two preparations, seven frames, two streams | 2 198 297 |
| ThreadPool | `TypeOK`, `PhasesAgree`, `EachChunkOnce`, `QuietPool`, `FreeReturns`, `GraphComputeSpec` | three threads, two graphs | 159 089 |
| Models | `DamageIsWhereAFlowEnded`, `ProvisionedAtLast` | seven models, two flows, three faults | 435 455 |
| Transcriber | `SpeechIsNotMuted`, `StreamIsCaptioned` | windows of two samples, frames of up to three, ten samples, two streams | 1 948 143 |

Why the bounds are enough for what they ask:

* Session. Four jobs are the least with which a third preparation can overlap the
  first across a skipped second one while a pipeline exists, and with which the
  stale write of `stop` leaves a `Ready` that a later pipeline believes; two pairs
  allow a switch and a switch back. One engine is pair-bound and one is not, which covers
  Vosk or sherpa with ML Kit or LiteRT-LM. The other engine of each kind behaves
  as one of these two.
* Stage. With two sentences there is a current, a later and a finished one.
  `MergeMaxWords` 3 lets two one-word finals merge and keeps two of two words
  apart. Pieces, forced and clause commits differ only in how many words they
  take, which is free. Two callers of `onFinal`, the collector and the flush, are
  in the liveness run, where wake-ups matter; the lock makes the safety run
  indifferent to who calls. All five properties of the safety run are proved for
  every bound and policy.
* Assembly. `MaxSentenceWords` 3 forces a split within four words; `OverlapWords`
  3 and `MinOverlapWords` 2 make an overlap of two words one that is stripped;
  `StablePartials` 2 and three partials allow a commit, a new candidate and a
  partial after the commit. The recognisers are: one whose text a model
  punctuates, with and without punctuation restored; one that cases and
  punctuates; windows with overlap cut at a cap; one without punctuation whose
  final may be blank; one that hears a committed word differently; and an inline
  pipeline. The three properties are proved for every recogniser that is `Steady`
  and all of these numbers.
* LiteRtLm. Any number of crashes is possible, because a crash is what the GPU
  does and is not counted; two faults are what it takes to be killed for one
  reason and then for another, to let a marker age, or to lose a marker and be
  killed. Two remembered exits let the first be forgotten. Delegates between the
  first and the last behave as the first. The safety properties are proved for
  all of these numbers.
* Handover. The third preparation meets what the second and the first left
  behind. The safety property is proved for any number.
* Whisper. The lengths keep the order of the SDK's (the pause that ends a segment
  is as long as the shortest one, the overlap at least as long, the cap longer
  than the pre-roll), seven frames reach the cap, go on after it and open another
  segment, and two preparations race. All are proved for any number of
  preparations and all lengths, `NoSpeechIsLost` for lengths in these proportions.
* ThreadPool. With three threads and plans for two of them and for three (four,
  which the pool cuts down), there is a last thread to arrive, one that lags and
  one that is not part of the graph. Eight chunks are too few for three threads
  and enough for two, so both ways of dealing them out occur. The shapes have each
  kind of node; two graphs let a worker that lags behind the first meet the second.
  The invariants are proved for any number of threads, graphs and chunks.
* Transcriber. Frames of one to three samples end before, at and after the end of
  a window of two, and hold up to two ends. Ten samples are five windows: enough
  to close the gate (two), to mute, to reopen within the look-ahead (one), and to
  do so across the end of a stream. What the gate mutes is proved for all of these
  numbers.
* Models. One model of each way, sherpa's once with a hash on its first file and
  once on its last, the language model once with just the room that is asked for,
  where any leftover block is in the way, and once with twice that, the least with
  which none can be. Three faults allow a death, a restart, another failure on what
  that left behind, and a third on what that left; a wrong answer and an overlap
  count as faults. Vosk's archive has two required entries and one that is not
  looked for, like the real ones. The invariant is proved for any models, number
  of flows and of faults.

### What the properties say

Session. `OverlapNeedsASkippedPreparation` is how far the chain of joins goes:
two preparations meet in an engine only across a third that was cancelled while
waiting for the first. `CaptionsNeedThePreparedPair` relates a pipeline that runs
to both engines and `config`, through every order of switch, failure and retry.
`NoPreparationUnderALivePipeline` is the other side: while a pipeline that nobody
cancelled runs, a preparation in an engine is a cancelled one that nobody waits
for, which is `strayed` as soon as it does anything there.
`NothingStartsAfterClose` covers calls that slip past `checkNotClosed` because a
late write replaced `Closed`.

Stage. `CaptionsCoverTheFinals` flattens captions and finals and compares them,
so loss, repetition, reordering and a wrong merge all violate it.
`FinalTranslatesItsSentence` does the same inside a caption: pieces, a failed
piece, a divergence, a restructured sentence. `NoSegmentLeaks` counts native
segments against their two owners. `PartialsNeverGoBack` is about the worker and
the preview, which publish outside the lock.

Assembly. `NoWordIsLost`, `EachWordIsCaptionedOnce` and
`CaptionsFollowTheSpeech` relate what a recogniser finalised to what reached
translation. They are stated for recognisers that are `Steady` (section 7 says
what happens with others) and as long as no cancelled flush went on (`strayed`).
What `Steady` says of `echoes` showed itself in the proof: an extractor looks for
no fewer words than `MinOverlapWords`, and a partial is not stripped at all.
`PooledTextIsFlushed` is the idle flush's purpose.

LLM translator. `DelegateRestsAfterItsCrash` and `SkipsAreDeserved` compare the
guard's decision with what really happened, over any sequence of deaths and
restarts: after the death it rests, and nothing rests without one. They excuse
what the guard cannot know (`excused`) and, for a skip, an overlapping
preparation. `NoEngineLeaks` is about the paths of the fallback chain, and holds
until `release` and as long as preparations do not overlap (section 7).
`TranslatorAtLast` is why the guard exists: an app that keeps asking gets its
translator on a device whose first delegates never work.

Hand-over. `SentencesHaveTheirEngine` relates the engine of the open sentence to
the last preparation, whichever engine won and whatever is left of the
preparations before. Where the primary does not serve the new pair, or its job
has not begun, it only says that the primary is loaded (section 6 has the rest).
`PreparationsAnswer` is the absence of a preparation that waits for a flow no job
will write.

Whisper. `ContextsOutliveTheirUse` is use after free, double free and leak in
one, for as long as `release` was not called (section 7 says what it meets).
`NothingCrossesASwitch` relates the language under which something was decoded to
the one the context has now. `NoSpeechIsLost` follows frames through pre-roll,
overlap, queue and skipping. `UtterancesEnd` is about windows: after one that says
the speaker goes on, the segment is open and long enough to be closed by one that
says he does not. The stage above hears of that one only if its text is not empty
(section 7).

Gate and streaming recognisers. `SpeechIsNotMuted` relates what was given out as
silence to the verdicts around it, before and after, through every way of cutting
the audio into frames, a flush, a release in the middle and a stream that finds
what another left in the queues. `StreamIsCaptioned` follows samples through the
window, the delay line, the decoder and `pendingText` to the finals: at most once,
and with sherpa exactly once at a clean end, but for what is muted and a last
window that was not full. It looks at samples of the stream itself; section 6 says
what the stream before adds to it.

Thread pool. `PhasesAgree` is the barrier, `QuietPool` the comment in the code
that no worker accesses the graph's parameters while the caller rewrites them,
`EachChunkOnce` the counter that one thread resets under the others' feet,
`FreeReturns` and `GraphComputeSpec` the wake-ups.

Models. `DamageIsWhereAFlowEnded` says how far the damage of errors, cancellations
and deaths reaches, since the loaders do accept damaged models (section 6). A part
of an answer is never under the final name of a download, also for the next
process. In a model that is ready, a file with a hash may be wrong only if it was
not hashed since it got its name, and then it is the last of its model: the files
before it were compared, and none behind it is there. In an unpacked model every
entry before the one at which the unpacking ended is whole; of that one and those
behind it nothing is said, and they may be half-filled or missing. It leaves out
flows that overlapped altogether.

`ProvisionedAtLast` is there for overlaps, too. No failed rename, short file,
rejected file or damaged archive makes every later attempt fail, and for the
language model nothing does where there is room for two copies. With less there is
one exception, `StoppedByLeftovers`: what an earlier flow left, a temporary file or
a short one under the final name, takes the space that every later preparation
asks for before anything clears it. With just the room for one copy, one death in
the middle of a download is enough (section 6).

## 4. Fairness

* Session: `WF` on each coroutine and on a method that holds the monitor. The
  coroutines run on `Dispatchers.Default`; an engine's `prepareModel` terminates,
  by its contract or by its time limits. The application need not call anything
  and the audio need not end, so `Call` and `World` are not fair.
* Stage: `WF` on the worker, on a caller that has left the lock, and on a preview
  that has been cancelled. A generation ends, because its output is limited to a
  number of tokens; a preview that nobody cancels gets no fairness, since it may
  outlast the sentence. Cancellation of the worker (`Unwind`) is strongly fair:
  a cancelled coroutine may pass a suspension whose result is at hand, but it
  does not meet only such ones for ever.
* Assembly: `WF` on the collector and on the flush (its delay ends). `WF` on the
  recogniser once it has emitted a partial: then a final of that utterance or a
  blank one is coming. Nothing makes the speaker go on or the audio end.
* LLM translator: `WF` on a preparation, on its caller, on a generation, on
  `release` once called, and on the start of the app: native calls return, and an
  app whose user wants captions is opened again and prepares again. Nobody has to
  cancel, release or translate, and no fault is fair.
* Hand-over: `WF` on the preparation, on the fast engine, which has a time limit
  on its download, and on each primary job: a load and a generation end.
  Preparing, cancelling and releasing are free.
* Thread pool: `WF` on each thread, in a graph and in the pool, and on what the
  caller does inside a call. Submitting, pausing and freeing are free, and a
  spurious wake-up is never relied on.
* Models: `WF` on the steps of a flow, on the start of the process, and on
  `Provision`, since an app that wants a model prepares again while it has none;
  this gives nothing where the space check refuses, since `Provision` is then not
  enabled.
  No fault is fair, and there are finitely many.
* Whisper and the streaming recognisers have no liveness property: audio need not
  come.

What the models assume of the platform: atomics of the pool are sequentially
consistent; deleting a file succeeds (writing a marker may fail); the native
library is there.

## 5. Proofs

Each theorem is for every value of the constants, from the assumptions named in
the component's modules alone; `SpeechIsKept` has a hypothesis of its own, which
is explained below.

| Module | Theorem | Says |
|---|---|---|
| `SublySessionProofs` | `TypeCorrect` | `Spec => []TypeOK` |
| | `OneLiveJob` | `Spec => []OneLiveJobOfEachKind` |
| | `OverlapExplained` | `Spec => []OverlapNeedsASkippedPreparation` |
| | `CaptionsPrepared` | `Spec => []CaptionsNeedThePreparedPair` |
| | `NoPreparationMeetsCaptions` | `Spec => []NoPreparationUnderALivePipeline` |
| | `NothingStarts` | `Spec => NothingStartsAfterClose`, an action property |
| `StreamingTranslationStageProofs` | `SegmentsAreHeld` | `Spec => []NoSegmentLeaks` |
| | `CaptionsCover` | `Spec => []CaptionsCoverTheFinals` |
| | `FinalsAreTranslated` | `Spec => []FinalTranslatesItsSentence` |
| | `CurrentIsOfItsSentence` | `Spec => []CurrentTranslationIsCurrent` |
| | `PartialsGoForward` | `Spec => PartialsNeverGoBack`, an action property |
| | `StageImplementsCaptionLog` | `Spec => Log!Init /\ [][Log!Next]_Log!vars`, the refinement without its fairness |
| `SentenceAssemblyProofs` | `WordsAreKept` | `Spec => []NoWordIsLost` |
| | `WordsAreCaptionedOnce` | `Spec => []EachWordIsCaptionedOnce` |
| | `CaptionsAreInOrder` | `Spec => []CaptionsFollowTheSpeech` |
| `TranslatorProofs` | `TypeCorrect` | `Spec => []TypeOK` |
| | `EngineIsSafe` | `Spec => []EngineOutlivesItsUse` |
| | `EnginesAreAccountedFor` | `Spec => []NoEngineLeaks` |
| | `DelegatesRest` | `Spec => DelegateRestsAfterItsCrash`, an action property |
| | `SkipsAreEarned` | `Spec => SkipsAreDeserved`, an action property |
| | `SentencesAreServed` | `HandoverSpec => []SentencesHaveTheirEngine` |
| `WhisperTranscriberProofs` | `TypeCorrect` | `Spec => []TypeOK` |
| | `HandlesAreSafe` | `Spec => []ContextsOutliveTheirUse` |
| | `SwitchesAreClean` | `Spec => []NothingCrossesASwitch` |
| | `CutsAreFollowed` | `Spec => []UtterancesEnd` |
| | `SpeechIsKept` | `Proportions` implies `Spec => []NoSpeechIsLost` |
| `StreamingTranscriberProofs` | `GateSparesSpeech` | `Spec => []SpeechIsNotMuted` |
| | `StreamsAreCaptioned` | `Spec => []StreamIsCaptioned` |
| `ModelStoreProofs` | `ModelsAreDamagedOnlyWhereAFlowEnded` | `Spec => []DamageIsWhereAFlowEnded` |
| `GgmlThreadPoolProofs` | `TypeCorrect` | `Spec => []TypeOK` |
| | `PhasesHold` | `Spec => []PhasesAgree` |
| | `ChunksOnce` | `Spec => []EachChunkOnce` |
| | `PoolIsQuiet` | `Spec => []QuietPool` |
| | `PoolImplementsGraphCompute` | `Spec => Abstract!GraphInit /\ [][Abstract!GraphNext]_Abstract!graphVars`, the refinement without its fairness |

Hardly one of the properties is inductive alone.

### The session

`OneLiveJob`, `OverlapExplained` and `NothingStarts` rest on

    Lifecycle == TypeOK /\ Ledger /\ Replaceable /\ OneLiveJobOfEachKind /\ Chain

`Ledger` keeps the books of the jobs launched: which numbers are in use, what
kind they are, and that a job waits only for jobs before it. `Replaceable` says
that whenever a method is about to launch a job of a kind, the one it replaces is
not live, although the test and the launch are two steps with coroutines running
in between; that is what makes `OneLiveJobOfEachKind` survive a launch. `Chain`
says that of two preparations the later one waits for an earlier one that has not
ended, unless one between them was skipped; `OverlapNeedsASkippedPreparation` is
what is left of it once both are past their joins. `NothingStarts` adds
`AllCancelled`: once the scope is closed every job that has not ended is
cancelled.

The argument is the same for each conjunct. `CoroutineFrame` states once what a
step of a coroutine can do to the books (it moves one job, wakes none that ended
or was cancelled, and leaves `new` only as its joins allow), and
`CoroutineLifecycle` uses only that frame. `LaunchBooks` does the same for the
three methods that launch, and `CancelLifecycle` for those that cancel.

`CaptionsPrepared` and `NoPreparationMeetsCaptions` need more:

    IInv == Lifecycle /\ AllCancelled /\ Bodies /\ Held /\ Reliable

`Bodies` says where the two kinds of job can be and what they can be about to
write, `Held` that the jobs the session holds are cancelled only by whoever
replaces them. `Reliable` is the argument. `Believable`: where no stray job and no
stale write has interfered, a `Ready` or `Running` in `_state` means that the
current preparation is through and both engines have the pair of `config`, but
for the time before that preparation has first written (`Early`). `Unready` is
why that time does no harm: a pipeline that could look at `_state` then does not
find it `Ready`, and no job is left that would write it. `RunsSettled` says that
the pipeline then runs on engines that are loaded, and `Progress` how far a
preparation has brought them. It was in finding `Believable` that the write of
`stop` showed itself: with four jobs a `Ready` that nobody had earned outlived the
preparation it was taken from.

### The translation stage

What is said about the stage is about sequences put end to end, so the module
begins with `FlattenSeq`. It is a fold by a function that the definition chooses,
and nothing is known of it before an induction shows that there is one.
`Induction` is the principle for sets: the library's own takes an operator, which
no prover here can use, while a set that contains 0 and the successors of its
elements contains every number by the pigeonhole principle. From it follow what
`FlattenSeq` does to an empty sequence, to one more element (`FlattenAppend`) and
to two sequences put end to end (`FlattenConcat`), and what becomes of pieces of
a sentence that follow each other (`WordsChain`).

The invariants are layers, and each is inductive on those before it.

* `Typed`, with what the worker has in hand at each of its steps.
* `Leaks`: `NoSegmentLeaks`, and that a preview that is on has the worker beside
  it, in `preview` or `join`, so that whatever ends the worker ends it too.
* `Order`: the queue is in the order of the speech and covers it. Between what is
  captioned and what is spoken each sentence has its final in the queue or in
  hand, and the sources of the finals merged are the finals heard
  (`TakenPiece`, `TakenFinal` are about `nextWork`); the captions are what
  `CaptionsCoverTheFinals` says.
* `Floor`: the sentence the worker is in is not ahead of its work or the queue.
* `Shown`: a partial that is shown is not of a later sentence than the worker's
  and the preview's next one. `PartialsGoForward` and `StageImplementsCaptionLog`
  follow, step by step, from the layers up to here (`Ground`).
* `Texts`: each queued event goes on where the one before it in its sentence
  ended, and the last where the buffer has committed to, unless a piece of the
  sentence failed or the final diverged (`Chain`). The segment is the beginning of
  its sentence as it was heard (`SegmentHeard`); a piece in hand spans from the
  segment's end (`PieceInHand`); and for a final, segment and delta together are
  its source (`FinalInHand`). The lemmas on `Chain` say what one more event, the
  taking of a run, the failure of a piece and the change of a sentence do to it.
* `Owned`: the words of a queued piece are of its sentence, and so is what the
  worker has translated of the sentence being spoken.

### The assembly

    IInv == Steady /\ ~strayed => Types /\ AInv
    AInv == Idle /\ Calm /\ Flushing /\ LineInOrder /\ \E b \in Nat : UpTo(b)

The line is what is captioned and then what is on the agenda, sentence after
sentence. `LineInOrder` says that each sentence rises and comes after those before
it, which is two of the three properties. Why it stays so, and why nothing is
lost, is in `UpTo(b)`: the words `1 .. b` are those of the finals that are through,
and a final that is being assembled brings the words after `b`, with the last `e`
of `1 .. b` before them.

* `PoolIsOf`: the pool rises within `1 .. b`, and where there are no partials the
  extractor remembers exactly the last words of `1 .. b`. `Stripped` concludes that
  `stripLeadingOverlap` takes off the `e` repeated words and no other: a longer
  overlap would have two different words in the same place, and the longest is
  taken. This takes an `e` the extractor looks for at all (`Steady`).
* `CommittedIsOf`: what partials committed is the pool's words and some that
  follow `b`, all in the line. So `uncommitted` takes a prefix off the final and
  nothing from its middle. The partial's text is the pool and the final's
  beginning, which is the same text read twice (`Hypothetical`).
* `LineIsOf`: the line has passed only words before the pool, or up to what is
  committed. A pool handed in, by a final, a split or a flush, comes after it.
* `Kept`: a word of `1 .. b` is in the line, in the pool, with a flush, lost by a
  cancelled flush, or of an utterance that came out blank.

`Idle` and `Calm` say what is empty at each step of the collector. `Flushing` says
that at most one flush is not cancelled, that the collector waits for a result
meanwhile (`Flows`), and that what the flush took is what comes next (`Untouched`);
a cancelled one may still hold text, which `Kept` counts. Each action has its lemma (`...Keeps`). `GoesOn` is the state of the pool with a final in it,
whatever the final's form, from which `AssembleKeeps` cuts the sentences.

Of the helpers, `Pieces` cuts the pool at a set of positions in order: `InOrder`
is that sequence, each position chosen by its rank and shown to exist by the
pigeonhole principle (`Listed`), and the lemmas on it (`PiecesFollow`,
`Sentences`) are what the proof knows of cutting. The forced split is one more such set of positions. The theorem
is therefore independent of where a text is cut, as long as it is cut in order and
what is left is the rest.

### The language model's translator

    IInv == TypeOK /\ Engine /\ Blame

`Engine` says that a user generates on the engine in use and holds the lock, that
this engine exists and is no preparation's candidate, and that preparations that
have not overlapped load one at a time and only while there is no engine. The
last part is what `NoEngineLeaks` needs where a cancelled preparation finds the
lock taken and drops its engine: someone would have to be generating on an engine
that a loading preparation rules out. `MoveEngine` states once what a preparation
may do that touches no engine, and most steps are an instance of it.

`Blame` is the guard's argument in three parts. `MarkersTell`: a marker without an
exit belongs to an attempt under way, and a marker whose first exit is not for
memory is on a delegate that is blamed or excused. `BlameIsMarked`: a delegate
that is blamed and not excused has such a marker. `AttemptsAreMarked`: while an
attempt is under way its delegate is not blamed, and if nothing excuses it its
marker is there and empty, so that the next death will be its first exit.
`RememberTells` is the lemma on sequences below this: one more exit leaves the
first one as it was, unless there was none or the platform forgets it. The two
action properties follow in the one step that asks the guard (`Asked`).

### The hand-over

`HandoverIInv` says: a sentence follows a preparation that ended well; where the session
was told so without the primary, the fast engine has the pair; what the primary
says of itself was preceded by its load; and the jobs before the current one are
cancelled and those after it not begun, so that no other job takes the primary to
another pair.

### Whisper

`Ownership` is the life of a context, after the place of the preparation that
made it: unknown to others until it is offered by the `compareAndSet`, then in use
or freed; a decode runs on the context in use, under the setting that context
still has. `Remembers` says that what a context keeps was kept under its present
setting. `Segments` bounds the segment by the pre-roll and the cap, which takes
the assumption `PreRoll < MaxSegment`, and says that an utterance that goes on has
an open segment at least as long as the overlap; `Loop` what the transcriber holds
at each place of its loop. `UtterancesEnd` is proved for an overlap no shorter
than the shortest segment, which its statement says.

`SpeechIsKept` assumes `Proportions`, which the SDK's lengths have and the
constructor does not demand: the frames that open a segment fit into the pre-roll
and into the overlap, and a pause that ends a segment is no shorter than the
shortest segment. Each is needed. Without the first, a segment would begin after
the frame that counted first; without the second, a cut would leave speech behind
that the next segment does not reach; without the third, speech and its pause
could be thrown away as too short. The invariant is `Accounted`: a frame that is
owed is in a final window that was not decoded yet or in the open segment, which
will be such a window. `Lead` says that a segment begins no later than the frames
that opened it.

### The gate and the streams

`GateSparesSpeech` rests on

    IInv == TypeOK /\ InStep /\ Verdicts /\ Flushed /\ SpeechIsNotMuted

`InStep` says that the queue is the end of what was judged and that the verdicts
lie beside their windows; `Verdicts` what they remember: a window that is not open
ends `CloseAfter` windows without speech. `Flushed` is the part that is about
streams: a window muted before its look-ahead was over was muted by the flush of a
stream that has ended, so that the window judged next is not of that stream.
`DrainKeeps` is one lemma for `process` and for the flush, which differ in how
many windows they keep and in whether the stream goes on.

`StreamsAreCaptioned` needs `IInv` and

    CInv == Sized /\ Line /\ Control /\ Apart /\ Kept

A sample of the stream is ahead of the decoder (in a queued window, in the one
being filled, in what is left of the frame), in the recogniser's hands, in a
final, or muted. `Line` says that it is not ahead twice, `Apart` that it is not in
two of these places: what was heard is not ahead any more, and what was captioned
is held by nobody, except that the decoder still has it between the final and the
reset. `Kept` is the other half, for a stream that was neither cancelled nor
released: every sample is in one of the places that still lead to a final
(`Hand` says which of the recogniser's that is at each step), unless it is muted.
For this the pending text must be what the decoder has, while frames are taken,
and the queue be empty when the flush is over. `Control` says what is empty, and
what is not released, at each step. `Queue` is the delay line as a sequence of
pieces; `InStep` of `IInv` says where its windows are. The lemmas before `Queue`
are about pieces alone: put together, cut in two (a frame that fills a window),
queued and delivered. A stream that begins finds the queue and the decoder of the
one before, and nothing in them is its own (`NothingOwn`).

### The models on disk

    IInv == Types /\ Places /\ (~overlapped => Sole /\ InOrder)

`Sole` is what holds as long as flows did not overlap. `Apart`: a file has one
name, final or temporary, so that what a stream writes changes what is under the
name it was opened for and nothing else; `NewFileIsNew` is the count behind it,
that there is always a file nothing leads to. `Downloads` follows a download block
by block to the answer that is renamed. `Hashed` says that a file with a hash is
absent, whole, or still in `unchecked`. For unpacking the question is what the
loader may find: `Barren` while a download is under way, because the loader has
deleted what was there or nothing was, the entries so far (`Filled`) while it
unpacks, and at rest either none, or all before the place where the unpacking
ended (`AtRest`). With none of them a model is not ready, because what the loader
looks for is among them. `InOrder` is about the files of sherpa: one is there only
if those with a hash before it are whole and were compared (`BehindSure`), which
holds because a flow has compared all it has passed and one it is about to replace
has none behind it (`Passed`). So one that was not compared is the last. The end of the process is one more way for a flow to end,
at any of its steps.

### The thread pool

    IInv == Types /\ Threading /\ Gathered /\ Others /\ Stretch /\ ...

The graph is cut into stretches by its barriers. `Stretch` says that all threads
of a graph are in one of them: one that begins at the `for` statement with some
node (`LoopStretch`), one that begins with the first chunks of a matrix product
(`ChunkStretch`), or after the last barrier (`Finished`). Within a stretch a
thread may be anywhere that the graph and `abort` allow (`LoopPlace`,
`ChunkPlace`), and all must leave it for the same place (`LoopExit`, `ChunkExit`).
`Gathered` is the barrier: `n_barrier` counts those that wait for the present
`n_passed`, and one that is resetting it has all others waiting. A thread that was
released and has not noticed (`Released`) counts as where it is going. `ReleaseIInv`
is the step on which all of it turns: one write of `n_passed` takes every thread
from one stretch to the next. `ChunksGiven` says that chunks begun or done are
below the counter, except the first ones, which are dealt out by number. `Others`
are the threads that have no part in the graph. Nothing is assumed of the graph or
of the number of threads but what `ggml_graph_plan` ensures.

`PoolImplementsGraphCompute` needs to know what has been computed, which `IInv`
does not say. `Tracked` reads it off the threads: one that is in the graph has done
its own share of the nodes behind it and of no others (`OwnPart`); a chunk below
`current_chunk`, or of a product that some thread has left, is done or in a
thread's hands (`HandedOut`, `Given`); nothing is done but tasks of the graph
(`OnlyTasks`); and no thread comes to the second node of a fused pair, or takes a
chunk past the last (`Placed`). A task may start when all phases before it are
complete: since all threads are in one stretch, all have the earlier nodes behind
them (`BeforeWork`, `BeforeChunks`), and nobody holds a chunk of a product that all
have left. `WholePhases` is what the caller returns with. It becomes true in the
step that opens the last barrier (`LeftByRelease`), where all threads leave the
graph at one node, by its end or by `abort`; a graph of one thread has no barrier
and leaves by the `for` statement (`LeavesTracked`).

### Only model-checked

* Liveness of every component, with the fairness of the two refinements. Temporal
  properties under fairness and `ENABLED` are out of the prover's reach.
* `GraphComputeSpec` and `FreeReturns` as far as they say that the pool gets on:
  the steps of the first are proved, its fairness is not.

## 6. Where the code and its text disagree

They follow from the models, which do what the code does; no property that is
checked says otherwise, and those that a disagreement touches name what they leave
out.

* "If neither can serve the pair, preparation fails with the
  primary's error" (`sdk/translation/HandoverTranslator.kt:47`). What says that
  the primary is usable is never reset. After a pair it served, every preparation
  is `Ready` at once, also for a pair that it refuses and the fast engine cannot
  prepare.

* `setLanguages` says that two `prepareModel` calls never race on one engine
  (`sdk/SublySession.kt:253`). Two quick switches make them: the second
  preparation is cancelled while it joins the first, and the third joins only the
  second. `OverlapNeedsASkippedPreparation` says that nothing else does.
* `close` says that it releases the engines (`sdk/SublySession.kt:276`). A native
  load that is running does not notice, and installs its model after `release`
  (`asr/vosk/VoskTranscriber.kt:263`, `translator/litertlm/LiteRtLmTranslator.kt:401`).
* `TranslationState.Failed` says the stream carries on with the next sentence
  (`sdk/streaming/StreamingTranslationStage.kt:36`). The session's `onState`
  throws on `Failed` (`sdk/SublySession.kt:451`), which ends the worker and the
  pipeline.
* Pooling must never drop text (`SentenceExtractorLossTest.kt:9`). Without a stage
  the idle flush drains the pool and then translates in its own coroutine, and the
  next result cancels it with the text in its hands (`sdk/SublySession.kt:483`).
* The idle flush is to rescue what stays in the pool. A partial cancels it, because
  a final is coming; when that final is blank none comes, and no flush is launched
  again (`sdk/SublySession.kt:478`, `:566`).
* What was committed from partials is removed from the final
  (`sdk/EarlyCommitter.kt:22`). When a capital closes the pool in between
  (`sdk/SublySession.kt:535`), the committer's prefix no longer fits the text it
  is compared with, and both are captioned.
* `isReady` of the Vosk loader says that the model is unpacked
  (`asr/vosk/VoskModelLoader.kt:45`). An unpacking that ends early, by an error, a
  cancellation or the death of the process, after the required files were opened
  leaves a directory that passes `hasRequiredFiles` for good, and nothing clears
  it. So does sherpa's unpacking of assets. `DamageIsWhereAFlowEnded` says that the
  entries before that place are whole, and nothing of the others.
* A sherpa file that does not match its hash is deleted, so a corrupted or
  substituted download never loads (`asr/sherpa/SherpaOnnxModel.kt:35`). The file
  gets its final name before it is hashed. If the flow is cancelled at the `emit`
  in between, or the process dies, the last file of a model is accepted without
  the comparison ever after.
* The space check of the language model takes one copy for the most that a download
  needs (`translator/litertlm/LiteRtLmModelLoader.kt:40`). That is so when nothing
  is left of an earlier one. A process that dies in a download leaves a temporary
  file of up to the size of the model, which only the next download would
  overwrite; but the check comes first
  (`translator/litertlm/LiteRtLmTranslator.kt:339`), and on a device without room
  for both that file and a copy every later preparation ends in `Error`. A short file under the
  final name, which the loader would discard (`LiteRtLmModelLoader.kt:59`), is in
  the way likewise.
* `SpeechGate.reset` says that it is called at a stream boundary
  (`asr/vad/SpeechGate.kt:311`), and `silentWindows` that a stream opens audible
  (`:126`). Only its test calls it. Windows held back, a window partly filled and a
  closed gate go from one stream to the next; after a cancellation the new stream
  begins with sound of the old one.
* `reset` of the sherpa backend is to let the next utterance start clean
  (`asr/sherpa/SherpaOnnxBackend.kt:48`). `transcribe` calls it after an endpoint
  only: after a clean end, whose tail is emitted, and after a cancellation, the
  decoder keeps its hypothesis, and the first caption of the next stream begins
  with it.
* "No audio is lost" when the gate is flushed (`asr/vad/SpeechGate.kt:197`): a last
  window that is not full stays in it. Vosk does not flush the gate nor ask for
  its last text at the end of the audio, although the backend has a call for it
  (`asr/vosk/VoskBackend.kt:44`), so the end of a stream is not captioned.
* The temporary file is to keep partial downloads from being taken for complete
  ones (`core/downloader/OkHttpModelDownloader.kt:35`). Two flows that overlap
  share it: one renames what the other is still writing.

## 7. Other behaviour worth knowing

Reachable in the models unless it says otherwise, against no stated promise or
only a loose one.

Session and stage:

* A coroutine past its guard can write `Ready`, `Running` or `Error` over
  `Closed`. Nothing runs afterwards (`NothingStarts`), but the state reads wrong.
* After the audio has ended, and after a `stop` that read the state just before
  the pipeline wrote `Running`, `_state` is `Running` with no pipeline.
* `stop` tests `_state` for `Running` and then writes `Ready`
  (`sdk/SublySession.kt:270`). What is written in between is lost: `Error`, of a
  preparation under way or of the pipeline it has just cancelled, becomes `Ready`,
  and the next `start` begins on engines that are not loaded.
* `Error` is published a moment before its job completes. A `prepare` or `start`
  made in that moment finds the job active and returns without effect.
* The worker reads which sentence is live under the lock and publishes its
  partial outside it, so a live caption can appear for the sentence before one
  whose first hypothesis has just arrived. It never goes back to a sentence that
  has been captioned (`PartialsNeverGoBack`).

Assembly:

* A window that repeats fewer words than `MIN_OVERLAP_WORDS`
  (`sdk/SentenceExtractor.kt:213`) is taken for what the speaker says again, and
  the words are captioned twice. Partials are not stripped: with a recogniser that
  repeats words in partials too, a sentence can be committed with them.
* A flush that was cancelled past its delay goes on to its next suspension. It
  can take the pool between two looks of the collector, and a sentence can then
  be captioned twice, out of order, or, after the end of the audio, not at all.
* With a recogniser that hears a committed sentence differently, a final whose
  sentence resembles what was committed is dropped with the words it adds, and
  the duplicate check drops a sentence that contains the last caption.
* A sentence committed early from the pool and an utterance that then comes out
  blank leaves its beginning in the pool, to be captioned again.

LLM translator:

* Overlapping preparations share a marker: the second skips the GPU on which the
  first is at work, or its `disarm` deletes the marker of an attempt that then
  kills the process, and the next start tries the delegate again.
* The platform is asked for sixteen exits. If more follow before the next attempt,
  the one that decides is no longer the first.
* A preparation that is cancelled goes on in native code and installs its engine
  after `release`, and of two that load together the one that installs first loses
  its engine. `NoEngineLeaks` leaves both out.
* Not in the models: the space check asks for the size of the model also when the
  file is there (`ModelStore` has the check only for a model that is not);
  `Segment.close` and the conversation are touched outside the
  inference lock, and a translation after `release` finds no conversation settings.

Hand-over:

* A terminal state of the primary from the preparation before can decide the next
  one, when its fast engine fails before the primary's new job has begun.
* `runCatching` around the warm-up swallows a cancellation: a superseded
  preparation still marks the primary ready. It is loaded by then, so no sentence
  is given to an engine that is not.

Whisper:

* Of two preparations that overlap, the context may be set to the language of the
  older one, although both said `Ready`.
* `release` between a preparation's look at the handle and its `setLanguage` makes
  it use a context that is freed.
* The shortest segment equals the pause that ends one, so a segment is too short
  only at the end of a stream. A cut followed by silence yields a window of the
  overlap and silence alone; it says that the utterance is over, and the stage hears
  of it if its text is not empty.
* When a silence and the length cap fall on the same frame, the cut wins and the
  window says that the speaker goes on.
* A detected language is pinned before the guards look at the text, so a window
  whose text is thrown away can pin it. Carried text survives a stop and a start in
  the same language.
* Not in the model: after `release`, queued windows come out as empty results, and
  a final window whose text is empty is not passed on, so nothing then says that
  the sentence ended.

Gate and streaming recognisers:

* `release` leaves the window that is being filled and the count of silent windows,
  which the next preparation finds.
* Not in the model: `process` runs outside `nativeLock`, so `release` can free the
  VAD while it is judging, or the queues change under a drain; two preparations
  that overlap can leave `model` naming another one than the handle's, and a gate
  that opened two VADs.

Models:

* Whisper's and the gate's loaders take any answer that is not empty for the
  model, and a native load that then fails does not remove it.
* With two flows, the second can delete the file that the first has put in place
  and then fail to rename, and can write on to a file whose hash was compared.
* Not in the model: what other apps do to the free space, and files that were put
  there by hand. A write that finds the disk full is one of the errors of
  `DownloadFails`; nothing makes a flow that has passed the check meet it.

## 8. Not modelled

`PROJECT.json` lists every component with the reason. In short: capture and the
benchmark are I/O and measuring tools; the builder and the metrics have no
behaviour; prompts, guards, spacing and splitting are functions on strings whose
outcome the models leave open; ML Kit appears as an engine of the session and of
the hand-over, not as a module of its own; of the sherpa engines the one that
works on utterances cut by a VAD is left out.

By lines of source nearly all of the repository is native code that is vendored
with it: ggml's kernels for a dozen processors and graphics interfaces, and
whisper.cpp's model loader and decoder. They are numerics on arrays, with nothing
in them that a state machine would say better than the code. Of the native code,
what has a schedule is modelled: the thread pool that every graph runs on, and the
binding to the SDK (`whisper-jni.cpp`) as far as it keeps state. The SDK itself is
in Kotlin and is a few thousand lines.

## 9. Plan

What is left, in this order:

1. `WaitKBuffer` as operators against a reference definition, then as the
   buffer of the stage in place of the nondeterministic one.
2. Inline partial translation: its cache and its throttle.
3. Proofs: the pool's invariant of the assembly (no terminator, fewer words than a
   split).
