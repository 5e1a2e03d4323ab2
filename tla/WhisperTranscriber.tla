------------------------- MODULE WhisperTranscriber -------------------------
(***************************************************************************)
(* The Whisper engine: WhisperTranscriber above the native contexts of     *)
(* whisper-jni.cpp, fed by SpeechSegmenter.  A context is named after the  *)
(* preparation that made it, and a setting of its language after the       *)
(* preparation that asked for it, so that text can be told from text of    *)
(* before a switch.                                                        *)
(*                                                                         *)
(* A native call is two steps, for it takes seconds and other threads run. *)
(* Left out: the crash guard of the GPU (as in LiteRtLmTranslator), the    *)
(* text itself, lastDetectedLang, which is only logged, and results.       *)
(***************************************************************************)
EXTENDS SpeechSegmenter, FiniteSets

CONSTANTS
  Preps,      \* collections of prepareModel
  Detecting,  \* of which ask for the language to be detected
  None,       \* null, 0L
  PinFrames,  \* audio that is long enough to pin a detected language
  MaxStreams  \* bound: collections of transcribe

\* What a context keeps: its setting, and under which one the language was
\* pinned and the text was carried.
Context == [set : Preps, pinned : Preps \cup {None}, carry : Preps \cup {None}]

ASSUME WhisperAssumption ==
  /\ Detecting \subseteq Preps /\ None \notin Preps \cup Context
  /\ {PinFrames, MaxStreams} \subseteq Nat

VARIABLES
  pc,         \* where a preparation is
  seen,       \* its local live, or the setting its init was called with
  targetRef,  \* targetLangRef: the last preparation to set it
  handleRef,  \* the context in use, or None
  contexts,   \* native contexts, or None
  freed,      \* contexts that were released
  closed,     \* release() has been called
  worker,     \* the loop of transcribe
  window,     \* the window it holds
  decoding,   \* the context that whisper_full runs on, or None; it has nativeLock
  under,      \* the setting of that context when the call began
  streams

preparation == <<pc, seen, targetRef>>
native == <<handleRef, contexts, freed>>
stream == <<worker, window, decoding, under, streams>>
vars == <<segmenter, preparation, native, closed, stream>>

NoWindow == Window(0, 0, FALSE, FALSE)
Fresh(setting) == [set |-> setting, pinned |-> None, carry |-> None]
Alive == {c \in Preps : contexts[c] # None} \ freed
LockFree == decoding = None

Init ==
  /\ SegmenterInit
  /\ pc = [p \in Preps |-> "out"] /\ seen = [p \in Preps |-> None] /\ targetRef = None
  /\ handleRef = None /\ contexts = [p \in Preps |-> None] /\ freed = {}
  /\ closed = FALSE
  /\ worker = "off" /\ window = NoWindow /\ decoding = None /\ under = None /\ streams = 0

Goto(p, label) == pc' = [pc EXCEPT ![p] = label]

-----------------------------------------------------------------------------
(* prepareModel *)

Prepare(p) ==
  /\ pc[p] = "out" /\ ~closed
  /\ targetRef' = p /\ Goto(p, "read")
  /\ UNCHANGED <<segmenter, seen, native, closed, stream>>

ReadHandle(p) ==
  /\ pc[p] = "read"
  /\ seen' = [seen EXCEPT ![p] = handleRef]
  /\ Goto(p, IF handleRef = None THEN "provision" ELSE "switch")
  /\ UNCHANGED <<segmenter, targetRef, native, closed, stream>>

\* Mutant of SetLanguage: the pin goes, the carried text stays.
SetLanguageKeepsCarry(p) ==
  /\ pc[p] = "switch" /\ LockFree
  /\ contexts' = [contexts EXCEPT ![seen[p]].set = p, ![seen[p]].pinned = None]
  /\ Goto(p, "ready")
  /\ UNCHANGED <<segmenter, seen, targetRef, handleRef, freed, closed, stream>>

\* nativeSetLanguage: the pin and the carried text go.  The handle was read
\* before nativeLock was taken.
SetLanguage(p) ==
  /\ pc[p] = "switch" /\ LockFree
  /\ contexts' = [contexts EXCEPT ![seen[p]] = Fresh(p)]
  /\ Goto(p, "ready")
  /\ UNCHANGED <<segmenter, seen, targetRef, handleRef, freed, closed, stream>>

\* The device and its crash guard choose GPU or CPU, the files are fetched; a
\* fetch may fail, and the coroutine may be cancelled.
Provision(p) ==
  /\ pc[p] = "provision"
  /\ \E next \in {"gpu", "cpu", "failed", "cancelled"} : Goto(p, next)
  /\ UNCHANGED <<segmenter, seen, targetRef, native, closed, stream>>

CallInit(p) ==
  /\ pc[p] \in {"gpu", "cpu"}
  /\ seen' = [seen EXCEPT ![p] = targetRef]
  /\ Goto(p, IF pc[p] = "gpu" THEN "initGpu" ELSE "initCpu")
  /\ UNCHANGED <<segmenter, targetRef, native, closed, stream>>

InitOk(p) ==
  /\ pc[p] \in {"initGpu", "initCpu"}
  /\ contexts' = [contexts EXCEPT ![p] = Fresh(seen[p])]
  /\ Goto(p, "install")
  /\ UNCHANGED <<segmenter, seen, targetRef, handleRef, freed, closed, stream>>

\* nativeInit returns 0: the CPU is next after the GPU.
InitNull(p) ==
  /\ pc[p] \in {"initGpu", "initCpu"}
  /\ Goto(p, IF pc[p] = "initGpu" THEN "cpu" ELSE "failed")
  /\ UNCHANGED <<segmenter, seen, targetRef, native, closed, stream>>

\* Mutant of Install: the handle that comes too late is forgotten.
InstallForgets(p) ==
  /\ pc[p] = "install"
  /\ handleRef' = (IF handleRef = None THEN p ELSE handleRef) /\ UNCHANGED freed
  /\ Goto(p, "ready")
  /\ UNCHANGED <<segmenter, seen, targetRef, contexts, closed, stream>>

\* compareAndSet.  Nobody else knows the handle that comes too late, so its
\* release is in the same step.
Install(p) ==
  /\ pc[p] = "install"
  /\ IF handleRef = None THEN handleRef' = p /\ UNCHANGED freed
                         ELSE freed' = freed \cup {p} /\ UNCHANGED handleRef
  /\ Goto(p, "ready")
  /\ UNCHANGED <<segmenter, seen, targetRef, contexts, closed, stream>>

Release ==
  /\ ~closed /\ closed' = TRUE /\ LockFree
  /\ handleRef' = None
  /\ freed' = freed \cup ({handleRef} \ {None})
  /\ UNCHANGED <<segmenter, preparation, contexts, stream>>

-----------------------------------------------------------------------------
(* transcribe *)

Transcribe ==
  /\ worker = "off" /\ handleRef # None /\ streams < MaxStreams
  /\ Listen
  /\ worker' = "receive" /\ streams' = streams + 1
  /\ UNCHANGED <<preparation, native, closed, window, decoding, under>>

Take ==
  /\ windows # <<>>
  /\ window' = Head(windows) /\ windows' = Tail(windows)
  /\ UNCHANGED <<capture, now, loud, ring, segment, continuing, owed,
                 preparation, native, closed, decoding, under, streams>>

Receive == worker = "receive" /\ Take /\ worker' = "taken"

\* Mutant of Skip: a final window gives way too.
SkipFinals == worker = "taken" /\ Take /\ UNCHANGED worker

\* A partial window gives way to whatever has come after it.
Skip == worker = "taken" /\ ~window.final /\ Take /\ UNCHANGED worker

\* With no handle the text is "".
Decode ==
  /\ worker = "taken" /\ (window.final \/ windows = <<>>) /\ LockFree
  /\ IF handleRef = None
     THEN worker' = "receive" /\ window' = NoWindow /\ UNCHANGED <<decoding, under>>
     ELSE /\ worker' = "native" /\ decoding' = handleRef /\ under' = contexts[handleRef].set
          /\ UNCHANGED window
  /\ UNCHANGED <<segmenter, preparation, native, closed, streams>>

\* nativeTranscribe is back.  The recogniser has heard a final window.
Return(context) ==
  /\ worker' = "receive" /\ window' = NoWindow
  /\ decoding' = None /\ under' = None
  /\ contexts' = [contexts EXCEPT ![decoding] = context]
  /\ owed' = IF window.final THEN owed \ Frames(window) ELSE owed
  /\ UNCHANGED <<capture, now, loud, ring, segment, windows, continuing,
                 preparation, handleRef, freed, closed, streams>>

\* The voice detector finds no speech in a final window, or whisper_full fails.
NotDecoded == worker = "native" /\ Return(contexts[decoding])

\* A language detected in enough audio is pinned, whatever becomes of the text.
Detected ==
  LET c == contexts[decoding]
      pins == c.set \in Detecting /\ c.pinned = None /\ Cardinality(Frames(window)) >= PinFrames
  IN {c} \cup (IF pins THEN {[c EXCEPT !.pinned = under]} ELSE {})

\* Text that a guard drops, that is empty or repetitive, or a partial's.
NotCarried == worker = "native" /\ \E c \in Detected : Return(c)

\* The text of a final window goes into the prompt of the windows after it.
Carried ==
  /\ worker = "native" /\ window.final
  /\ \E c \in Detected : Return([c EXCEPT !.carry = under])

\* The collector is cancelled, at receive or at send; or the windows have run
\* out.  A native call runs to its end first.
Stop ==
  /\ worker = "receive" /\ worker' = "off"
  /\ IF windows = <<>> /\ capture = "over"
     THEN UNCHANGED <<capture, windows, owed, continuing>>
     ELSE capture' = "over" /\ windows' = <<>> /\ owed' = {} /\ continuing' = FALSE
  /\ UNCHANGED <<now, loud, ring, segment,
                 preparation, native, closed, window, decoding, under, streams>>

-----------------------------------------------------------------------------
Preparing(p) ==
  \/ Prepare(p) \/ ReadHandle(p) \/ SetLanguage(p) \/ Provision(p)
  \/ CallInit(p) \/ InitOk(p) \/ InitNull(p) \/ Install(p)

Transcribing ==
  \/ Transcribe \/ Receive \/ Skip \/ Decode
  \/ NotDecoded \/ NotCarried \/ Carried \/ Stop

Next ==
  \/ \E p \in Preps : Preparing(p)
  \/ Release
  \/ Segment /\ UNCHANGED <<preparation, native, closed, stream>>
  \/ Transcribing

Spec == Init /\ [][Next]_vars

-----------------------------------------------------------------------------
(* Properties *)

PcLabels == {"out", "read", "switch", "provision", "gpu", "cpu", "initGpu", "initCpu",
             "install", "ready", "failed", "cancelled"}

\* Types, and what the loop of transcribe holds in each of its states.
TypeOK ==
  /\ SegmenterTypeOK
  /\ pc \in [Preps -> PcLabels] /\ seen \in [Preps -> Preps \cup {None}]
  /\ {targetRef, handleRef, decoding, under} \subseteq Preps \cup {None}
  /\ contexts \in [Preps -> Context \cup {None}]
  /\ freed \subseteq Preps /\ closed \in BOOLEAN /\ streams \in 0 .. MaxStreams
  /\ worker \in {"off", "receive", "taken", "native"}
  /\ (worker = "native") = (decoding # None)
  /\ (worker \in {"off", "receive"}) = (window = NoWindow)

\* Native contexts are used only while they exist and freed only once out of
\* use; one that exists is in use or on its way there.  The exception is
\* prepareModel, which reads handleRef before it takes nativeLock: release()
\* in between leaves it a handle that is gone.
ContextsOutliveTheirUse ==
  /\ {handleRef, decoding} \ {None} \subseteq Alive
  /\ \A p \in Preps : pc[p] = "switch" => seen[p] \in Alive \/ closed
  /\ \A c \in Alive : c = handleRef \/ pc[c] = "install"

\* nativeSetLanguage: text in the previous language must not bias the next
\* window.  What a context remembers was decoded under its present setting,
\* and a language is pinned only while none is set.
NothingCrossesASwitch ==
  \A c \in Alive :
    /\ {contexts[c].pinned, contexts[c].carry} \subseteq {contexts[c].set, None}
    /\ contexts[c].pinned # None => contexts[c].set \in Detecting

\* "Dropping one would lose caption text for good", "the last sentence never
\* reaches a caption": while it runs, frames of speech that opened a segment
\* are in the open segment, in a final window on its way to the recogniser, or
\* have been heard by it.  Lost are only a last segment that is too short and
\* windows that find the engine released.
NoSpeechIsLost ==
  LET onTheWay == {w \in {windows[i] : i \in 1 .. Len(windows)} \cup {window} : w.final}
      held == UNION {Frames(w) : w \in onTheWay}
      open == IF inSpeech THEN start + 1 .. now ELSE {}
      tooShort == capture = "over" /\ Cardinality(open) < MinSegment
  IN closed \/ (owed \ held) = {} \/ (owed \ held \subseteq open /\ (capture = "on" \/ tooShort))

\* A window cut at the cap says that the utterance runs on.  As long as it was the
\* last one, the segment stays open, and is long enough to be closed by a window
\* that says the utterance is over.  The stage hears of that window only if its
\* text is not empty.
UtterancesEnd == continuing /\ MinSegment <= Overlap => inSpeech /\ capture = "on"
=============================================================================
