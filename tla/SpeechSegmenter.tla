-------------------------- MODULE SpeechSegmenter --------------------------
(***************************************************************************)
(* SpeechSegmenter.chunk: cuts the captured audio into windows for the     *)
(* recogniser.  Audio is a sequence of frames of one length, numbered from *)
(* 1; all lengths are in frames.  Whether a frame is speech is the choice  *)
(* of its input: the threshold that follows the room is left out.          *)
(***************************************************************************)
EXTENDS Naturals, Sequences

CONSTANTS
  PreRoll,       \* preRollMs
  FramesToOpen,  \* framesToOpenSpeech
  Hang,          \* silenceHangMs
  MinSegment,    \* minSegmentMs
  MaxSegment,    \* maxSegmentMs
  Overlap,       \* maxOverlapMs
  MinPartial,    \* MIN_PARTIAL_MS
  Step,          \* partialStepMs
  MaxFrames      \* bound: frames captured

ASSUME SegmenterAssumption ==
  /\ {PreRoll, Overlap, Step, MinPartial, MaxFrames} \subseteq Nat
  /\ {FramesToOpen, Hang, MinSegment, MaxSegment} \subseteq Nat \ {0}
  /\ MinSegment <= MaxSegment /\ PreRoll < MaxSegment /\ Overlap < MaxSegment

VARIABLES
  capture,     \* "off", "on", "over": the flow of frames
  now,         \* frames captured
  loud,        \* consecutiveLoudFrames, up to FramesToOpen
  ring,        \* frames in the pre-roll: the latest ones
  inSpeech,
  start,       \* the segment is the frames after this one
  silent,      \* silentMsAccum
  partialAt,   \* samplesAtLastPartial
  windows,     \* the unlimited channel to the recogniser
  \* history
  continuing,  \* whether the last final window said that the speaker goes on
  owed         \* frames of speech no recogniser has been given yet

segment == <<inSpeech, start, silent, partialAt>>
segmenter == <<capture, now, loud, ring, segment, windows, continuing, owed>>

Shorter(m, n) == IF m < n THEN m ELSE n
Window(a, b, final, continues) == [after |-> a, to |-> b, final |-> final, continues |-> continues]
Frames(w) == (w.after + 1) .. w.to

SegmenterInit ==
  /\ capture = "off" /\ now = 0 /\ loud = 0 /\ ring = 0
  /\ inSpeech = FALSE /\ start = 0 /\ silent = 0 /\ partialAt = 0
  /\ windows = <<>> /\ continuing = FALSE /\ owed = {}

\* A new collection of the flow: its locals, and an empty channel.
Listen ==
  /\ capture' = "on" /\ loud' = 0 /\ ring' = 0
  /\ inSpeech' = FALSE /\ start' = now /\ silent' = 0 /\ partialAt' = 0
  /\ windows' = <<>> /\ continuing' = FALSE /\ owed' = {}
  /\ UNCHANGED now

\* What the next frame makes of the segment.
Opens(speech) == speech /\ ~inSpeech /\ loud + 1 >= FramesToOpen
Speaking(speech) == inSpeech \/ Opens(speech)
Start == IF inSpeech THEN start ELSE now - ring
Size == now + 1 - Start
Silent(speech) == IF speech \/ ~inSpeech THEN 0 ELSE silent + 1
AtCap == Size >= MaxSegment
Ends(speech) == Silent(speech) >= Hang \/ AtCap

\* Enough frames of speech in a row are owed to the listener.
Hear(speech) ==
  /\ capture = "on" /\ now < MaxFrames /\ now' = now + 1
  /\ loud' = IF speech THEN Shorter(loud + 1, FramesToOpen) ELSE 0
  /\ owed' = IF loud' < FramesToOpen THEN owed ELSE owed \cup (now' + 1 - FramesToOpen .. now')
  /\ UNCHANGED capture

Wait(speech) ==
  /\ ~Speaking(speech) /\ Hear(speech)
  /\ ring' = Shorter(ring + 1, PreRoll)
  /\ UNCHANGED <<segment, windows, continuing>>

PartialIsDue == Step > 0 /\ Size >= MinPartial /\ Size - partialAt >= Step

Grow(speech) ==
  /\ Speaking(speech) /\ ~Ends(speech) /\ Hear(speech)
  /\ inSpeech' = TRUE /\ start' = Start /\ ring' = 0 /\ silent' = Silent(speech)
  /\ IF PartialIsDue THEN /\ windows' = Append(windows, Window(Start, now', FALSE, FALSE))
                          /\ partialAt' = Size
                     ELSE UNCHANGED <<windows, partialAt>>
  /\ UNCHANGED continuing

\* emit of a final window.  A segment that is too short is dropped.
EmitFinal(a, b, continues) ==
  IF b - a >= MinSegment
  THEN /\ windows' = Append(windows, Window(a, b, TRUE, continues))
       /\ continuing' = continues
  ELSE UNCHANGED <<windows, continuing>>

\* Mutant of Cut: the cut ends the segment, as silence does.
CutEndsSpeech(speech) ==
  /\ Speaking(speech) /\ AtCap /\ Overlap > 0 /\ Hear(speech)
  /\ EmitFinal(Start, now', TRUE)
  /\ inSpeech' = FALSE /\ start' = now' /\ ring' = 0 /\ silent' = 0 /\ partialAt' = 0

\* At the length cap the tail is carried over into the next segment.
Cut(speech) ==
  /\ Speaking(speech) /\ AtCap /\ Overlap > 0 /\ Hear(speech)
  /\ EmitFinal(Start, now', TRUE)
  /\ inSpeech' = TRUE /\ start' = now' - Shorter(Overlap, Size) /\ ring' = 0
  /\ silent' = 0 /\ partialAt' = Shorter(Overlap, Size)

CloseSegment(speech) ==
  /\ Speaking(speech) /\ Ends(speech) /\ ~(AtCap /\ Overlap > 0) /\ Hear(speech)
  /\ EmitFinal(Start, now', FALSE)
  /\ inSpeech' = FALSE /\ start' = now' /\ ring' = 0 /\ silent' = 0 /\ partialAt' = 0

\* The capture ended: the open segment is flushed.
EndOfStream ==
  /\ capture = "on" /\ capture' = "over"
  /\ IF inSpeech THEN EmitFinal(start, now, FALSE) ELSE UNCHANGED <<windows, continuing>>
  /\ UNCHANGED <<now, loud, ring, segment, owed>>

Segment ==
  \/ \E speech \in BOOLEAN :
       Wait(speech) \/ Grow(speech) \/ Cut(speech) \/ CloseSegment(speech)
  \/ EndOfStream

SegmenterTypeOK ==
  /\ capture \in {"off", "on", "over"} /\ {inSpeech, continuing} \subseteq BOOLEAN
  /\ {now, start} \subseteq 0 .. MaxFrames /\ start <= now
  /\ loud \in 0 .. FramesToOpen /\ ring \in 0 .. PreRoll
  /\ silent \in 0 .. Hang /\ partialAt \in 0 .. MaxSegment
  /\ owed \subseteq 1 .. now
  /\ \A i \in 1 .. Len(windows) :
       /\ windows[i].after < windows[i].to /\ windows[i].to <= now
       /\ windows[i].to - windows[i].after <= MaxSegment
=============================================================================
