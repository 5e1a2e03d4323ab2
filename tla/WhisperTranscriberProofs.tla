---------------------- MODULE WhisperTranscriberProofs ----------------------
(***************************************************************************)
(* What is proved of WhisperTranscriber, for every set of preparations and *)
(* every length of windows and streams.                                    *)
(***************************************************************************)
EXTENDS WhisperTranscriber, FiniteSetTheorems, TLAPS

\* Types of what the engine keeps, the segmenter left aside.
HandleTypes ==
  /\ pc \in [Preps -> PcLabels] /\ seen \in [Preps -> Preps \cup {None}]
  /\ targetRef \in Preps \cup {None} /\ handleRef \in Preps \cup {None}
  /\ decoding \in Preps \cup {None} /\ under \in Preps \cup {None}
  /\ contexts \in [Preps -> Context \cup {None}]
  /\ freed \in SUBSET Preps /\ closed \in BOOLEAN

\* The life of a context, after the place of the preparation that made it: none
\* before init is back, its own until it is offered, then in use or freed.
Ownership ==
  /\ \A p \in Preps : contexts[p] # None => pc[p] \in {"install", "ready"}
  /\ \A p \in Preps : pc[p] = "install" =>
       contexts[p] # None /\ p \notin freed /\ p # handleRef
  /\ \A p \in freed : contexts[p] # None
  /\ \A p \in Preps : pc[p] # "out" => targetRef # None
  /\ \A p \in Preps : pc[p] \in {"initGpu", "initCpu"} => seen[p] # None
  /\ \A p \in Preps : pc[p] = "switch" =>
       /\ seen[p] \in Preps /\ contexts[seen[p]] # None
       /\ pc[seen[p]] = "ready"
       /\ seen[p] = handleRef \/ closed
  /\ handleRef # None => contexts[handleRef] # None /\ handleRef \notin freed /\ pc[handleRef] = "ready"
  /\ \A p \in Preps : contexts[p] # None /\ p \notin freed => p = handleRef \/ pc[p] = "install"
  /\ (worker = "native") = (decoding # None)
  /\ decoding # None => decoding = handleRef /\ under = contexts[decoding].set

\* Of every context, also of one that is gone.
Remembers ==
  \A c \in Preps : contexts[c] # None =>
    /\ contexts[c].pinned \in {contexts[c].set, None}
    /\ contexts[c].carry \in {contexts[c].set, None}
    /\ contexts[c].pinned # None => contexts[c].set \in Detecting

Handles == HandleTypes /\ Ownership /\ Remembers

LEMMA InitHandles == Init => Handles
  BY WhisperAssumption DEF Init, Handles, HandleTypes, Ownership, Remembers, PcLabels

\* The steps of a preparation.
LEMMA PreparingHandles ==
  ASSUME Handles, NEW p \in Preps, Preparing(p)
  PROVE  Handles'
<1> USE WhisperAssumption DEF Handles, Goto, native, stream
<1>t. HandleTypes'
  BY DEF HandleTypes, PcLabels, Context, Fresh, Preparing, Prepare, ReadHandle, SetLanguage,
         Provision, CallInit, InitOk, InitNull, Install, Ownership
<1>1. CASE Prepare(p)
  BY <1>1, <1>t DEF Prepare, HandleTypes, Ownership, Remembers
<1>2. CASE ReadHandle(p)
  BY <1>2, <1>t DEF ReadHandle, HandleTypes, Ownership, Remembers
<1>3. CASE SetLanguage(p)
  BY <1>3, <1>t DEF SetLanguage, LockFree, Fresh, Context, HandleTypes, Ownership, Remembers
<1>4. CASE Provision(p)
  BY <1>4, <1>t DEF Provision, HandleTypes, Ownership, Remembers
<1>5. CASE CallInit(p)
  BY <1>5, <1>t DEF CallInit, HandleTypes, Ownership, Remembers
<1>6. CASE InitOk(p)
  BY <1>6, <1>t DEF InitOk, Fresh, Context, HandleTypes, Ownership, Remembers
<1>7. CASE InitNull(p)
  BY <1>7, <1>t DEF InitNull, HandleTypes, Ownership, Remembers
<1>8. CASE Install(p)
  BY <1>8, <1>t DEF Install, HandleTypes, Ownership, Remembers
<1> QED
  BY <1>1, <1>2, <1>3, <1>4, <1>5, <1>6, <1>7, <1>8 DEF Preparing

\* nativeTranscribe returns a context whose setting is that of its call.
LEMMA ReturnHandles ==
  ASSUME Handles, decoding # None, NEW context \in Context, Return(context),
         context.set = contexts[decoding].set,
         context.pinned \in {context.set, None},
         context.carry \in {context.set, None},
         context.pinned # None => context.set \in Detecting
  PROVE  Handles'
<1> USE WhisperAssumption DEF Handles
<1>1. HandleTypes'
  BY DEF HandleTypes, Return, preparation
<1>2. Ownership'
  BY <1>1 DEF HandleTypes, Ownership, Return, preparation
<1>3. Remembers'
  BY DEF HandleTypes, Remembers, Return
<1> QED
  BY <1>1, <1>2, <1>3

\* What nativeTranscribe may leave of the pinned language.
LEMMA DetectedIsSound ==
  ASSUME Handles, decoding # None, NEW c \in Detected
  PROVE  /\ c \in Context /\ c.set = contexts[decoding].set
         /\ c.pinned \in {c.set, None} /\ c.carry \in {c.set, None}
         /\ c.pinned # None => c.set \in Detecting
<1>1. contexts[decoding] \in Context /\ under = contexts[decoding].set
  BY DEF Handles, HandleTypes, Ownership
<1>2. \/ c = contexts[decoding]
      \/ contexts[decoding].set \in Detecting /\ c = [contexts[decoding] EXCEPT !.pinned = under]
  BY DEF Detected
<1> QED
  BY <1>1, <1>2, WhisperAssumption DEF Context, Handles, HandleTypes, Ownership, Remembers

\* The steps of transcribe.
LEMMA TranscribingHandles == Handles /\ Transcribing => Handles'
<1> SUFFICES ASSUME Handles, Transcribing PROVE Handles'
  OBVIOUS
<1> USE DEF Handles
<1>1. CASE Transcribe \/ Receive \/ Skip \/ Stop
  BY <1>1 DEF Transcribe, Receive, Skip, Take, Stop, HandleTypes, Ownership, Remembers,
              preparation, native
<1>2. CASE Decode
  BY <1>2, WhisperAssumption DEF Decode, HandleTypes, Ownership, Remembers, Context,
              preparation, native, LockFree
<1>3. CASE NotDecoded
  <2>1. decoding # None /\ Return(contexts[decoding])
    BY <1>3 DEF NotDecoded, Ownership
  <2>2. contexts[decoding] \in Context
    BY <2>1 DEF HandleTypes, Ownership
  <2>3. /\ contexts[decoding].pinned \in {contexts[decoding].set, None}
        /\ contexts[decoding].carry \in {contexts[decoding].set, None}
        /\ contexts[decoding].pinned # None => contexts[decoding].set \in Detecting
    BY <2>1, <2>2, WhisperAssumption DEF HandleTypes, Remembers
  <2> QED
    BY <2>1, <2>2, <2>3, ReturnHandles
<1>4. CASE NotCarried
  <2>1. decoding # None
    BY <1>4 DEF NotCarried, Ownership
  <2>2. PICK c \in Detected : Return(c)
    BY <1>4 DEF NotCarried
  <2> QED
    BY <2>1, <2>2, DetectedIsSound, ReturnHandles
<1>5. CASE Carried
  <2>1. decoding # None
    BY <1>5 DEF Carried, Ownership
  <2>2. PICK c \in Detected : Return([c EXCEPT !.carry = under])
    BY <1>5 DEF Carried
  <2> DEFINE d == [c EXCEPT !.carry = under]
  <2>3. /\ c \in Context /\ c.set = contexts[decoding].set
        /\ c.pinned \in {c.set, None} /\ (c.pinned # None => c.set \in Detecting)
    BY <2>1, DetectedIsSound
  <2>4. under = c.set /\ under \in Preps \cup {None}
    BY <2>1, <2>3 DEF HandleTypes, Ownership
  <2>5. d \in Context /\ d.set = c.set /\ d.pinned = c.pinned /\ d.carry = c.set
    BY <2>3, <2>4 DEF Context
  <2> QED
    BY <2>1, <2>2, <2>3, <2>5, ReturnHandles
<1> QED
  BY <1>1, <1>2, <1>3, <1>4, <1>5 DEF Transcribing

LEMMA NextHandles == Handles /\ [Next]_vars => Handles'
<1> SUFFICES ASSUME Handles, [Next]_vars PROVE Handles'
  OBVIOUS
<1>1. ASSUME NEW p \in Preps, Preparing(p) PROVE Handles'
  BY <1>1, PreparingHandles
<1>2. CASE Release
  BY <1>2, WhisperAssumption DEF Release, LockFree, Handles, HandleTypes, Ownership, Remembers, preparation, stream
<1>3. CASE Segment /\ UNCHANGED <<preparation, native, closed, stream>>
  BY <1>3 DEF Handles, HandleTypes, Ownership, Remembers, preparation, native, stream
<1>4. CASE Transcribing
  BY <1>4, TranscribingHandles
<1>5. CASE UNCHANGED vars
  BY <1>5 DEF vars, Handles, HandleTypes, Ownership, Remembers, preparation, native, stream
<1> QED
  BY <1>1, <1>2, <1>3, <1>4, <1>5 DEF Next

\* No context is used after it was freed, none is freed in use, none is lost.
THEOREM HandlesAreSafe == Spec => []ContextsOutliveTheirUse
<1>1. Handles => ContextsOutliveTheirUse
  BY WhisperAssumption DEF Handles, HandleTypes, Ownership, ContextsOutliveTheirUse, Alive
<1> QED
  BY <1>1, InitHandles, NextHandles, PTL DEF Spec

\* Nothing said under one setting of the language reaches the next.
THEOREM SwitchesAreClean == Spec => []NothingCrossesASwitch
<1>1. Handles => NothingCrossesASwitch
  BY DEF Handles, Remembers, NothingCrossesASwitch, Alive
<1> QED
  BY <1>1, InitHandles, NextHandles, PTL DEF Spec

-----------------------------------------------------------------------------
(* The segmenter, and with it the types of everything.                      *)

WindowRecords == [after : Nat, to : Nat, final : BOOLEAN, continues : BOOLEAN]

\* What a segment is while it grows; after a cut it begins with the overlap.
Segments ==
  /\ SegmenterTypeOK
  /\ windows \in Seq(WindowRecords)
  /\ inSpeech \in BOOLEAN /\ continuing \in BOOLEAN
  /\ inSpeech => now - start < MaxSegment
  /\ ring <= now /\ loud <= now
  /\ continuing /\ MinSegment <= Overlap =>
       inSpeech /\ capture = "on" /\ now - start >= Overlap

LEMMA Lengths ==
  /\ PreRoll \in Nat /\ Overlap \in Nat /\ Step \in Nat /\ MinPartial \in Nat /\ MaxFrames \in Nat
  /\ FramesToOpen \in Nat \ {0} /\ Hang \in Nat \ {0}
  /\ MinSegment \in Nat \ {0} /\ MaxSegment \in Nat \ {0}
  /\ MinSegment <= MaxSegment /\ PreRoll < MaxSegment /\ Overlap < MaxSegment
  BY SegmenterAssumption DEF SegmenterAssumption

LEMMA InitSegments == Init => Segments
<1> SUFFICES ASSUME Init PROVE Segments
  OBVIOUS
<1> USE Lengths DEF Init, SegmenterInit
<1>1. windows \in Seq(WindowRecords) /\ Len(windows) = 0
  OBVIOUS
<1>2. \A i \in 1 .. Len(windows) :
        /\ windows[i].after < windows[i].to /\ windows[i].to <= now
        /\ windows[i].to - windows[i].after <= MaxSegment
  BY <1>1
<1>3. {inSpeech, continuing} \subseteq BOOLEAN /\ ~inSpeech /\ ~continuing
  OBVIOUS
<1>4. /\ capture \in {"off", "on", "over"} /\ {now, start} \subseteq 0 .. MaxFrames
      /\ start <= now /\ ring <= now /\ loud <= now /\ owed \subseteq 1 .. now
  OBVIOUS
<1>5. loud \in 0 .. FramesToOpen /\ ring \in 0 .. PreRoll /\ silent \in 0 .. Hang /\ partialAt \in 0 .. MaxSegment
  OBVIOUS
<1> HIDE DEF Init, SegmenterInit
<1>6. SegmenterTypeOK
  BY <1>2, <1>3, <1>4, <1>5 DEF SegmenterTypeOK
<1> QED
  BY <1>1, <1>3, <1>4, <1>6 DEF Segments

\* What the next frame finds, and what it adds.
LEMMA HearTypes ==
  ASSUME Segments, NEW speech \in BOOLEAN, Hear(speech)
  PROVE  /\ now \in Nat /\ start \in Nat /\ now' = now + 1 /\ now' \in 0 .. MaxFrames
         /\ capture = "on" /\ capture' = capture
         /\ loud' \in 0 .. FramesToOpen /\ owed' \subseteq 1 .. now'
         /\ Start \in 0 .. now /\ Size \in Nat \ {0} /\ Size = now + 1 - Start
         /\ (Speaking(speech) => Size <= MaxSegment) /\ Silent(speech) \in Nat
<1> USE Lengths
<1>1. /\ now \in Nat /\ start \in Nat /\ start <= now /\ ring \in Nat /\ ring <= now
      /\ silent \in Nat /\ ring <= PreRoll /\ loud \in 0 .. FramesToOpen
      /\ MaxFrames \in Nat /\ FramesToOpen \in Nat \ {0} /\ PreRoll \in Nat /\ MaxSegment \in Nat
      /\ owed \subseteq 1 .. now
  BY DEF Segments, SegmenterTypeOK
<1>2. /\ now' = now + 1 /\ now' \in 0 .. MaxFrames /\ capture = "on" /\ capture' = capture
  BY <1>1 DEF Hear
<1>3. loud' \in 0 .. FramesToOpen
  BY <1>1 DEF Hear, Shorter
<1>4. owed' \subseteq 1 .. now'
  <2>1. loud' >= FramesToOpen => FramesToOpen <= now'
    BY <1>1, <1>2 DEF Hear, Shorter, Segments
  <2> QED
    BY <1>1, <1>2, <1>3, <2>1 DEF Hear
<1>5. Start \in 0 .. now
  BY <1>1 DEF Start
<1>6. Size = now + 1 - Start /\ Size \in Nat \ {0}
  BY <1>1, <1>5 DEF Size
<1>7. Speaking(speech) => Size <= MaxSegment
  BY <1>1, <1>6 DEF Speaking, Start, Segments
<1>8. Silent(speech) \in Nat
  BY <1>1 DEF Silent
<1> QED
  BY <1>1, <1>2, <1>3, <1>4, <1>5, <1>6, <1>7, <1>8

\* A window that is handed on.
LEMMA AppendWindow ==
  ASSUME Segments, NEW w \in WindowRecords, NEW n \in Nat, now <= n,
         w.after < w.to, w.to <= n, w.to - w.after <= MaxSegment,
         windows' = Append(windows, w)
  PROVE  /\ windows' \in Seq(WindowRecords)
         /\ \A i \in 1 .. Len(windows') :
              /\ windows'[i].after < windows'[i].to /\ windows'[i].to <= n
              /\ windows'[i].to - windows'[i].after <= MaxSegment
<1>1. windows' \in Seq(WindowRecords) /\ Len(windows') = Len(windows) + 1
  BY DEF Segments
<1>2. ASSUME NEW i \in 1 .. Len(windows')
      PROVE  /\ windows'[i].after < windows'[i].to /\ windows'[i].to <= n
             /\ windows'[i].to - windows'[i].after <= MaxSegment
  <2>1. CASE i = Len(windows) + 1
    BY <2>1 DEF Segments
  <2>2. CASE i # Len(windows) + 1
    <3>1. i \in 1 .. Len(windows) /\ windows'[i] = windows[i] /\ windows[i] \in WindowRecords
      BY <1>1, <1>2, <2>2 DEF Segments
    <3>2. /\ windows[i].after < windows[i].to /\ windows[i].to <= now
          /\ windows[i].to - windows[i].after <= MaxSegment
      BY <3>1 DEF Segments, SegmenterTypeOK
    <3>3. windows[i].to \in Nat
      BY <3>1 DEF WindowRecords
    <3>4. now \in Nat
      BY Lengths DEF Segments, SegmenterTypeOK
    <3> QED
      BY <3>2, <3>3, <3>4
  <2> QED
    BY <2>1, <2>2
<1> QED
  BY <1>1, <1>2

\* Windows that stay are still windows when more has been captured.
LEMMA KeepWindows ==
  ASSUME Segments, NEW n \in Nat, now <= n, windows' = windows
  PROVE  /\ windows' \in Seq(WindowRecords)
         /\ \A i \in 1 .. Len(windows') :
              /\ windows'[i].after < windows'[i].to /\ windows'[i].to <= n
              /\ windows'[i].to - windows'[i].after <= MaxSegment
<1>1. /\ windows \in Seq(WindowRecords) /\ now \in Nat
      /\ \A i \in 1 .. Len(windows) :
           /\ windows[i].after < windows[i].to /\ windows[i].to <= now
           /\ windows[i].to - windows[i].after <= MaxSegment
  BY Lengths DEF Segments, SegmenterTypeOK
<1>2. \A i \in 1 .. Len(windows) : windows[i].to <= n
  <2> SUFFICES ASSUME NEW i \in 1 .. Len(windows) PROVE windows[i].to <= n
    OBVIOUS
  <2>1. windows[i] \in WindowRecords
    BY <1>1
  <2>2. windows[i].to \in Nat
    BY <2>1 DEF WindowRecords
  <2> QED
    BY <1>1, <2>2
<1> QED
  BY <1>1, <1>2

\* EmitFinal hands on a window, or drops a segment that is too short.
LEMMA EmitFinalWindows ==
  ASSUME Segments, NEW a \in Nat, NEW b \in Nat, NEW c \in BOOLEAN, now <= b,
         b - a <= MaxSegment, EmitFinal(a, b, c)
  PROVE  /\ windows' \in Seq(WindowRecords)
         /\ \A i \in 1 .. Len(windows') :
              /\ windows'[i].after < windows'[i].to /\ windows'[i].to <= b
              /\ windows'[i].to - windows'[i].after <= MaxSegment
         /\ continuing' = IF b - a >= MinSegment THEN c ELSE continuing
<1>1. CASE b - a >= MinSegment
  <2> DEFINE w == Window(a, b, TRUE, c)
  <2>1. w \in WindowRecords /\ w.after = a /\ w.to = b
    BY DEF Window, WindowRecords
  <2>2. windows' = Append(windows, w) /\ continuing' = c
    BY <1>1 DEF EmitFinal
  <2>3. a < b
    BY <1>1, Lengths
  <2> HIDE DEF w
  <2> QED
    BY <1>1, <2>1, <2>2, <2>3, AppendWindow
<1>2. CASE ~(b - a >= MinSegment)
  BY <1>2, KeepWindows DEF EmitFinal
<1> QED
  BY <1>1, <1>2

\* The steps of the segmenter.
LEMMA SegmentSegments == Segments /\ Segment => Segments'
<1> SUFFICES ASSUME Segments, Segment PROVE Segments'
  OBVIOUS
<1> USE Lengths
<1>t. /\ now \in Nat /\ start \in Nat /\ start <= now /\ ring \in Nat /\ MaxFrames \in Nat
      /\ ring \in 0 .. PreRoll /\ inSpeech \in BOOLEAN /\ continuing \in BOOLEAN
      /\ silent \in 0 .. Hang /\ partialAt \in 0 .. MaxSegment /\ now \in 0 .. MaxFrames
      /\ start \in 0 .. MaxFrames /\ loud <= now /\ ring <= now
      /\ (inSpeech => now - start < MaxSegment)
  BY DEF Segments, SegmenterTypeOK
<1>c. continuing /\ MinSegment <= Overlap => inSpeech /\ capture = "on" /\ now - start >= Overlap
  BY DEF Segments
\* What is left to show of a frame.
<1>f. ASSUME NEW speech \in BOOLEAN, Hear(speech),
             windows' \in Seq(WindowRecords),
             \A i \in 1 .. Len(windows') :
               /\ windows'[i].after < windows'[i].to /\ windows'[i].to <= now'
               /\ windows'[i].to - windows'[i].after <= MaxSegment,
             inSpeech' \in BOOLEAN, continuing' \in BOOLEAN, start' \in 0 .. now',
             inSpeech' => now' - start' < MaxSegment, ring' \in 0 .. PreRoll, ring' <= now',
             silent' \in 0 .. Hang, partialAt' \in 0 .. MaxSegment,
             continuing' /\ MinSegment <= Overlap => inSpeech' /\ now' - start' >= Overlap
      PROVE  Segments'
  <2>1. /\ now' = now + 1 /\ now' \in 0 .. MaxFrames /\ capture = "on" /\ capture' = capture
        /\ loud' \in 0 .. FramesToOpen /\ owed' \subseteq 1 .. now'
    BY <1>f, HearTypes
  <2>2. start' \in 0 .. MaxFrames /\ start' <= now'
    BY <1>f, <2>1
  <2>3. loud' <= now'
    BY <1>f, <1>t, <2>1 DEF Hear, Shorter, Segments, SegmenterTypeOK
  <2>4. SegmenterTypeOK'
    BY <1>f, <2>1, <2>2 DEF SegmenterTypeOK
  <2> QED
    BY <1>f, <2>1, <2>3, <2>4 DEF Segments
<1>1. ASSUME NEW speech \in BOOLEAN, Wait(speech) PROVE Segments'
  <2>1. /\ Hear(speech) /\ ~Speaking(speech) /\ ring' = Shorter(ring + 1, PreRoll)
        /\ inSpeech' = inSpeech /\ start' = start /\ silent' = silent /\ partialAt' = partialAt
        /\ windows' = windows /\ continuing' = continuing
    BY <1>1 DEF Wait, segment
  <2>2. ~inSpeech
    BY <2>1 DEF Speaking
  <2>3. now' = now + 1 /\ now' \in Nat
    BY <2>1, HearTypes
  <2>4. ring' \in 0 .. PreRoll /\ ring' <= now'
    BY <1>t, <2>1, <2>3 DEF Shorter
  <2>5. start' \in 0 .. now'
    BY <1>t, <2>1, <2>3
  <2>6. /\ windows' \in Seq(WindowRecords)
        /\ \A i \in 1 .. Len(windows') :
             /\ windows'[i].after < windows'[i].to /\ windows'[i].to <= now'
             /\ windows'[i].to - windows'[i].after <= MaxSegment
    BY <1>t, <2>1, <2>3, KeepWindows
  <2> QED
    BY <1>f, <1>t, <1>c, <2>1, <2>2, <2>4, <2>5, <2>6
<1>2. ASSUME NEW speech \in BOOLEAN, Grow(speech) PROVE Segments'
  <2>1. /\ Hear(speech) /\ Speaking(speech) /\ ~(Silent(speech) >= Hang) /\ ~(Size >= MaxSegment)
        /\ inSpeech' = TRUE /\ start' = Start /\ ring' = 0 /\ silent' = Silent(speech)
        /\ continuing' = continuing
        /\ IF PartialIsDue THEN /\ windows' = Append(windows, Window(Start, now', FALSE, FALSE))
                                /\ partialAt' = Size
                           ELSE windows' = windows /\ partialAt' = partialAt
    BY <1>2 DEF Grow, Ends, AtCap
  <2>2. now' = now + 1 /\ now' \in Nat /\ Start \in 0 .. now /\ Size \in Nat /\ Size = now + 1 - Start
    BY <2>1, HearTypes
  <2>9. silent' \in Nat /\ ~(silent' >= Hang)
    BY <2>1, HearTypes
  <2>3. /\ windows' \in Seq(WindowRecords)
        /\ \A i \in 1 .. Len(windows') :
             /\ windows'[i].after < windows'[i].to /\ windows'[i].to <= now'
             /\ windows'[i].to - windows'[i].after <= MaxSegment
    <3>1. CASE PartialIsDue
      <4> DEFINE w == Window(Start, now', FALSE, FALSE)
      <4>1. w \in WindowRecords /\ w.after = Start /\ w.to = now'
        BY <2>2 DEF Window, WindowRecords
      <4>2. windows' = Append(windows, w)
        BY <2>1, <3>1
      <4> HIDE DEF w
      <4> QED
        BY <1>t, <2>1, <2>2, <4>1, <4>2, AppendWindow
    <3>2. CASE ~PartialIsDue
      BY <1>t, <2>1, <2>2, <3>2, KeepWindows
    <3> QED
      BY <3>1, <3>2
  <2>4. silent' \in 0 .. Hang /\ start' \in 0 .. now'
    <3>1. start' = Start
      BY <2>1
    <3> QED
      BY <1>t, <2>2, <2>9, <3>1
  <2>8. partialAt' \in 0 .. MaxSegment
    <3>1. (partialAt' = Size \/ partialAt' = partialAt) /\ ~(Size >= MaxSegment)
      BY <2>1
    <3> QED
      BY <1>t, <2>2, <3>1
  <2>5. now' - start' < MaxSegment /\ ring' \in 0 .. PreRoll /\ ring' <= now'
    <3>1. ring' = 0 /\ start' = Start /\ ~(Size >= MaxSegment)
      BY <2>1
    <3> QED
      BY <1>t, <2>2, <3>1
  <2>6. continuing' /\ MinSegment <= Overlap => now' - start' >= Overlap
    BY <1>t, <1>c, <2>1, <2>2 DEF Start
  <2>7. inSpeech' /\ continuing' \in BOOLEAN
    BY <1>t, <2>1
  <2> QED
    BY <1>f, <2>1, <2>3, <2>4, <2>5, <2>6, <2>7, <2>8
<1>3. ASSUME NEW speech \in BOOLEAN, Cut(speech) PROVE Segments'
  <2>1. /\ Hear(speech) /\ Speaking(speech) /\ Size >= MaxSegment /\ EmitFinal(Start, now', TRUE)
        /\ inSpeech' = TRUE /\ start' = now' - Shorter(Overlap, Size) /\ ring' = 0 /\ silent' = 0
        /\ partialAt' = Shorter(Overlap, Size)
    BY <1>3 DEF Cut, AtCap
  <2>2. /\ now' = now + 1 /\ now' \in Nat /\ Start \in 0 .. now /\ Size \in Nat /\ Size = now + 1 - Start
        /\ Size <= MaxSegment
    BY <2>1, HearTypes
  <2>3. Shorter(Overlap, Size) = Overlap
    BY <2>1, <2>2 DEF Shorter
  <2>4. /\ windows' \in Seq(WindowRecords)
        /\ \A i \in 1 .. Len(windows') :
             /\ windows'[i].after < windows'[i].to /\ windows'[i].to <= now'
             /\ windows'[i].to - windows'[i].after <= MaxSegment
        /\ continuing' = IF now' - Start >= MinSegment THEN TRUE ELSE continuing
    <3>1. Start \in Nat /\ now <= now' /\ now' - Start <= MaxSegment
      BY <1>t, <2>2
    <3> QED
      BY <2>1, <2>2, <3>1, EmitFinalWindows
  <2>5. Overlap <= Size /\ Size <= now'
    <3>1. Size >= MaxSegment
      BY <2>1
    <3> QED
      BY <1>t, <2>2, <3>1
  <2>6. /\ start' = now' - Overlap /\ start' \in 0 .. now' /\ now' - start' = Overlap
        /\ ring' = 0 /\ silent' = 0 /\ partialAt' = Overlap /\ inSpeech'
    BY <2>1, <2>2, <2>3, <2>5
  <2>7. /\ ring' \in 0 .. PreRoll /\ ring' <= now' /\ silent' \in 0 .. Hang
        /\ partialAt' \in 0 .. MaxSegment /\ now' - start' < MaxSegment /\ now' - start' >= Overlap
    BY <2>2, <2>6
  <2>8. continuing' \in BOOLEAN
    BY <1>t, <2>4
  <2> QED
    BY <1>f, <2>1, <2>4, <2>6, <2>7, <2>8
<1>4. ASSUME NEW speech \in BOOLEAN, CloseSegment(speech) PROVE Segments'
  <2>1. /\ Hear(speech) /\ Speaking(speech) /\ EmitFinal(Start, now', FALSE)
        /\ inSpeech' = FALSE /\ start' = now' /\ ring' = 0 /\ silent' = 0 /\ partialAt' = 0
    BY <1>4 DEF CloseSegment
  <2>2. /\ now' = now + 1 /\ now' \in Nat /\ Start \in 0 .. now /\ Size \in Nat /\ Size = now + 1 - Start
        /\ Size <= MaxSegment
    BY <2>1, HearTypes
  <2>3. /\ windows' \in Seq(WindowRecords)
        /\ \A i \in 1 .. Len(windows') :
             /\ windows'[i].after < windows'[i].to /\ windows'[i].to <= now'
             /\ windows'[i].to - windows'[i].after <= MaxSegment
        /\ continuing' = IF now' - Start >= MinSegment THEN FALSE ELSE continuing
    <3>1. Start \in Nat /\ now <= now' /\ now' - Start <= MaxSegment
      BY <1>t, <2>2
    <3> QED
      BY <2>1, <2>2, <3>1, EmitFinalWindows
  <2>4. ~(continuing' /\ MinSegment <= Overlap)
    <3>1. SUFFICES ASSUME continuing, MinSegment <= Overlap PROVE now' - Start >= MinSegment
      BY <2>3
    <3>2. inSpeech /\ now - start >= Overlap
      BY <1>c, <3>1
    <3>3. Start = start
      BY <3>2 DEF Start
    <3> QED
      BY <1>t, <2>2, <3>1, <3>2, <3>3
  <2>5. /\ ring' \in 0 .. PreRoll /\ ring' <= now' /\ silent' \in 0 .. Hang
        /\ partialAt' \in 0 .. MaxSegment /\ start' \in 0 .. now'
    BY <2>1, <2>2
  <2>6. continuing' \in BOOLEAN
    BY <1>t, <2>3
  <2> QED
    BY <1>f, <2>1, <2>3, <2>4, <2>5, <2>6
<1>5. ASSUME EndOfStream PROVE Segments'
  <2>1. /\ capture = "on" /\ capture' = "over"
        /\ IF inSpeech THEN EmitFinal(start, now, FALSE) ELSE windows' = windows /\ continuing' = continuing
        /\ now' = now /\ loud' = loud /\ ring' = ring /\ owed' = owed
        /\ inSpeech' = inSpeech /\ start' = start /\ silent' = silent /\ partialAt' = partialAt
    BY <1>5 DEF EndOfStream, segment
  <2>2. /\ windows' \in Seq(WindowRecords)
        /\ \A i \in 1 .. Len(windows') :
             /\ windows'[i].after < windows'[i].to /\ windows'[i].to <= now'
             /\ windows'[i].to - windows'[i].after <= MaxSegment
        /\ continuing' \in BOOLEAN
        /\ ~(continuing' /\ MinSegment <= Overlap)
    <3>1. CASE inSpeech
      <4>1. /\ windows' \in Seq(WindowRecords)
            /\ \A i \in 1 .. Len(windows') :
                 /\ windows'[i].after < windows'[i].to /\ windows'[i].to <= now
                 /\ windows'[i].to - windows'[i].after <= MaxSegment
            /\ continuing' = IF now - start >= MinSegment THEN FALSE ELSE continuing
        <5>1. EmitFinal(start, now, FALSE)
          BY <2>1, <3>1
        <5>2. now <= now /\ now - start <= MaxSegment
          BY <1>t, <3>1
        <5> QED
          BY <1>t, <5>1, <5>2, EmitFinalWindows
      <4>2. continuing /\ MinSegment <= Overlap => now - start >= MinSegment
        BY <1>c, <1>t
      <4> QED
        BY <1>t, <2>1, <4>1, <4>2
    <3>2. CASE ~inSpeech
      BY <1>t, <1>c, <2>1, <3>2, KeepWindows
    <3> QED
      BY <3>1, <3>2
  <2>3. SegmenterTypeOK'
    BY <1>t, <2>1, <2>2 DEF Segments, SegmenterTypeOK
  <2> QED
    BY <1>t, <2>1, <2>2, <2>3 DEF Segments
<1> QED
  BY <1>1, <1>2, <1>3, <1>4, <1>5 DEF Segment

\* The recogniser takes a window, which is not the empty one.
LEMMA TakeSegments ==
  ASSUME Segments, Take
  PROVE  Segments' /\ window' # NoWindow
<1> USE Lengths
<1>1. /\ windows # <<>> /\ window' = Head(windows) /\ windows' = Tail(windows)
      /\ UNCHANGED <<capture, now, loud, ring, inSpeech, start, silent, partialAt, continuing, owed>>
  BY DEF Take, segment
<1>2. windows \in Seq(WindowRecords)
  BY DEF Segments
<1>3. /\ windows' \in Seq(WindowRecords) /\ Len(windows') = Len(windows) - 1 /\ Len(windows) \in Nat \ {0}
      /\ \A i \in 1 .. Len(windows') : windows'[i] = windows[i + 1] /\ i + 1 \in 1 .. Len(windows)
      /\ window' = windows[1] /\ 1 \in 1 .. Len(windows)
  BY <1>1, <1>2
<1>4. \A i \in 1 .. Len(windows) :
        /\ windows[i].after < windows[i].to /\ windows[i].to <= now
        /\ windows[i].to - windows[i].after <= MaxSegment
  BY DEF Segments, SegmenterTypeOK
<1>5. SegmenterTypeOK'
  BY <1>1, <1>3, <1>4 DEF Segments, SegmenterTypeOK
<1>6. Segments'
  BY <1>1, <1>3, <1>5 DEF Segments
<1>7. window'.after < window'.to
  BY <1>3, <1>4
<1>8. NoWindow.after = 0 /\ NoWindow.to = 0
  BY DEF NoWindow, Window
<1> QED
  BY <1>6, <1>7, <1>8

\* The loop of transcribe: it holds a window where it has one to decode.
Loop ==
  /\ worker \in {"off", "receive", "taken", "native"}
  /\ (worker \in {"off", "receive"}) = (window = NoWindow)
  /\ streams \in 0 .. MaxStreams

LEMMA ReturnKeeps ==
  ASSUME Segments, Loop, NEW context, Return(context)
  PROVE  Segments' /\ Loop'
<1>1. owed' \subseteq owed
  BY DEF Return
<1>2. UNCHANGED <<capture, now, loud, ring, inSpeech, start, silent, partialAt, windows, continuing>>
  BY DEF Return, segment
<1>3. Segments'
  BY <1>1, <1>2 DEF Segments, SegmenterTypeOK
<1> QED
  BY <1>3 DEF Return, Loop

LEMMA NextLoop == Segments /\ Loop /\ [Next]_vars => Segments' /\ Loop'
<1> SUFFICES ASSUME Segments, Loop, [Next]_vars PROVE Segments' /\ Loop'
  OBVIOUS
<1>1. ASSUME NEW p \in Preps, Preparing(p) PROVE UNCHANGED <<segmenter, stream>>
  BY <1>1 DEF Preparing, Prepare, ReadHandle, SetLanguage, Provision, CallInit, InitOk, InitNull, Install
<1>2. CASE Release
  BY <1>2 DEF Release, Segments, SegmenterTypeOK, segmenter, segment, Loop, stream
<1>3. CASE Segment /\ UNCHANGED <<preparation, native, closed, stream>>
  BY <1>3, SegmentSegments DEF Loop, stream
<1>4. CASE Transcribe
  <2>1. /\ capture' = "on" /\ loud' = 0 /\ ring' = 0 /\ inSpeech' = FALSE /\ start' = now
        /\ silent' = 0 /\ partialAt' = 0 /\ windows' = <<>> /\ ~continuing' /\ owed' = {} /\ now' = now
    BY <1>4 DEF Transcribe, Listen
  <2>2. now \in 0 .. MaxFrames /\ now \in Nat
    BY Lengths DEF Segments, SegmenterTypeOK
  <2>3. windows' \in Seq(WindowRecords) /\ Len(windows') = 0
    BY <2>1
  <2>4. /\ \A i \in 1 .. Len(windows') :
             /\ windows'[i].after < windows'[i].to /\ windows'[i].to <= now'
             /\ windows'[i].to - windows'[i].after <= MaxSegment
    BY <2>3
  <2>5. inSpeech' \in BOOLEAN /\ continuing' \in BOOLEAN /\ {inSpeech', continuing'} \subseteq BOOLEAN
    BY <1>4 DEF Transcribe, Listen
  <2>6. /\ {now', start'} \subseteq 0 .. MaxFrames /\ start' <= now'
        /\ loud' \in 0 .. FramesToOpen /\ ring' \in 0 .. PreRoll
        /\ silent' \in 0 .. Hang /\ partialAt' \in 0 .. MaxSegment
        /\ ring' <= now' /\ loud' <= now'
    BY <2>1, <2>2, Lengths
  <2>7. SegmenterTypeOK'
    BY <2>1, <2>4, <2>5, <2>6 DEF SegmenterTypeOK
  <2>8. Segments'
    BY <2>1, <2>3, <2>5, <2>6, <2>7 DEF Segments
  <2> QED
    BY <1>4, <2>8, WhisperAssumption DEF Transcribe, Loop
<1>5. CASE Receive \/ Skip
  BY <1>5, TakeSegments DEF Receive, Skip, Take, Loop
<1>6. CASE Decode
  BY <1>6 DEF Decode, Segments, SegmenterTypeOK, segmenter, segment, Loop
<1>7. CASE NotDecoded \/ NotCarried \/ Carried
  BY <1>7, ReturnKeeps DEF NotDecoded, NotCarried, Carried
<1>8. CASE Stop
  <2>1. UNCHANGED <<now, loud, ring, inSpeech, start, silent, partialAt>> /\ worker' = "off"
        /\ worker = "receive" /\ UNCHANGED <<window, streams>>
    BY <1>8 DEF Stop, segment
  <2>2. \/ UNCHANGED <<capture, windows, owed, continuing>>
        \/ capture' = "over" /\ windows' = <<>> /\ owed' = {} /\ continuing' = FALSE
    BY <1>8 DEF Stop
  <2>3. CASE UNCHANGED <<capture, windows, owed, continuing>>
    BY <2>1, <2>3 DEF Segments, SegmenterTypeOK, Loop
  <2>4. CASE capture' = "over" /\ windows' = <<>> /\ owed' = {} /\ continuing' = FALSE
    <3>1. windows' \in Seq(WindowRecords) /\ Len(windows') = 0
      BY <2>4
    <3>3. \A i \in 1 .. Len(windows') :
            /\ windows'[i].after < windows'[i].to /\ windows'[i].to <= now'
            /\ windows'[i].to - windows'[i].after <= MaxSegment
      BY <3>1
    <3>4. {inSpeech', continuing'} \subseteq BOOLEAN
      BY <2>1, <2>4 DEF Segments
    <3>2. SegmenterTypeOK'
      BY <2>1, <2>4, <3>3, <3>4 DEF Segments, SegmenterTypeOK
    <3> QED
      BY <2>1, <2>4, <3>1, <3>2 DEF Segments, Loop
  <2> QED
    BY <2>2, <2>3, <2>4
<1>9. CASE UNCHANGED vars
  BY <1>9 DEF vars, Segments, SegmenterTypeOK, segmenter, segment, Loop, stream
<1>10. ASSUME UNCHANGED <<segmenter, stream>> PROVE Segments' /\ Loop'
  BY <1>10 DEF Segments, SegmenterTypeOK, segmenter, segment, Loop, stream
<1> QED
  BY <1>1, <1>2, <1>3, <1>4, <1>5, <1>6, <1>7, <1>8, <1>9, <1>10 DEF Next, Transcribing

LEMMA InitLoop == Init => Loop
  BY WhisperAssumption DEF Init, Loop, NoWindow

\* Every variable keeps its type, and the loop holds a window where it needs one.
THEOREM TypeCorrect == Spec => []TypeOK
<1>1. Init => Segments /\ Loop /\ Handles
  BY InitSegments, InitLoop, InitHandles
<1>2. (Segments /\ Loop /\ Handles) /\ [Next]_vars => (Segments /\ Loop /\ Handles)'
  BY NextLoop, NextHandles
<1>3. Segments /\ Loop /\ Handles => TypeOK
  BY DEF Segments, Loop, Handles, HandleTypes, Ownership, TypeOK
<1> QED
  BY <1>1, <1>2, <1>3, PTL DEF Spec

\* After a window cut at the cap, and until one ends the utterance, the segment is
\* open, if the overlap is no shorter than the shortest segment: it is the segment
\* from which that window comes, with or without text for the stage.
THEOREM CutsAreFollowed == Spec => []UtterancesEnd
<1>1. Init => Segments /\ Loop
  BY InitSegments, InitLoop
<1>2. Segments => UtterancesEnd
  BY DEF Segments, UtterancesEnd
<1> QED
  BY <1>1, <1>2, NextLoop, PTL DEF Spec

-----------------------------------------------------------------------------
(* No speech is lost.                                                      *)

\* What the SDK's constants have in common: the frames that open a segment are
\* in the pre-roll, the overlap of a cut holds as many, and a silence that ends
\* a segment is no shorter than the shortest segment (SILENCE_HANG_MS and
\* MIN_SEGMENT_MS are both 300).  The constructor requires none of it.
Proportions ==
  /\ FramesToOpen <= PreRoll + 1 /\ FramesToOpen <= Overlap + 1
  /\ MinSegment <= Hang

\* Frame f is in a final window on its way to the recogniser.
Given(f) ==
  \/ \E i \in 1 .. Len(windows) : windows[i].final /\ f \in Frames(windows[i])
  \/ window.final /\ f \in Frames(window)

\* Frame f is in the open segment, which will be a window if it is not the last
\* and too short.
Carries(f) ==
  /\ inSpeech /\ start < f /\ f <= now
  /\ capture = "on" \/ (capture = "over" /\ now - start < MinSegment)

Accounted == closed \/ \A f \in owed : Given(f) \/ Carries(f)

\* A segment begins no later than the frames that opened it, and holds its
\* silence; the pre-roll keeps the loud frames that may yet open one; and the
\* loop of transcribe has an engine, unless it was released.
Lead ==
  /\ inSpeech => FramesToOpen - 1 <= now - start /\ silent <= now - start
  /\ ~inSpeech => loud <= ring \/ FramesToOpen - 1 <= ring
  /\ worker # "off" => handleRef # None \/ closed

\* What the next frame adds to what is owed is in the segment it belongs to.
LEMMA HearOwes ==
  ASSUME Segments, Proportions, Lead, NEW speech \in BOOLEAN, Hear(speech)
  PROVE  /\ ~Speaking(speech) => owed' = owed /\ (loud' <= loud + 1 /\ loud' < FramesToOpen)
         /\ Speaking(speech) => FramesToOpen - 1 <= now - Start
         /\ Speaking(speech) => \A f \in owed' : f \in owed \/ (Start < f /\ f <= now')
<1> USE Lengths
<1>1. /\ now \in Nat /\ start \in Nat /\ start <= now /\ ring \in Nat
      /\ loud \in 0 .. FramesToOpen /\ FramesToOpen \in Nat \ {0} /\ inSpeech \in BOOLEAN
      /\ owed \subseteq 1 .. now
  BY DEF Segments, SegmenterTypeOK
<1>2. /\ now' = now + 1
      /\ loud' = IF speech THEN Shorter(loud + 1, FramesToOpen) ELSE 0
      /\ owed' = IF loud' < FramesToOpen THEN owed ELSE owed \cup (now' + 1 - FramesToOpen .. now')
  BY DEF Hear
<1>3. ASSUME ~Speaking(speech)
      PROVE  owed' = owed /\ loud' <= loud + 1 /\ loud' < FramesToOpen
  <2>1. ~inSpeech /\ (speech => loud + 1 < FramesToOpen)
    BY <1>1, <1>3 DEF Speaking, Opens
  <2>2. loud' < FramesToOpen /\ loud' <= loud + 1
    BY <1>1, <1>2, <2>1 DEF Shorter
  <2> QED
    BY <1>2, <2>2
<1>4. ASSUME Speaking(speech)
      PROVE  FramesToOpen - 1 <= now - Start
  <2>1. CASE inSpeech
    BY <2>1 DEF Lead, Start
  <2>2. CASE ~inSpeech
    <3>1. loud + 1 >= FramesToOpen
      BY <1>4, <2>2 DEF Speaking, Opens
    <3>2. FramesToOpen - 1 <= ring
      BY <1>1, <2>2, <3>1 DEF Lead
    <3>3. Start = now - ring
      BY <2>2 DEF Start
    <3> QED
      BY <1>1, <3>2, <3>3
  <2> QED
    BY <2>1, <2>2
<1>5. ASSUME Speaking(speech), NEW f \in owed', f \notin owed
      PROVE  Start < f /\ f <= now'
  <2>1. f \in now' + 1 - FramesToOpen .. now'
    BY <1>2, <1>5
  <2>2. Start \in Int
    BY <1>1 DEF Start
  <2> QED
    BY <1>1, <1>2, <1>4, <1>5, <2>1, <2>2
<1> QED
  BY <1>3, <1>4, <1>5

\* A window that is handed on gives its frames, and takes none from the others.
LEMMA AppendGives ==
  ASSUME Segments, NEW w \in WindowRecords, windows' = Append(windows, w), window' = window, NEW f
  PROVE  /\ Given(f) => Given(f)'
         /\ w.final /\ f \in Frames(w) => Given(f)'
<1>1. /\ Len(windows') = Len(windows) + 1 /\ Len(windows) \in Nat
      /\ windows'[Len(windows) + 1] = w
      /\ \A i \in 1 .. Len(windows) : windows'[i] = windows[i]
  BY DEF Segments
<1>2. \A i \in 1 .. Len(windows) : i \in 1 .. Len(windows')
  BY <1>1
<1>3. Len(windows) + 1 \in 1 .. Len(windows')
  BY <1>1
<1>4. Given(f) => Given(f)'
  BY <1>1, <1>2 DEF Given, Frames
<1>5. w.final /\ f \in Frames(w) => Given(f)'
  BY <1>1, <1>3 DEF Given, Frames
<1> QED
  BY <1>4, <1>5

\* A final window that is long enough gives the frames of the segment.
LEMMA EmitFinalGives ==
  ASSUME Segments, NEW a \in Nat, NEW b \in Nat, NEW c \in BOOLEAN,
         EmitFinal(a, b, c), window' = window, NEW f
  PROVE  /\ Given(f) => Given(f)'
         /\ b - a >= MinSegment /\ f \in Int /\ a < f /\ f <= b => Given(f)'
<1>1. CASE b - a >= MinSegment
  <2> DEFINE w == Window(a, b, TRUE, c)
  <2>1. /\ w \in WindowRecords /\ w.final
        /\ f \in Int /\ a < f /\ f <= b => f \in Frames(w)
    BY DEF Window, WindowRecords, Frames
  <2>2. windows' = Append(windows, w)
    BY <1>1 DEF EmitFinal
  <2> HIDE DEF w
  <2> QED
    BY <2>1, <2>2, AppendGives
<1>2. CASE ~(b - a >= MinSegment)
  BY <1>2 DEF EmitFinal, Given
<1> QED
  BY <1>1, <1>2

\* Each frame stays in the open segment, or is handed on with it.
LEMMA SegmentKeeps ==
  ASSUME Segments, Proportions, Lead, Accounted, Segment,
         UNCHANGED <<preparation, native, closed, stream>>
  PROVE  Lead' /\ Accounted'
<1> USE Lengths
<1>t. /\ now \in Nat /\ start \in Nat /\ start <= now /\ ring \in Nat /\ ring \in 0 .. PreRoll
      /\ loud \in 0 .. FramesToOpen /\ silent \in Nat
      /\ inSpeech \in BOOLEAN /\ owed \subseteq 1 .. now
      /\ PreRoll \in Nat /\ Overlap \in Nat /\ Hang \in Nat \ {0} /\ MinSegment \in Nat \ {0}
      /\ MaxSegment \in Nat /\ FramesToOpen \in Nat \ {0} /\ MinSegment <= MaxSegment
      /\ Overlap < MaxSegment
  BY DEF Segments, SegmenterTypeOK
<1>u. UNCHANGED <<closed, worker, window, handleRef>>
  BY DEF native, stream
<1>p. FramesToOpen <= PreRoll + 1 /\ FramesToOpen <= Overlap + 1 /\ MinSegment <= Hang
  BY DEF Proportions
<1>h. worker' # "off" => handleRef' # None \/ closed'
  BY <1>u DEF Lead
<1>1. ASSUME NEW speech \in BOOLEAN, Wait(speech) PROVE Lead' /\ Accounted'
  <2>1. /\ Hear(speech) /\ ~Speaking(speech) /\ ring' = Shorter(ring + 1, PreRoll)
        /\ inSpeech' = inSpeech /\ windows' = windows
    BY <1>1 DEF Wait, segment
  <2>2. ~inSpeech
    BY <2>1 DEF Speaking
  <2>3. owed' = owed /\ loud' <= loud + 1 /\ loud' < FramesToOpen /\ loud' \in 0 .. FramesToOpen
    BY <2>1, HearOwes, HearTypes
  <2>4. loud' <= ring' \/ FramesToOpen - 1 <= ring'
    <3>1. loud <= ring \/ FramesToOpen - 1 <= ring
      BY <2>2 DEF Lead
    <3> QED
      BY <1>t, <1>p, <2>1, <2>3, <3>1 DEF Shorter
  <2>5. Accounted'
    BY <1>u, <2>1, <2>2, <2>3 DEF Accounted, Given, Carries
  <2> QED
    BY <1>h, <2>1, <2>2, <2>4, <2>5 DEF Lead
<1>2. ASSUME NEW speech \in BOOLEAN, NEW f \in owed', ~closed, Hear(speech), Speaking(speech)
      PROVE  f \in Nat /\ (Given(f) \/ (Start < f /\ f <= now'))
  <2>1. f \in owed \/ (Start < f /\ f <= now')
    BY <1>2, HearOwes
  <2>2. now' = now + 1 /\ now' \in Nat /\ owed' \subseteq 1 .. now'
    BY <1>2, HearTypes
  <2>3. f \in owed => Given(f) \/ (Start < f /\ f <= now')
    <3>1. Carries(f) => inSpeech /\ start < f /\ f <= now
      BY DEF Carries
    <3>2. inSpeech => Start = start
      BY DEF Start
    <3>3. f \in Nat
      BY <2>2
    <3> QED
      BY <1>2, <1>t, <2>2, <3>1, <3>2, <3>3 DEF Accounted
  <2> QED
    BY <2>1, <2>2, <2>3
<1>3. ASSUME NEW speech \in BOOLEAN, Grow(speech) PROVE Lead' /\ Accounted'
  <2>1. /\ Hear(speech) /\ Speaking(speech)
        /\ inSpeech' = TRUE /\ start' = Start /\ silent' = Silent(speech)
        /\ IF PartialIsDue THEN windows' = Append(windows, Window(Start, now', FALSE, FALSE))
                           ELSE windows' = windows
    BY <1>3 DEF Grow
  <2>2. /\ now' = now + 1 /\ now' \in Nat /\ Start \in 0 .. now /\ capture = "on" /\ capture' = capture
    BY <2>1, HearTypes
  <2>3. FramesToOpen - 1 <= now' - start'
    <3>1. FramesToOpen - 1 <= now - Start
      BY <2>1, HearOwes
    <3> QED
      BY <1>t, <2>1, <2>2, <3>1
  <2>4. silent' <= now' - start'
    <3>1. CASE inSpeech
      <4>1. Start = start /\ silent <= now - start
        BY <3>1 DEF Start, Lead
      <4>2. silent' <= silent + 1
        BY <1>t, <2>1 DEF Silent
      <4>3. silent' \in Nat
        BY <1>t, <2>1 DEF Silent
      <4> QED
        BY <1>t, <2>1, <2>2, <4>1, <4>2, <4>3
    <3>2. CASE ~inSpeech
      <4>1. silent' = 0
        BY <2>1, <3>2 DEF Silent
      <4> QED
        BY <1>t, <2>1, <2>2, <4>1
    <3> QED
      BY <3>1, <3>2
  <2>5. ASSUME NEW f \in owed', ~closed PROVE Given(f)' \/ Carries(f)'
    <3>1. Given(f) => Given(f)'
      <4>1. CASE PartialIsDue
        <5> DEFINE w == Window(Start, now', FALSE, FALSE)
        <5>1. w \in WindowRecords
          BY <2>2 DEF Window, WindowRecords
        <5>2. windows' = Append(windows, w)
          BY <2>1, <4>1
        <5> HIDE DEF w
        <5> QED
          BY <1>u, <5>1, <5>2, AppendGives
      <4>2. CASE ~PartialIsDue
        BY <1>u, <2>1, <4>2 DEF Given
      <4> QED
        BY <4>1, <4>2
    <3>2. Given(f) \/ (Start < f /\ f <= now')
      BY <1>2, <2>1, <2>5
    <3>3. Start < f /\ f <= now' => Carries(f)'
      BY <2>1, <2>2 DEF Carries
    <3> QED
      BY <3>1, <3>2, <3>3
  <2>6. Accounted'
    BY <1>u, <2>5 DEF Accounted
  <2> QED
    BY <1>h, <2>1, <2>3, <2>4, <2>6 DEF Lead
<1>4. ASSUME NEW speech \in BOOLEAN, NEW c \in BOOLEAN, Hear(speech), Speaking(speech),
             EmitFinal(Start, now', c), Size >= MinSegment
      PROVE  Accounted'
  <2>1. /\ now' = now + 1 /\ now' \in Nat /\ Start \in 0 .. now /\ Size = now + 1 - Start
    BY <1>4, HearTypes
  <2>2. ASSUME NEW f \in owed', ~closed PROVE Given(f)'
    <3>1. f \in Nat /\ (Given(f) \/ (Start < f /\ f <= now'))
      BY <1>2, <1>4, <2>2
    <3>2. now' - Start >= MinSegment /\ Start \in Nat
      BY <1>t, <1>4, <2>1
    <3> QED
      BY <1>4, <1>u, <2>1, <3>1, <3>2, EmitFinalGives
  <2> QED
    BY <1>u, <2>2 DEF Accounted
<1>5. ASSUME NEW speech \in BOOLEAN, Cut(speech) PROVE Lead' /\ Accounted'
  <2>1. /\ Hear(speech) /\ Speaking(speech) /\ Size >= MaxSegment /\ EmitFinal(Start, now', TRUE)
        /\ inSpeech' = TRUE /\ start' = now' - Shorter(Overlap, Size) /\ silent' = 0
    BY <1>5 DEF Cut, AtCap
  <2>2. /\ now' = now + 1 /\ now' \in Nat /\ Start \in 0 .. now /\ Size = now + 1 - Start /\ Size \in Nat
    BY <2>1, HearTypes
  <2>3. Size >= MinSegment
    BY <1>t, <2>1, <2>2
  <2>4. Shorter(Overlap, Size) = Overlap
    BY <1>t, <2>1, <2>2 DEF Shorter
  <2>5. FramesToOpen - 1 <= now' - start' /\ silent' <= now' - start'
    BY <1>t, <1>p, <2>1, <2>2, <2>4
  <2>6. Accounted'
    BY <1>4, <2>1, <2>3
  <2> QED
    BY <1>h, <2>1, <2>5, <2>6 DEF Lead
<1>6. ASSUME NEW speech \in BOOLEAN, CloseSegment(speech) PROVE Lead' /\ Accounted'
  <2>1. /\ Hear(speech) /\ Speaking(speech) /\ EmitFinal(Start, now', FALSE)
        /\ inSpeech' = FALSE /\ ring' = 0
        /\ Silent(speech) >= Hang \/ (Size >= MaxSegment /\ ~(Overlap > 0))
    BY <1>6 DEF CloseSegment, Ends, AtCap
  <2>2. /\ now' = now + 1 /\ now' \in Nat /\ Start \in 0 .. now /\ Size = now + 1 - Start /\ Size \in Nat
    BY <2>1, HearTypes
  <2>3. Size >= MinSegment
    <3>1. CASE Silent(speech) >= Hang
      <4>1. Silent(speech) = silent + 1 /\ inSpeech
        BY <1>t, <3>1 DEF Silent
      <4>2. silent <= now - start /\ Start = start
        BY <4>1 DEF Lead, Start
      <4> QED
        BY <1>t, <1>p, <2>2, <3>1, <4>1, <4>2
    <3>2. CASE Size >= MaxSegment
      BY <1>t, <2>2, <3>2
    <3> QED
      BY <2>1, <3>1, <3>2
  <2>4. loud' <= ring' \/ FramesToOpen - 1 <= ring'
    <3>1. CASE Overlap > 0
      <4>1. Silent(speech) >= Hang
        BY <2>1, <3>1
      <4>2. ~speech
        BY <1>t, <4>1 DEF Silent
      <4> QED
        BY <2>1, <4>2 DEF Hear
    <3>2. CASE ~(Overlap > 0)
      BY <1>t, <1>p, <2>1, <3>2
    <3> QED
      BY <3>1, <3>2
  <2>5. Accounted'
    BY <1>4, <2>1, <2>3
  <2> QED
    BY <1>h, <2>1, <2>4, <2>5 DEF Lead
<1>7. ASSUME EndOfStream PROVE Lead' /\ Accounted'
  <2>1. /\ capture = "on" /\ capture' = "over"
        /\ IF inSpeech THEN EmitFinal(start, now, FALSE) ELSE windows' = windows
        /\ now' = now /\ loud' = loud /\ ring' = ring /\ owed' = owed
        /\ inSpeech' = inSpeech /\ start' = start /\ silent' = silent
    BY <1>7 DEF EndOfStream, segment
  <2>2. Lead'
    BY <1>h, <2>1 DEF Lead
  <2>3. ASSUME NEW f \in owed, ~closed PROVE Given(f)' \/ Carries(f)'
    <3>1. Given(f) \/ Carries(f)
      BY <2>3 DEF Accounted
    <3>2. CASE inSpeech
      <4>1. /\ Given(f) => Given(f)'
            /\ now - start >= MinSegment /\ f \in Int /\ start < f /\ f <= now => Given(f)'
        <5>1. EmitFinal(start, now, FALSE)
          BY <2>1, <3>2
        <5> QED
          BY <1>t, <1>u, <5>1, EmitFinalGives
      <4>2. Carries(f) => start < f /\ f <= now
        BY DEF Carries
      <4>3. f \in Int
        BY <1>t, <2>3
      <4>4. start < f /\ f <= now /\ now - start < MinSegment => Carries(f)'
        BY <2>1, <3>2 DEF Carries
      <4> QED
        BY <1>t, <3>1, <4>1, <4>2, <4>3, <4>4
    <3>3. CASE ~inSpeech
      BY <1>u, <2>1, <3>1, <3>3 DEF Given, Carries
    <3> QED
      BY <3>2, <3>3
  <2>4. Accounted'
    BY <1>u, <2>1, <2>3 DEF Accounted
  <2> QED
    BY <2>2, <2>4
<1> QED
  BY <1>1, <1>3, <1>5, <1>6, <1>7 DEF Segment

\* The recogniser takes a window out of the channel: it is as much on its way
\* in the hand, and one that gives way to it was no final window.
LEMMA TakeKeeps ==
  ASSUME Segments, Take, ~window.final, Accounted, closed' = closed
  PROVE  Accounted'
<1>1. /\ windows # <<>> /\ window' = Head(windows) /\ windows' = Tail(windows)
      /\ UNCHANGED <<capture, now, inSpeech, start, owed>>
  BY DEF Take, segment
<1>2. windows \in Seq(WindowRecords)
  BY DEF Segments
<1>3. /\ Len(windows') = Len(windows) - 1 /\ Len(windows) \in Nat \ {0}
      /\ \A i \in 1 .. Len(windows') : windows'[i] = windows[i + 1]
      /\ window' = windows[1]
  BY <1>1, <1>2
<1>4. ASSUME NEW f, Given(f) PROVE Given(f)'
  <2>1. PICK i \in 1 .. Len(windows) : windows[i].final /\ f \in Frames(windows[i])
    BY <1>4 DEF Given
  <2>2. CASE i = 1
    BY <1>3, <2>1, <2>2 DEF Given, Frames
  <2>3. CASE i # 1
    <3>1. i - 1 \in 1 .. Len(windows') /\ (i - 1) + 1 = i
      BY <1>3, <2>3
    <3>2. windows'[i - 1] = windows[i]
      BY <1>3, <3>1
    <3> QED
      BY <2>1, <3>1, <3>2 DEF Given, Frames
  <2> QED
    BY <2>2, <2>3
<1> QED
  BY <1>1, <1>4 DEF Accounted, Carries

\* A final window that comes back was heard; a partial one has nothing to give.
LEMMA ReturnKeepsSpeech ==
  ASSUME Segments, Loop, Accounted, Lead, worker = "native", NEW context, Return(context)
  PROVE  Accounted' /\ Lead'
<1>1. /\ worker' = "receive" /\ window' = NoWindow
      /\ owed' = IF window.final THEN owed \ Frames(window) ELSE owed
      /\ UNCHANGED <<capture, now, loud, ring, inSpeech, start, silent, windows, handleRef, closed>>
  BY DEF Return, segment
<1>2. ASSUME NEW f \in owed', Given(f) PROVE Given(f)'
  BY <1>1, <1>2 DEF Given
<1>3. Accounted'
  BY <1>1, <1>2 DEF Accounted, Carries
<1>4. Lead'
  BY <1>1 DEF Lead
<1> QED
  BY <1>3, <1>4

\* Where a frame may be, on what the loop and the handles of the contexts are.
Kept == Segments /\ Loop /\ Handles /\ Lead /\ Accounted

\* Every step of a preparation, of the segmenter, of the loop and of stop()
\* leaves each owed frame somewhere on its way to the recogniser.
LEMMA NextKept ==
  ASSUME Proportions, Kept, [Next]_vars
  PROVE  Kept'
<1> USE DEF Kept
<1>k. Segments' /\ Loop' /\ Handles'
  BY NextLoop, NextHandles
<1> SUFFICES Lead' /\ Accounted'
  BY <1>k
<1>1. ASSUME NEW p \in Preps, Preparing(p) PROVE Lead' /\ Accounted'
  <2>1. UNCHANGED <<segmenter, stream, closed>>
    BY <1>1 DEF Preparing, Prepare, ReadHandle, SetLanguage, Provision, CallInit, InitOk,
       InitNull, Install
  <2>2. handleRef # None => handleRef' # None
    BY <1>1 DEF Preparing, Prepare, ReadHandle, SetLanguage, Provision, CallInit, InitOk,
       InitNull, Install, native
  <2> QED
    BY <2>1, <2>2 DEF segmenter, segment, stream, Lead, Accounted, Given, Carries
<1>2. CASE Release
  BY <1>2 DEF Release, segmenter, segment, stream, Lead, Accounted
<1>3. CASE Segment /\ UNCHANGED <<preparation, native, closed, stream>>
  BY <1>3, SegmentKeeps
<1>4. CASE Transcribe
  BY <1>4 DEF Transcribe, Listen, native, Lead, Accounted
<1>5. CASE Receive \/ Skip
  <2>1. Take /\ UNCHANGED <<closed, handleRef, loud, ring, inSpeech, now, start, silent>>
        /\ worker # "off"
    BY <1>5 DEF Receive, Skip, Take, native, segment
  <2>2. ~window.final
    BY <1>5 DEF Receive, Skip, Loop, NoWindow, Window
  <2>3. Accounted'
    BY <2>1, <2>2, TakeKeeps
  <2>4. Lead'
    BY <2>1 DEF Lead
  <2> QED
    BY <2>3, <2>4
<1>6. CASE Decode
  <2>1. /\ worker = "taken" /\ worker' # "off"
        /\ UNCHANGED <<segmenter, handleRef, closed>>
        /\ handleRef # None => window' = window
    BY <1>6 DEF Decode, native
  <2>2. Lead'
    BY <2>1 DEF Lead, segmenter, segment
  <2>3. Accounted'
    BY <2>1 DEF Lead, Accounted, Given, Carries, segmenter, segment
  <2> QED
    BY <2>2, <2>3
<1>7. CASE NotDecoded \/ NotCarried \/ Carried
  BY <1>7, ReturnKeepsSpeech DEF NotDecoded, NotCarried, Carried
<1>8. CASE Stop
  <2>1. /\ UNCHANGED <<now, loud, ring, inSpeech, start, silent, window, handleRef, closed>>
        /\ worker' = "off"
        /\ UNCHANGED <<capture, windows, owed>> \/ owed' = {}
    BY <1>8 DEF Stop, native, segment
  <2> QED
    BY <2>1 DEF Lead, Accounted, Given, Carries
<1>9. CASE UNCHANGED vars
  BY <1>9 DEF vars, segmenter, segment, stream, native, Lead, Accounted, Given, Carries
<1> QED
  BY <1>1, <1>2, <1>3, <1>4, <1>5, <1>6, <1>7, <1>8, <1>9 DEF Next, Transcribing

\* With the proportions of the SDK, whatever the lengths are: a frame of speech
\* that opened a segment is in it, or in a final window on its way, until the
\* recogniser has heard it.
THEOREM SpeechIsKept ==
  ASSUME Proportions
  PROVE  Spec => []NoSpeechIsLost
<1>1. Init => Kept
  <2>1. Init => Lead /\ Accounted
    BY Lengths DEF Init, SegmenterInit, Lead, Accounted
  <2> QED
    BY <2>1, InitSegments, InitLoop, InitHandles DEF Kept
<1>2. Kept /\ [Next]_vars => Kept'
  BY NextKept
<1>3. Kept => NoSpeechIsLost
  <2> SUFFICES ASSUME Kept, ~closed PROVE NoSpeechIsLost
    BY DEF NoSpeechIsLost
  <2> DEFINE onTheWay == {w \in {windows[i] : i \in 1 .. Len(windows)} \cup {window} : w.final}
             held == UNION {Frames(w) : w \in onTheWay}
             inOpen == IF inSpeech THEN start + 1 .. now ELSE {}
  <2>1. \A f : Given(f) => f \in held
    BY DEF Given
  <2>2. now \in Nat /\ start \in Nat /\ MinSegment \in Nat /\ start <= now /\ owed \subseteq 1 .. now
        /\ capture \in {"off", "on", "over"}
    BY Lengths DEF Kept, Segments, SegmenterTypeOK
  <2>3. \A f \in owed \ held : Carries(f)
    BY <2>1 DEF Kept, Accounted
  <2>4. \A f \in owed : Carries(f) => f \in inOpen
    BY <2>2 DEF Carries
  <2>5. inSpeech => Cardinality(inOpen) = now - start
    <3> SUFFICES ASSUME inSpeech PROVE Cardinality(start + 1 .. now) = now - start
      OBVIOUS
    <3>1. Cardinality(start + 1 .. now) = IF start + 1 > now THEN 0 ELSE now - (start + 1) + 1
      BY <2>2, FS_Interval
    <3> QED
      BY <2>2, <3>1
  <2>6. CASE owed \ held = {}
    BY <2>6 DEF NoSpeechIsLost
  <2>7. CASE owed \ held # {}
    <3>1. owed \ held \subseteq inOpen
      BY <2>3, <2>4
    <3>2. PICK f \in owed \ held : Carries(f)
      BY <2>3, <2>7
    <3>3. capture = "on" \/ (capture = "over" /\ Cardinality(inOpen) < MinSegment)
      BY <2>5, <3>2 DEF Carries
    <3> QED
      BY <3>1, <3>3 DEF NoSpeechIsLost
  <2> QED
    BY <2>6, <2>7
<1> QED
  BY <1>1, <1>2, <1>3, PTL DEF Spec
=============================================================================
