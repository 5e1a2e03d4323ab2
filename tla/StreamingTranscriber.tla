------------------------ MODULE StreamingTranscriber ------------------------
(***************************************************************************)
(* transcribe of the streaming recognisers, sherpa's and Vosk's, with the  *)
(* gate in front of it: frames go through the gate into a native decoder,  *)
(* which finds the ends of utterances; the stream ends with its audio or   *)
(* is cancelled where it suspends; the engine is released by another       *)
(* thread, and prepared again for a stream that follows.                   *)
(*                                                                         *)
(* Sound is a sequence of pieces: frames, or windows of the gate.  A       *)
(* hypothesis is the sound the decoder has taken since it was last reset.  *)
(* Partials, punctuation and casing are left out.                          *)
(***************************************************************************)
EXTENDS SpeechGate

CONSTANTS
  MaxFrame,     \* bound: samples of a frame
  MaxSamples,   \* bound: samples captured
  MaxStreams    \* bound: streams transcribed

ASSUME StreamAssumption == {MaxFrame, MaxSamples, MaxStreams} \subseteq Nat

VARIABLES
  engine,        \* which of the two
  handle,        \* handleRef holds a recogniser
  decoder,       \* what it took since its last reset
  pc,            \* where transcribe is
  pcm,           \* what the gate returned
  text,          \* the final being emitted
  pendingText,   \* pendingText, which like those two ends with its stream
  captured,      \* samples captured so far
  stream,        \* streams so far
  began,         \* the first sample of the stream (history)
  finals,        \* finals of the stream, one after the other (history)
  intact         \* the stream is neither cancelled nor released (history)

local == <<pcm, text, pendingText>>
history == <<captured, stream, began, finals, intact>>
vars == <<gate, engine, handle, decoder, pc, local, history>>

Blank(t) == \A i \in DOMAIN t : t[i] = Silence

Init ==
  /\ GateInit
  /\ engine \in {"sherpa", "vosk"}
  /\ handle = FALSE /\ decoder = <<>>
  /\ pc = "ended"
  /\ pcm = <<>> /\ text = <<>> /\ pendingText = <<>>
  /\ captured = 0 /\ stream = 0 /\ began = 1
  /\ finals = <<>> /\ intact = FALSE

-----------------------------------------------------------------------------
(* The session's calls.                                                    *)

\* prepareModel, for a model that is not loaded, which may fail; no stream is
\* transcribed then.
Prepare ==
  /\ pc = "ended"
  /\ PrepareGate
  /\ handle' \in BOOLEAN /\ decoder' = <<>>
  /\ UNCHANGED <<engine, pc, local, history>>

\* release, of the engine and its gate, which may be in the middle of a stream.
Release ==
  /\ handle
  /\ ReleaseGate
  /\ handle' = FALSE /\ decoder' = <<>>
  /\ intact' = FALSE
  /\ UNCHANGED <<engine, pc, local, captured, stream, began, finals>>

\* transcribe; nothing of the stream before is discarded.
Transcribe ==
  /\ pc = "ended" /\ handle
  /\ stream < MaxStreams
  /\ pc' = "frames"
  /\ stream' = stream + 1 /\ began' = captured + 1
  /\ finals' = <<>> /\ intact' = TRUE
  /\ UNCHANGED <<gate, engine, handle, decoder, local, captured>>

\* The collector is cancelled: at a frame, or where a final is emitted.
Cancel ==
  /\ \/ pc = "frames"
     \/ pc = "emit" /\ ~Blank(text)
     \/ pc = "last" /\ ~Blank(pendingText)
  /\ pc' = "ended"
  /\ text' = <<>> /\ pendingText' = <<>>
  /\ intact' = FALSE
  /\ UNCHANGED <<gate, engine, handle, decoder, pcm, captured, stream, began, finals>>

-----------------------------------------------------------------------------
(* A frame.                                                                *)

\* speechGate.process, or the frame itself without it.
Frame(size) ==
  LET frame == [i \in 1 .. size |-> captured + i]
  IN  /\ pc = "frames"
      /\ captured + size <= MaxSamples
      /\ captured' = captured + size
      /\ IF session
         THEN pc' = "gate" /\ input' = frame /\ UNCHANGED pcm
         ELSE pc' = "accept" /\ pcm' = <<frame>> /\ UNCHANGED input
      /\ UNCHANGED <<session, analysis, pending, pendingOpen, silentWindows, windows,
                     muted, engine, handle, decoder, text, pendingText, stream, began,
                     finals, intact>>

Gate ==
  /\ pc = "gate"
  /\ Fill \/ Judge(stream)
  /\ UNCHANGED <<engine, handle, decoder, pc, local, history>>

\* Mutant of Gated: one window less is held back.
GatedShort ==
  /\ pc = "gate" /\ input = <<>>
  /\ Drain(LookaheadWindows - 1, pcm')
  /\ pc' = IF pcm' = <<>> THEN "frames" ELSE "accept"
  /\ UNCHANGED <<engine, handle, decoder, text, pendingText, history>>

Gated ==
  /\ pc = "gate" /\ input = <<>>
  /\ Drain(LookaheadWindows, pcm')
  /\ pc' = IF pcm' = <<>> THEN "frames" ELSE "accept"
  /\ UNCHANGED <<engine, handle, decoder, text, pendingText, history>>

Heard == decoder \o pcm

\* Mutant of Accept: the text of an utterance that has ended stays pending.
AcceptKeepsPending ==
  /\ pc = "accept"
  /\ IF handle
     THEN /\ decoder' = Heard
          /\ \E endpoint \in BOOLEAN :
               /\ pendingText' = Heard
               /\ text' = IF endpoint THEN Heard ELSE <<>>
               /\ pc' = IF ~endpoint THEN "frames"
                        ELSE IF engine = "sherpa" THEN "emit" ELSE "result"
     ELSE pc' = "frames" /\ UNCHANGED <<decoder, text, pendingText>>
  /\ pcm' = <<>>
  /\ UNCHANGED <<gate, engine, handle, history>>

\* acceptWaveform and decode under nativeLock; sherpa's result has the text,
\* Vosk is asked for it afterwards.
Accept ==
  /\ pc = "accept"
  /\ IF handle
     THEN /\ decoder' = Heard
          /\ \E endpoint \in BOOLEAN :
               /\ pendingText' = IF endpoint THEN <<>> ELSE Heard
               /\ text' = IF endpoint THEN Heard ELSE <<>>
               /\ pc' = IF ~endpoint THEN "frames"
                        ELSE IF engine = "sherpa" THEN "emit" ELSE "result"
     ELSE pc' = "frames" /\ UNCHANGED <<decoder, text, pendingText>>
  /\ pcm' = <<>>
  /\ UNCHANGED <<gate, engine, handle, history>>

\* Vosk: finalText, which begins the next utterance.
Result ==
  /\ pc = "result"
  /\ text' = decoder
  /\ decoder' = <<>>
  /\ pc' = "emit"
  /\ UNCHANGED <<gate, engine, handle, pcm, pendingText, history>>

Emitted(t) == IF Blank(t) THEN finals ELSE finals \o t

EmitFinal ==
  /\ pc = "emit"
  /\ finals' = Emitted(text)
  /\ text' = <<>>
  /\ pc' = IF engine = "sherpa" THEN "reset" ELSE "frames"
  /\ UNCHANGED <<gate, engine, handle, decoder, pcm, pendingText, captured, stream, began, intact>>

\* sherpa: reset under nativeLock, after the final was taken.
Reset ==
  /\ pc = "reset"
  /\ decoder' = <<>>
  /\ pc' = "frames"
  /\ UNCHANGED <<gate, engine, handle, local, history>>

-----------------------------------------------------------------------------
(* The end of the audio.  Vosk does nothing then.                          *)

\* flushFloat.
EndOfAudio ==
  /\ pc = "frames"
  /\ IF engine = "vosk"
     THEN pc' = "ended" /\ pendingText' = <<>> /\ UNCHANGED <<gate, pcm>>
     ELSE /\ UNCHANGED pendingText
          /\ IF session THEN Drain(0, pcm') ELSE pcm' = <<>> /\ UNCHANGED gate
          /\ pc' = IF pcm' = <<>> THEN "last" ELSE "tail"
  /\ UNCHANGED <<engine, handle, decoder, text, history>>

AcceptTail ==
  /\ pc = "tail"
  /\ decoder' = IF handle THEN Heard ELSE decoder
  /\ pendingText' = IF handle /\ ~Blank(Heard) THEN Heard ELSE pendingText
  /\ pcm' = <<>>
  /\ pc' = "last"
  /\ UNCHANGED <<gate, engine, handle, text, history>>

EmitLast ==
  /\ pc = "last"
  /\ finals' = Emitted(pendingText)
  /\ pendingText' = <<>>
  /\ pc' = "ended"
  /\ UNCHANGED <<gate, engine, handle, decoder, pcm, text, captured, stream, began, intact>>

Next ==
  \/ Prepare \/ Release \/ Transcribe \/ Cancel
  \/ \E size \in 1 .. MaxFrame : Frame(size)
  \/ Gate \/ Gated \/ Accept \/ Result \/ EmitFinal \/ Reset
  \/ EndOfAudio \/ AcceptTail \/ EmitLast

Spec == Init /\ [][Next]_vars

-----------------------------------------------------------------------------
(* Properties.                                                             *)

Muted == UNION {Range(windows[n].samples) : n \in muted}
Captions == UNION {Range(finals[k]) : k \in DOMAIN finals}

\* What a stream captures is captioned once: the delay line, the end of an
\* utterance and the flush at the end of the audio neither repeat nor lose any
\* of it, but for what the gate mutes and a last window that was not full.
\* Vosk's tail is lost.
StreamIsCaptioned ==
  /\ \A k, l \in DOMAIN finals : \A i \in DOMAIN finals[k], j \in DOMAIN finals[l] :
       finals[k][i] = finals[l][j] /\ finals[k][i] >= began => k = l /\ i = j
  /\ pc = "ended" /\ intact /\ engine = "sherpa" =>
       began .. captured \subseteq Captions \cup Range(analysis) \cup Muted
=============================================================================
