----------------------------- MODULE SpeechGate -----------------------------
(***************************************************************************)
(* The gate in front of the streaming recognisers: it replaces what is not *)
(* speech by silence, and holds audio back so that it knows, of a window   *)
(* it gives out, whether speech follows shortly.                           *)
(*                                                                         *)
(* Samples are numbered as they are captured.  A window that is full is    *)
(* judged and kept in windows, with the stream it was completed in; the    *)
(* gate's queue holds positions in windows.  process is cut between two    *)
(* windows, since another thread may release the gate there.               *)
(***************************************************************************)
EXTENDS Integers, SequencesExt

CONSTANTS
  WindowSize,         \* SileroVadModel.WINDOW_SIZE, in samples
  LookaheadWindows,   \* lookaheadWindows
  CloseAfter          \* closeAfterMs, in windows

ASSUME GateAssumption ==
  WindowSize \in Nat \ {0} /\ LookaheadWindows \in Nat /\ CloseAfter \in Nat \ {0}

VARIABLES
  session,         \* the VAD is loaded
  input,           \* process: what is left of the frame
  analysis,        \* the samples of the window being filled
  pending,         \* pendingShort, pendingFloat: windows held back
  pendingOpen,     \* pendingOpen: their verdicts
  silentWindows,   \* silentWindows, which counts no further than CloseAfter
  windows,         \* every window judged, with the judgement (history)
  muted            \* windows given out as silence (history)

gate == <<session, input, analysis, pending, pendingOpen, silentWindows, windows, muted>>

\* What a muted window is replaced by: there is nothing to hear in it.
Silence == <<>>

GateInit ==
  /\ session = FALSE
  /\ input = <<>> /\ analysis = <<>>
  /\ pending = <<>> /\ pendingOpen = <<>>
  /\ silentWindows = 0
  /\ windows = <<>> /\ muted = {}

-----------------------------------------------------------------------------
(* process.                                                                *)

\* As much of the frame as the window has room for.
Taken(samples) == SubSeq(samples, 1, WindowSize - Len(analysis))
Left(samples) == SubSeq(samples, WindowSize - Len(analysis) + 1, Len(samples))

\* The frame ends before the window is full.
Fill ==
  /\ input # <<>> /\ Len(analysis) + Len(input) < WindowSize
  /\ analysis' = analysis \o input
  /\ input' = <<>>
  /\ UNCHANGED <<session, pending, pendingOpen, silentWindows, windows, muted>>

\* decide: speech is also what the VAD cannot judge.
Decide(speech) ==
  /\ silentWindows' = IF speech THEN 0 ELSE Min({silentWindows + 1, CloseAfter})
  /\ pendingOpen' = Append(pendingOpen, silentWindows' < CloseAfter)

\* The window becomes full in this stream; a VAD that was released meanwhile
\* does not judge it.
Judge(stream) ==
  /\ Len(analysis) + Len(input) >= WindowSize
  /\ \E speech \in BOOLEAN :
       /\ session \/ speech
       /\ Decide(speech)
       /\ windows' = Append(windows, [samples |-> analysis \o Taken(input),
                                      speech |-> speech, stream |-> stream])
  /\ pending' = Append(pending, Len(windows) + 1)
  /\ analysis' = <<>>
  /\ input' = Left(input)
  /\ UNCHANGED <<session, muted>>

-----------------------------------------------------------------------------
(* drainShort, drainFloat, with keep windows held back.                    *)

\* emitAudible: the i-th window of the queue is speech, or speech begins soon.
Audible(i) ==
  \E j \in i .. Len(pendingOpen) : j <= i + LookaheadWindows /\ pendingOpen[j]

Drain(keep, returned) ==
  LET ready == Max({Len(pending) - keep, 0})
  IN  /\ pending' = SubSeq(pending, ready + 1, Len(pending))
      /\ pendingOpen' = SubSeq(pendingOpen, ready + 1, Len(pendingOpen))
      /\ muted' = muted \cup {pending[i] : i \in {j \in 1 .. ready : ~Audible(j)}}
      /\ returned = [i \in 1 .. ready |->
                       IF Audible(i) THEN windows[pending[i]].samples ELSE Silence]
      /\ UNCHANGED <<session, input, analysis, silentWindows, windows>>

-----------------------------------------------------------------------------

\* prepare: a gate that could not be built is left out.
PrepareGate ==
  /\ session' \in {session, TRUE}
  /\ UNCHANGED <<input, analysis, pending, pendingOpen, silentWindows, windows, muted>>

\* release clears the queues, and neither analysisFill nor silentWindows.
ReleaseGate ==
  /\ session' = FALSE
  /\ pending' = <<>> /\ pendingOpen' = <<>>
  /\ UNCHANGED <<input, analysis, silentWindows, windows, muted>>

-----------------------------------------------------------------------------

\* No word loses its beginning, and no short pause its sound: a window is muted
\* only if there was no speech in it, in the CloseAfter - 1 windows before it and
\* in the lookahead after it, however the audio was cut into frames and whatever
\* the gate was used for before.
SpeechIsNotMuted ==
  \A n \in muted :
    /\ n >= CloseAfter
    /\ \A m \in (n + 1 - CloseAfter) .. Len(windows) :
         m <= n + LookaheadWindows /\ windows[m].speech =>
           m > n /\ windows[m].stream # windows[n].stream
=============================================================================
