--------------------- MODULE StreamingTranscriberProofs ---------------------
(***************************************************************************)
(* What the gate mutes, and what becomes of the sound of a stream: for     *)
(* every window size, lookahead and delay, and for frames of any size.     *)
(***************************************************************************)
EXTENDS StreamingTranscriber, SequenceTheorems, TLAPS

\* Of two integers.
LEMMA MinOfTwo ==
  ASSUME NEW a \in Int, NEW b \in Int
  PROVE  Min({a, b}) = IF a <= b THEN a ELSE b
  BY SMT DEF Min

LEMMA MaxOfTwo ==
  ASSUME NEW a \in Int, NEW b \in Int
  PROVE  Max({a, b}) = IF a >= b THEN a ELSE b
  BY SMT DEF Max

\* Part of a sequence.
LEMMA PartOfSeq ==
  ASSUME NEW S, NEW s \in Seq(S), NEW m \in Nat \ {0}, NEW k \in Int, k <= Len(s)
  PROVE  /\ SubSeq(s, m, k) \in Seq(S)
         /\ Len(SubSeq(s, m, k)) = IF m <= k THEN k - m + 1 ELSE 0
         /\ \A i \in 1 .. k - m + 1 : SubSeq(s, m, k)[i] = s[m + i - 1]
<1>1. \A i \in m .. k : s[i] \in S
  BY ElementOfSeq
<1>2. QED
  BY <1>1, SubSeqProperties

Judged == [samples : Seq(Nat), speech : BOOLEAN, stream : Nat]

TypeOK ==
  /\ silentWindows \in 0 .. CloseAfter
  /\ input \in Seq(Nat)
  /\ analysis \in Seq(Nat) /\ Len(analysis) < WindowSize
  /\ windows \in Seq(Judged)
  /\ pending \in Seq(Nat) /\ pendingOpen \in Seq(BOOLEAN)
  /\ muted \subseteq 1 .. Len(windows)
  /\ stream \in Nat /\ captured \in Nat

\* Of the windows ws, the k up to the n-th were not speech.
Quiet(ws, n, k) ==
  n >= k /\ \A m \in (n + 1 - k) .. n : ~ws[m].speech

\* The queue ends with the last window judged, and the two queues are in step.
InStep ==
  /\ Len(pendingOpen) = Len(pending)
  /\ \A i \in 1 .. Len(pending) : pending[i] = Len(windows) - Len(pending) + i
  /\ Len(pending) <= Len(windows)

\* What the counter and the verdicts remember.
Verdicts ==
  /\ Quiet(windows, Len(windows), silentWindows)
  /\ \A i \in 1 .. Len(pending) : ~pendingOpen[i] => Quiet(windows, pending[i], CloseAfter)

\* The stream that muted a window before its lookahead was over is over itself.
Flushed ==
  /\ \A n \in 1 .. Len(windows) : windows[n].stream <= stream
  /\ pc \notin {"tail", "last", "ended"} =>
       \A n \in muted : n + LookaheadWindows > Len(windows) => windows[n].stream < stream

IInv == TypeOK /\ InStep /\ Verdicts /\ Flushed /\ SpeechIsNotMuted

-----------------------------------------------------------------------------

Over == {"tail", "last", "ended"}

\* A step that touches neither the queues nor what was judged.
LEMMA GateRests ==
  ASSUME IInv,
         UNCHANGED <<windows, pending, pendingOpen, silentWindows, muted>>,
         input' \in Seq(Nat), captured' \in Nat,
         analysis' \in Seq(Nat), Len(analysis') < WindowSize,
         \/ stream' = stream /\ (pc' \in Over \/ pc \notin Over)
         \/ stream' = stream + 1
  PROVE  IInv'
<1>1. TypeOK'
  BY DEF IInv, TypeOK
<1>2. InStep'
  BY DEF IInv, InStep
<1>3. Verdicts'
  BY DEF IInv, Verdicts, Quiet
<1>4. Flushed'
  <2>1. \A n \in 1 .. Len(windows) : windows[n].stream \in Nat /\ windows[n].stream <= stream
    <3>1. \A n \in 1 .. Len(windows) : windows[n] \in Judged
      BY ElementOfSeq DEF IInv, TypeOK
    <3>2. QED
      BY <3>1 DEF IInv, Flushed, Judged
  <2>2. CASE stream' = stream /\ (pc' \in Over \/ pc \notin Over)
    BY <2>2 DEF IInv, Flushed, Over
  <2>3. CASE stream' = stream + 1
    <3>1. stream \in Nat /\ muted \subseteq 1 .. Len(windows)
      BY DEF IInv, TypeOK
    <3>2. \A n \in 1 .. Len(windows) : windows[n].stream <= stream + 1 /\ windows[n].stream < stream + 1
      BY <2>1, <3>1
    <3>3. QED
      BY <2>3, <3>1, <3>2 DEF Flushed
  <2>4. QED
    BY <2>2, <2>3
<1>5. SpeechIsNotMuted'
  BY DEF IInv, SpeechIsNotMuted
<1>6. QED
  BY <1>1, <1>2, <1>3, <1>4, <1>5 DEF IInv

\* A window is judged: the mutes of its stream have all looked ahead, and what an
\* earlier stream muted is of that stream.
LEMMA JudgeKeeps ==
  ASSUME IInv, GateAssumption, pc = "gate", Judge(stream),
         UNCHANGED <<pc, captured, stream>>
  PROVE  IInv'
<1> DEFINE w == Len(windows)
           p == Len(pending)
<1>1. PICK speech \in BOOLEAN :
        /\ Decide(speech)
        /\ windows' = Append(windows, [samples |-> analysis \o Taken(input),
                                       speech |-> speech, stream |-> stream])
  BY DEF Judge
<1>2. w \in Nat /\ silentWindows \in 0 .. CloseAfter /\ CloseAfter \in Nat \ {0}
      /\ LookaheadWindows \in Nat /\ stream \in Nat /\ WindowSize \in Nat \ {0}
  BY DEF IInv, TypeOK, GateAssumption
<1>3. Taken(input) \in Seq(Nat) /\ Left(input) \in Seq(Nat)
  <2>1. input \in Seq(Nat) /\ Len(input) \in Nat /\ Len(analysis) \in 0 .. WindowSize - 1
    BY <1>2 DEF IInv, TypeOK
  <2>2. Len(analysis) + Len(input) >= WindowSize
    BY DEF Judge
  <2>3. /\ WindowSize - Len(analysis) \in Nat \ {0} /\ WindowSize - Len(analysis) <= Len(input)
        /\ WindowSize - Len(analysis) + 1 \in Nat \ {0}
    BY <1>2, <2>1, <2>2
  <2>4. QED
    BY <2>1, <2>3, PartOfSeq DEF Taken, Left
<1>4. [samples |-> analysis \o Taken(input), speech |-> speech, stream |-> stream] \in Judged
  BY <1>2, <1>3 DEF IInv, TypeOK, Judged
<1>5. /\ windows' \in Seq(Judged) /\ Len(windows') = w + 1
      /\ \A m \in 1 .. w : windows'[m] = windows[m]
      /\ windows'[w + 1].speech = speech /\ windows'[w + 1].stream = stream
  BY <1>1, <1>4 DEF IInv, TypeOK
<1>6. /\ silentWindows' = IF speech THEN 0
                          ELSE IF silentWindows + 1 <= CloseAfter THEN silentWindows + 1 ELSE CloseAfter
      /\ pendingOpen' = Append(pendingOpen, silentWindows' < CloseAfter)
  BY <1>1, <1>2, MinOfTwo DEF Decide
<1>7. UNCHANGED muted
  BY DEF Judge
<1>8. /\ pending' \in Seq(Nat) /\ Len(pending') = p + 1
      /\ \A i \in 1 .. p : pending'[i] = pending[i]
      /\ pending'[p + 1] = w + 1
  <2>1. pending \in Seq(Nat) /\ w + 1 \in Nat /\ pending' = Append(pending, w + 1)
    BY <1>2 DEF IInv, TypeOK, Judge
  <2>2. QED
    BY <2>1, AppendProperties
<1>9. /\ pendingOpen' \in Seq(BOOLEAN) /\ Len(pendingOpen') = p + 1
      /\ \A i \in 1 .. p : pendingOpen'[i] = pendingOpen[i]
      /\ pendingOpen'[p + 1] = (silentWindows' < CloseAfter)
  <2>1. pendingOpen \in Seq(BOOLEAN) /\ (silentWindows' < CloseAfter) \in BOOLEAN /\ Len(pendingOpen) = p
    BY DEF IInv, TypeOK, InStep
  <2>2. QED
    BY <1>6, <2>1, AppendProperties
<1>10. /\ p \in Nat /\ p <= w
       /\ \A i \in 1 .. p : pending[i] = w - p + i
  BY DEF IInv, TypeOK, InStep
<1>11. TypeOK'
  <2>1. silentWindows' \in 0 .. CloseAfter
    BY <1>2, <1>6
  <2>2. input' \in Seq(Nat) /\ analysis' \in Seq(Nat) /\ Len(analysis') < WindowSize
    BY <1>2, <1>3 DEF Judge
  <2>3. muted' \subseteq 1 .. Len(windows')
    BY <1>2, <1>5, <1>7 DEF IInv, TypeOK
  <2>4. QED
    BY <1>5, <1>8, <1>9, <2>1, <2>2, <2>3 DEF IInv, TypeOK
<1>12. InStep'
  <2>1. \A i \in 1 .. p + 1 : pending'[i] = w + 1 - (p + 1) + i
    <3>1. SUFFICES ASSUME NEW i \in 1 .. p + 1
                   PROVE  pending'[i] = w + 1 - (p + 1) + i
      OBVIOUS
    <3>2. CASE i \in 1 .. p
      BY <1>2, <1>8, <1>10, <3>2
    <3>3. CASE i = p + 1
      BY <1>2, <1>8, <1>10, <3>3
    <3>4. QED
      BY <1>10, <3>2, <3>3
  <2>2. QED
    BY <1>2, <1>5, <1>8, <1>9, <1>10, <2>1 DEF InStep
<1>13. Quiet(windows', w + 1, silentWindows')
  <2>1. Quiet(windows, w, silentWindows)
    BY DEF IInv, Verdicts
  <2>2. CASE speech
    BY <1>2, <1>6, <2>2 DEF Quiet
  <2>3. CASE ~speech
    <3>1. silentWindows' <= silentWindows + 1 /\ silentWindows' \in Nat
      BY <1>2, <1>6, <2>3
    <3>2. ASSUME NEW m \in (w + 2 - silentWindows') .. w + 1
          PROVE  ~windows'[m].speech
      <4>1. CASE m = w + 1
        BY <1>5, <2>3, <4>1
      <4>2. CASE m <= w
        <5>1. m \in (w + 1 - silentWindows) .. w /\ m \in 1 .. w
          BY <1>2, <2>1, <3>1, <4>2 DEF Quiet
        <5>2. QED
          BY <1>5, <2>1, <5>1 DEF Quiet
      <4>3. QED
        BY <1>2, <3>1, <4>1, <4>2
    <3>3. w + 1 >= silentWindows'
      BY <1>2, <2>1, <3>1 DEF Quiet
    <3>4. QED
      BY <1>2, <3>1, <3>2, <3>3 DEF Quiet
  <2>4. QED
    BY <2>2, <2>3
<1>14. Verdicts'
  <2>1. ASSUME NEW i \in 1 .. p + 1, ~pendingOpen'[i]
        PROVE  Quiet(windows', pending'[i], CloseAfter)
    <3>1. CASE i = p + 1
      <4>1. silentWindows' = CloseAfter
        <5>1. ~(silentWindows' < CloseAfter)
          BY <1>9, <2>1, <3>1
        <5>2. silentWindows' \in 0 .. CloseAfter
          BY <1>2, <1>6
        <5>3. QED
          BY <1>2, <5>1, <5>2
      <4>2. QED
        BY <1>8, <1>13, <3>1, <4>1
    <3>2. CASE i \in 1 .. p
      <4>1. Quiet(windows, pending[i], CloseAfter)
        BY <1>9, <2>1, <3>2 DEF IInv, Verdicts
      <4>2. pending[i] \in 1 .. w
        BY <1>2, <1>10, <3>2
      <4>3. \A m \in (pending[i] + 1 - CloseAfter) .. pending[i] : windows'[m] = windows[m]
        BY <1>2, <1>5, <4>1, <4>2 DEF Quiet
      <4>4. QED
        BY <1>8, <3>2, <4>1, <4>3 DEF Quiet
    <3>3. QED
      BY <1>10, <3>1, <3>2
  <2>2. QED
    BY <1>5, <1>8, <1>13, <2>1 DEF Verdicts
<1>15. /\ \A n \in 1 .. w : windows[n].stream \in Nat /\ windows[n].stream <= stream
       /\ \A n \in muted : n \in 1 .. w
       /\ \A n \in muted : n + LookaheadWindows > w => windows[n].stream < stream
  <2>1. \A n \in 1 .. w : windows[n] \in Judged
    BY ElementOfSeq DEF IInv, TypeOK
  <2>2. QED
    BY <2>1 DEF IInv, Flushed, Judged, TypeOK
<1>16. Flushed'
  <2>1. ASSUME NEW n \in 1 .. w + 1
        PROVE  windows'[n].stream <= stream
    BY <1>2, <1>5, <1>15
  <2>2. ASSUME NEW n \in muted, n + LookaheadWindows > w + 1
        PROVE  windows'[n].stream < stream
    BY <1>2, <1>5, <1>15, <2>2
  <2>3. QED
    BY <1>5, <1>7, <2>1, <2>2 DEF Flushed
<1>17. SpeechIsNotMuted'
  <2>1. ASSUME NEW n \in muted
        PROVE  n >= CloseAfter
    BY DEF IInv, SpeechIsNotMuted
  <2>2. ASSUME NEW n \in muted, NEW m \in (n + 1 - CloseAfter) .. w + 1,
               m <= n + LookaheadWindows, windows'[m].speech
        PROVE  m > n /\ windows'[m].stream # windows'[n].stream
    <3>1. n \in 1 .. w /\ n \in Nat /\ windows'[n] = windows[n]
      BY <1>2, <1>5, <1>15
    <3>2. CASE m = w + 1
      <4>1. n + LookaheadWindows > w
        BY <1>2, <2>2, <3>1, <3>2
      <4>2. windows[n].stream < stream /\ windows[n].stream \in Nat
        BY <1>15, <3>1, <4>1
      <4>3. QED
        BY <1>2, <1>5, <3>1, <3>2, <4>2
    <3>3. CASE m <= w
      <4>1. m \in (n + 1 - CloseAfter) .. w /\ m \in 1 .. w
        BY <1>2, <2>1, <3>1, <3>3
      <4>2. windows'[m] = windows[m]
        BY <1>5, <4>1
      <4>3. QED
        BY <2>2, <3>1, <4>1, <4>2 DEF IInv, SpeechIsNotMuted
    <3>4. QED
      BY <1>2, <3>1, <3>2, <3>3
  <2>3. QED
    BY <1>5, <1>7, <2>1, <2>2 DEF SpeechIsNotMuted
<1>18. QED
  BY <1>11, <1>12, <1>14, <1>16, <1>17 DEF IInv

\* Windows leave the queue: those muted have looked ahead as far as they hold
\* back, or there is nothing after them in their stream.
LEMMA DrainKeeps ==
  ASSUME IInv, GateAssumption, NEW keep \in Nat,
         pending' = SubSeq(pending, Max({Len(pending) - keep, 0}) + 1, Len(pending)),
         pendingOpen' = SubSeq(pendingOpen, Max({Len(pending) - keep, 0}) + 1, Len(pendingOpen)),
         muted' = muted \cup {pending[i] : i \in {j \in 1 .. Max({Len(pending) - keep, 0}) : ~Audible(j)}},
         UNCHANGED <<input, analysis, silentWindows, windows, captured, stream>>,
         \/ keep = LookaheadWindows /\ pc \notin Over
         \/ keep = 0 /\ pc' \in Over
  PROVE  IInv'
<1> DEFINE w == Len(windows)
           p == Len(pending)
           n == Max({p - keep, 0})
<1>1. p \in Nat /\ w \in Nat /\ p <= w /\ Len(pendingOpen) = p /\ LookaheadWindows \in Nat
      /\ CloseAfter \in Nat \ {0}
  BY DEF IInv, TypeOK, InStep, GateAssumption
<1>2. n \in 0 .. p /\ (n = 0 \/ n = p - keep)
  BY <1>1, MaxOfTwo
<1> HIDE DEF n
<1>3. /\ pending' \in Seq(Nat) /\ Len(pending') = p - n
      /\ \A i \in 1 .. p - n : pending'[i] = pending[n + i]
  <2> DEFINE S == Nat
  <2>1. pending \in Seq(S) /\ n + 1 \in Nat \ {0} /\ p \in Int
    BY <1>1, <1>2 DEF IInv, TypeOK
  <2> HIDE DEF S
  <2>2. pending' = SubSeq(pending, n + 1, p)
    BY DEF n
  <2>3. /\ SubSeq(pending, n + 1, p) \in Seq(S)
        /\ Len(SubSeq(pending, n + 1, p)) = IF n + 1 <= p THEN p - (n + 1) + 1 ELSE 0
        /\ \A i \in 1 .. p - (n + 1) + 1 : SubSeq(pending, n + 1, p)[i] = pending[n + 1 + i - 1]
    BY <1>1, <2>1, PartOfSeq
  <2>4. p - (n + 1) + 1 = p - n /\ (IF n + 1 <= p THEN p - n ELSE 0) = p - n
    BY <1>1, <1>2
  <2>5. \A i \in 1 .. p - n : n + 1 + i - 1 = n + i
    BY <1>1, <1>2
  <2>6. QED
    BY <2>2, <2>3, <2>4, <2>5 DEF S
<1>4. /\ pendingOpen' \in Seq(BOOLEAN) /\ Len(pendingOpen') = p - n
      /\ \A i \in 1 .. p - n : pendingOpen'[i] = pendingOpen[n + i]
  <2>1. pendingOpen \in Seq(BOOLEAN) /\ n + 1 \in Nat \ {0} /\ p \in Int
    BY <1>1, <1>2 DEF IInv, TypeOK
  <2>2. pendingOpen' = SubSeq(pendingOpen, n + 1, p)
    BY <1>1 DEF n
  <2>3. /\ SubSeq(pendingOpen, n + 1, p) \in Seq(BOOLEAN)
        /\ Len(SubSeq(pendingOpen, n + 1, p)) = IF n + 1 <= p THEN p - (n + 1) + 1 ELSE 0
        /\ \A i \in 1 .. p - (n + 1) + 1 :
             SubSeq(pendingOpen, n + 1, p)[i] = pendingOpen[n + 1 + i - 1]
    BY <1>1, <2>1, PartOfSeq
  <2>4. p - (n + 1) + 1 = p - n /\ (IF n + 1 <= p THEN p - n ELSE 0) = p - n
    BY <1>1, <1>2
  <2>5. \A i \in 1 .. p - n : n + 1 + i - 1 = n + i
    BY <1>1, <1>2
  <2>6. QED
    BY <2>2, <2>3, <2>4, <2>5
<1>5. \A i \in 1 .. p : pending[i] = w - p + i
  BY DEF IInv, InStep
<1>6. \A x \in muted' : x \in muted \/ \E i \in 1 .. n : x = w - p + i /\ ~Audible(i)
  <2>1. muted' = muted \cup {pending[i] : i \in {j \in 1 .. n : ~Audible(j)}}
    BY DEF n
  <2>2. \A i \in 1 .. n : i \in 1 .. p
    BY <1>1, <1>2
  <2>3. QED
    BY <1>5, <2>1, <2>2
<1>7. TypeOK'
  <2>1. muted' \subseteq 1 .. Len(windows')
    <3>1. \A i \in 1 .. n : w - p + i \in 1 .. w
      BY <1>1, <1>2
    <3>2. muted \subseteq 1 .. w
      BY DEF IInv, TypeOK
    <3>3. QED
      BY <1>6, <3>1, <3>2
  <2>2. QED
    BY <1>3, <1>4, <2>1 DEF IInv, TypeOK
<1>8. InStep'
  <2>1. \A i \in 1 .. p - n : pending'[i] = w - (p - n) + i
    <3>1. \A i \in 1 .. p - n : n + i \in 1 .. p /\ w - p + (n + i) = w - (p - n) + i
      BY <1>1, <1>2
    <3>2. QED
      BY <1>3, <1>5, <3>1
  <2>2. p - n <= w /\ Len(windows') = w /\ Len(pending') = p - n /\ Len(pendingOpen') = p - n
    BY <1>1, <1>2, <1>3, <1>4
  <2>3. QED
    BY <2>1, <2>2 DEF InStep
<1>9. Verdicts'
  <2>1. \A i \in 1 .. p : ~pendingOpen[i] => Quiet(windows', pending[i], CloseAfter)
    BY DEF IInv, Verdicts, Quiet
  <2>2. \A i \in 1 .. p - n : n + i \in 1 .. p
    BY <1>1, <1>2
  <2>3. \A i \in 1 .. Len(pending') : ~pendingOpen'[i] => Quiet(windows', pending'[i], CloseAfter)
    BY <1>3, <1>4, <2>1, <2>2
  <2>4. QED
    BY <2>3 DEF IInv, Verdicts, Quiet
<1>10. Flushed'
  <2>1. CASE keep = 0 /\ pc' \in Over
    BY <2>1 DEF IInv, Flushed, Over
  <2>2. CASE keep = LookaheadWindows /\ pc \notin Over
    <3>1. \A i \in 1 .. n : w - p + i + LookaheadWindows <= w
      BY <1>1, <1>2, <2>2
    <3>2. ASSUME NEW x \in muted', x + LookaheadWindows > w
          PROVE  x \in muted
      <4>1. ASSUME NEW i \in 1 .. n, x = w - p + i
            PROVE  FALSE
        <5>1. i \in Int
          BY <1>1, <1>2
        <5>2. x \in Int
          BY <1>1, <4>1, <5>1
        <5>3. x + LookaheadWindows <= w
          BY <3>1, <4>1
        <5>4. QED
          BY <1>1, <3>2, <5>2, <5>3
      <4>2. QED
        BY <1>6, <3>2, <4>1
    <3>3. /\ \A x \in 1 .. w : windows[x].stream <= stream
          /\ \A x \in muted : x + LookaheadWindows > w => windows[x].stream < stream
      BY <2>2 DEF IInv, Flushed, Over
    <3>4. QED
      BY <3>2, <3>3 DEF Flushed
  <2>3. QED
    BY <2>1, <2>2
<1>11. SpeechIsNotMuted'
  <2>1. ASSUME NEW i \in 1 .. n, ~Audible(i),
               NEW m \in (w - p + i + 1 - CloseAfter) .. w, m <= w - p + i + LookaheadWindows
        PROVE  w - p + i >= CloseAfter /\ ~windows[m].speech
    <3>1. i \in 1 .. p
      BY <1>1, <1>2
    <3>2. \A j \in i .. p : j <= i + LookaheadWindows => ~pendingOpen[j]
      BY <1>1, <2>1 DEF Audible
    <3>3. Quiet(windows, w - p + i, CloseAfter)
      <4>1. ~pendingOpen[i]
        BY <1>1, <3>1, <3>2
      <4>2. QED
        BY <1>5, <3>1, <4>1 DEF IInv, Verdicts
    <3>4. CASE m <= w - p + i
      BY <1>1, <3>1, <3>3, <3>4 DEF Quiet
    <3>5. CASE m > w - p + i
      <4>1. m - w + p \in i .. p /\ m - w + p <= i + LookaheadWindows /\ m - w + p \in 1 .. p
        BY <1>1, <2>1, <3>1, <3>5
      <4>2. Quiet(windows, w - p + (m - w + p), CloseAfter)
        BY <1>5, <3>2, <4>1 DEF IInv, Verdicts
      <4>3. QED
        BY <1>1, <3>3, <4>1, <4>2 DEF Quiet
    <3>6. QED
      BY <1>1, <3>1, <3>4, <3>5
  <2>2. ASSUME NEW i \in 1 .. n, ~Audible(i)
        PROVE  w - p + i >= CloseAfter
    <3>1. i \in 1 .. p /\ ~pendingOpen[i]
      BY <1>1, <1>2, <2>2 DEF Audible
    <3>2. QED
      BY <1>5, <3>1 DEF IInv, Verdicts, Quiet
  <2>3. QED
    <3>1. \A x \in muted :
            /\ x >= CloseAfter
            /\ \A m \in (x + 1 - CloseAfter) .. w :
                 m <= x + LookaheadWindows /\ windows[m].speech =>
                   m > x /\ windows[m].stream # windows[x].stream
      BY DEF IInv, SpeechIsNotMuted
    <3>2. ASSUME NEW x \in muted'
          PROVE  /\ x >= CloseAfter
                 /\ \A m \in (x + 1 - CloseAfter) .. w :
                      m <= x + LookaheadWindows /\ windows[m].speech =>
                        m > x /\ windows[m].stream # windows[x].stream
      BY <1>6, <2>1, <2>2, <3>1
    <3>3. QED
      BY <3>2 DEF SpeechIsNotMuted
<1>12. QED
  BY <1>7, <1>8, <1>9, <1>10, <1>11 DEF IInv

-----------------------------------------------------------------------------

LEMMA InitIInv == Init => IInv
  BY GateAssumption DEF Init, GateInit, IInv, TypeOK, InStep, Verdicts, Quiet, Flushed,
     SpeechIsNotMuted, GateAssumption

LEMMA NextIInv ==
  ASSUME IInv, [Next]_vars
  PROVE  IInv'
<1> USE GateAssumption, StreamAssumption
<1>0. input \in Seq(Nat) /\ analysis \in Seq(Nat) /\ Len(analysis) < WindowSize /\ captured \in Nat /\ stream \in Nat
  BY DEF IInv, TypeOK
<1>1. CASE Prepare
  BY <1>0, <1>1, GateRests DEF Prepare, PrepareGate, history, Over
<1>2. CASE Release
  <2>1. UNCHANGED <<input, analysis, silentWindows, windows, muted, pc, captured, stream>>
        /\ pending' = <<>> /\ pendingOpen' = <<>>
    BY <1>2 DEF Release, ReleaseGate
  <2>2. QED
    BY <2>1 DEF IInv, TypeOK, InStep, Verdicts, Quiet, Flushed, SpeechIsNotMuted
<1>3. CASE Transcribe
  BY <1>0, <1>3, GateRests DEF Transcribe, gate
<1>4. CASE Cancel
  BY <1>0, <1>4, GateRests DEF Cancel, gate, Over
<1>5. ASSUME NEW size \in 1 .. MaxFrame, Frame(size)
      PROVE  IInv'
  <2>1. input' \in Seq(Nat) /\ captured' \in Nat
    BY <1>0, <1>5 DEF Frame, StreamAssumption
  <2>2. QED
    BY <1>0, <1>5, <2>1, GateRests DEF Frame, Over
<1>6. CASE Gate
  <2>1. CASE Fill
    BY <1>0, <1>6, <2>1, GateRests DEF Gate, Fill, history, Over
  <2>2. CASE Judge(stream)
    BY <1>6, <2>2, JudgeKeeps DEF Gate, history
  <2>3. QED
    BY <1>6, <2>1, <2>2 DEF Gate
<1>7. CASE Gated
  <2>1. Drain(LookaheadWindows, pcm') /\ pc \notin Over /\ UNCHANGED <<captured, stream>>
    BY <1>7 DEF Gated, history, Over
  <2>2. QED
    BY <2>1, DrainKeeps DEF Drain, GateAssumption
<1>8. CASE Accept \/ Result \/ EmitFinal \/ Reset \/ AcceptTail \/ EmitLast
  BY <1>0, <1>8, GateRests
     DEF Accept, Result, EmitFinal, Reset, AcceptTail, EmitLast, gate, history, Over
<1>9. CASE EndOfAudio
  <2>1. pc' \in Over /\ UNCHANGED <<captured, stream>>
    BY <1>9 DEF EndOfAudio, history, Over
  <2>2. CASE UNCHANGED gate
    BY <1>0, <2>1, <2>2, GateRests DEF gate
  <2>3. CASE Drain(0, pcm')
    BY <2>1, <2>3, DrainKeeps DEF Drain
  <2>4. QED
    BY <1>9, <2>2, <2>3 DEF EndOfAudio, gate
<1>10. CASE UNCHANGED vars
  BY <1>0, <1>10, GateRests DEF vars, gate, history, Over
<1>11. QED
  BY <1>1, <1>2, <1>3, <1>4, <1>5, <1>6, <1>7, <1>8, <1>9, <1>10 DEF Next

\* The gate mutes no speech, nothing shortly before it and no short pause.
THEOREM GateSparesSpeech == Spec => []SpeechIsNotMuted
<1>1. IInv => SpeechIsNotMuted
  BY DEF IInv
<1>2. QED
  BY <1>1, InitIInv, NextIInv, PTL DEF Spec

-----------------------------------------------------------------------------
(* What of a piece, and of a sequence of pieces, was captured from sample  *)
(* b on, and that none of it is there twice.                               *)

Of(b, p) == {x \in Range(p) : x >= b}
In(b, q) == UNION {Of(b, q[k]) : k \in DOMAIN q}

Single(b, p) == \A i, j \in DOMAIN p : p[i] = p[j] /\ p[i] >= b => i = j
Once(b, q) ==
  /\ \A k \in DOMAIN q : Single(b, q[k])
  /\ \A k, l \in DOMAIN q : k # l => Of(b, q[k]) \cap Of(b, q[l]) = {}

Pieces(c) == Seq(Seq(1 .. c))

\* A piece of a sequence.
LEMMA InOf ==
  ASSUME NEW b, NEW q, NEW k \in DOMAIN q
  PROVE  Of(b, q[k]) \subseteq In(b, q)
BY DEF In

\* Nothing of an empty or a blank sequence.
LEMMA NothingInBlank ==
  ASSUME NEW b, NEW q \in Seq(Seq(Nat)), Blank(q)
  PROVE  In(b, q) = {} /\ Once(b, q)
<1>1. \A k \in DOMAIN q : q[k] = <<>>
  BY DEF Blank, Silence
<1>2. \A k \in DOMAIN q : Of(b, q[k]) = {} /\ Single(b, q[k])
  BY <1>1 DEF Of, Single, Range
<1> QED BY <1>2 DEF In, Once

LEMMA NothingInEmpty ==
  ASSUME NEW b
  PROVE  In(b, <<>>) = {} /\ Once(b, <<>>) /\ Of(b, <<>>) = {} /\ Single(b, <<>>)
BY DEF In, Once, Of, Single, Range

\* What was captured before is not of the stream.
LEMMA NothingOwn ==
  ASSUME NEW c \in Nat
  PROVE  /\ \A p \in Seq(1 .. c) : Of(c + 1, p) = {} /\ Single(c + 1, p)
         /\ \A q \in Pieces(c) : In(c + 1, q) = {} /\ Once(c + 1, q)
<1>1. \A p \in Seq(1 .. c) : \A i \in DOMAIN p : ~(p[i] >= c + 1)
  BY ElementOfSeq
<1>2. \A p \in Seq(1 .. c) : Of(c + 1, p) = {} /\ Single(c + 1, p)
  BY <1>1 DEF Of, Single, Range
<1>3. \A q \in Pieces(c) : \A k \in DOMAIN q : q[k] \in Seq(1 .. c)
  BY ElementOfSeq DEF Pieces
<1>4. \A q \in Pieces(c) : In(c + 1, q) = {} /\ Once(c + 1, q)
  BY <1>2, <1>3 DEF In, Once
<1> QED BY <1>2, <1>4

\* More captured.
LEMMA MorePieces ==
  ASSUME NEW c \in Nat, NEW d \in Nat, c <= d
  PROVE  Seq(1 .. c) \subseteq Seq(1 .. d) /\ Pieces(c) \subseteq Pieces(d)
<1>1. \A S, T : S \subseteq T => Seq(S) \subseteq Seq(T)
  <2> SUFFICES ASSUME NEW S, NEW T, S \subseteq T, NEW s \in Seq(S) PROVE s \in Seq(T)
    OBVIOUS
  <2> QED OBVIOUS
<1>2. 1 .. c \subseteq 1 .. d
  OBVIOUS
<1> QED BY <1>1, <1>2 DEF Pieces

\* Two pieces one after the other.
LEMMA Joined ==
  ASSUME NEW b \in Int, NEW p \in Seq(Nat), NEW r \in Seq(Nat), Single(b, p), Single(b, r),
         Of(b, p) \cap Of(b, r) = {}
  PROVE  /\ Of(b, p \o r) = Of(b, p) \cup Of(b, r)
         /\ Single(b, p \o r)
<1> DEFINE m == Len(p)
           n == Len(r)
<1>1. /\ m \in Nat /\ n \in Nat /\ DOMAIN p = 1 .. m /\ DOMAIN r = 1 .. n
      /\ DOMAIN (p \o r) = 1 .. m + n
      /\ \A i \in 1 .. m : (p \o r)[i] = p[i]
      /\ \A i \in 1 .. n : (p \o r)[m + i] = r[i]
  OBVIOUS
<1>2. \A i \in 1 .. m + n : i \in 1 .. m \/ (i - m \in 1 .. n /\ i = m + (i - m))
  BY <1>1
<1>3. \A i \in 1 .. n : m + i \in 1 .. m + n
  BY <1>1
<1>4. \A i \in 1 .. m : i \in 1 .. m + n
  BY <1>1
<1> DEFINE s == p \o r
<1> HIDE DEF s, m, n
<1>5. Range(s) = Range(p) \cup Range(r)
  <2>1. \A x \in Range(s) : x \in Range(p) \cup Range(r)
    <3> SUFFICES ASSUME NEW i \in 1 .. m + n PROVE s[i] \in Range(p) \cup Range(r)
      BY <1>1 DEF Range, s
    <3> QED BY <1>1, <1>2 DEF Range, s
  <2>2. \A x \in Range(p) : x \in Range(s)
    BY <1>1, <1>4 DEF Range, s
  <2>3. \A x \in Range(r) : x \in Range(s)
    BY <1>1, <1>3 DEF Range, s
  <2> QED BY <2>1, <2>2, <2>3
<1>6. Of(b, s) = Of(b, p) \cup Of(b, r)
  BY <1>5 DEF Of
<1>7. Single(b, s)
  <2> SUFFICES ASSUME NEW i \in 1 .. m + n, NEW j \in 1 .. m + n, s[i] = s[j], s[i] >= b
               PROVE  i = j
    BY <1>1 DEF Single, s
  <2>1. CASE i \in 1 .. m /\ j \in 1 .. m
    BY <1>1, <2>1 DEF Single, s
  <2>2. CASE i \in 1 .. m /\ j \notin 1 .. m
    <3>1. s[i] = p[i] /\ s[j] = r[j - m] /\ j - m \in 1 .. n
      BY <1>1, <1>2, <2>2 DEF s
    <3> QED BY <1>1, <2>2, <3>1 DEF Of, Range
  <2>3. CASE i \notin 1 .. m /\ j \in 1 .. m
    <3>1. s[j] = p[j] /\ s[i] = r[i - m] /\ i - m \in 1 .. n
      BY <1>1, <1>2, <2>3 DEF s
    <3> QED BY <1>1, <2>3, <3>1 DEF Of, Range
  <2>4. CASE i \notin 1 .. m /\ j \notin 1 .. m
    <3>1. s[i] = r[i - m] /\ i - m \in 1 .. n /\ s[j] = r[j - m] /\ j - m \in 1 .. n
      BY <1>1, <1>2, <2>4 DEF s
    <3>2. i - m = j - m
      BY <1>1, <3>1 DEF Single
    <3> QED BY <1>1, <3>2
  <2> QED BY <2>1, <2>2, <2>3, <2>4
<1> QED BY <1>6, <1>7 DEF s

\* A piece cut in two.
Cut(p, m, u, v) ==
  m \in 0 .. Len(p) /\ u = SubSeq(p, 1, m) /\ v = SubSeq(p, m + 1, Len(p))

LEMMA CutInTwo ==
  ASSUME NEW b \in Int, NEW S \in SUBSET Nat, NEW p \in Seq(S), NEW m, NEW u, NEW v,
         Cut(p, m, u, v), Single(b, p)
  PROVE  /\ u \in Seq(S) /\ v \in Seq(S)
         /\ Single(b, u) /\ Single(b, v)
         /\ Of(b, u) \cup Of(b, v) = Of(b, p)
         /\ Of(b, u) \cap Of(b, v) = {}
<1> DEFINE n == Len(p)
<1>1. n \in Nat /\ m \in 0 .. n /\ DOMAIN p = 1 .. n /\ n = Len(p)
  BY DEF Cut
<1> HIDE DEF n
<1>2. /\ u \in Seq(S) /\ DOMAIN u = 1 .. m
      /\ \A i \in 1 .. m : u[i] = p[i]
  <2>1. Len(u) = m
    BY <1>1, PartOfSeq DEF Cut
  <2> QED BY <1>1, <2>1, PartOfSeq DEF Cut
<1>3. /\ v \in Seq(S) /\ DOMAIN v = 1 .. n - m
      /\ \A i \in 1 .. n - m : v[i] = p[m + i]
  <2>1. m + 1 \in Nat \ {0} /\ n \in Int /\ n <= Len(p)
    BY <1>1
  <2>2. /\ v \in Seq(S) /\ Len(v) = IF m + 1 <= n THEN n - (m + 1) + 1 ELSE 0
        /\ \A i \in 1 .. n - (m + 1) + 1 : v[i] = p[m + 1 + i - 1]
    BY <1>1, <2>1, PartOfSeq DEF Cut
  <2>3. n - (m + 1) + 1 = n - m
    BY <1>1
  <2>4. \A i \in 1 .. n - m : m + 1 + i - 1 = m + i
    BY <1>1
  <2>5. Len(v) = n - m
    <3>1. CASE m + 1 <= n
      BY <2>2, <2>3, <3>1
    <3>2. CASE ~(m + 1 <= n)
      <4>1. n \in Int /\ m \in Int /\ m <= n
        BY <1>1
      <4>2. n - m = 0
        BY <3>2, <4>1
      <4> QED BY <2>2, <3>2, <4>2
    <3> QED BY <3>1, <3>2
  <2>6. DOMAIN v = 1 .. Len(v)
    BY <2>2
  <2> QED BY <2>2, <2>3, <2>4, <2>5, <2>6
<1>4. \A i \in 1 .. n : i \in 1 .. m \/ (i - m \in 1 .. n - m /\ i = m + (i - m))
  BY <1>1
<1>5. \A i \in 1 .. n - m : m + i \in 1 .. n /\ m + i \notin 1 .. m
  BY <1>1
<1>6. 1 .. m \subseteq 1 .. n
  BY <1>1
<1>7. Single(b, u)
  BY <1>1, <1>2, <1>6 DEF Single
<1>8. Single(b, v)
  <2> SUFFICES ASSUME NEW i \in 1 .. n - m, NEW j \in 1 .. n - m, v[i] = v[j], v[i] >= b
               PROVE  i = j
    BY <1>3 DEF Single
  <2>1. m + i = m + j
    BY <1>1, <1>3, <1>5 DEF Single
  <2> QED BY <1>1, <2>1
<1>9. Range(u) \cup Range(v) = Range(p)
  <2>1. \A i \in 1 .. n : p[i] \in Range(u) \cup Range(v)
    BY <1>2, <1>3, <1>4 DEF Range
  <2>2. \A i \in 1 .. m : u[i] \in Range(p)
    BY <1>1, <1>2, <1>6 DEF Range
  <2>3. \A i \in 1 .. n - m : v[i] \in Range(p)
    BY <1>1, <1>3, <1>5 DEF Range
  <2> QED BY <1>1, <1>2, <1>3, <2>1, <2>2, <2>3 DEF Range
<1>10. Of(b, u) \cap Of(b, v) = {}
  <2> SUFFICES ASSUME NEW i \in 1 .. m, NEW j \in 1 .. n - m, u[i] = v[j], u[i] >= b
               PROVE  FALSE
    BY <1>2, <1>3 DEF Of, Range
  <2>1. p[i] = p[m + j] /\ p[i] >= b /\ i \in 1 .. n /\ m + j \in 1 .. n
    BY <1>2, <1>3, <1>5, <1>6
  <2>2. i = m + j
    BY <1>1, <2>1 DEF Single
  <2> QED BY <1>5, <2>2
<1> QED BY <1>2, <1>3, <1>7, <1>8, <1>9, <1>10 DEF Of

\* Sequences of pieces one after the other.
LEMMA Collected ==
  ASSUME NEW b, NEW T, NEW q \in Seq(T), NEW r \in Seq(T), Once(b, q), Once(b, r),
         In(b, q) \cap In(b, r) = {}
  PROVE  /\ In(b, q \o r) = In(b, q) \cup In(b, r)
         /\ Once(b, q \o r)
         /\ q \o r \in Seq(T)
<1> DEFINE m == Len(q)
           n == Len(r)
           s == q \o r
<1>1. /\ m \in Nat /\ n \in Nat /\ DOMAIN q = 1 .. m /\ DOMAIN r = 1 .. n
      /\ s \in Seq(T) /\ DOMAIN s = 1 .. m + n
      /\ \A i \in 1 .. m : s[i] = q[i]
      /\ \A i \in 1 .. n : s[m + i] = r[i]
  OBVIOUS
<1> HIDE DEF s, m, n
<1>2. \A i \in 1 .. m + n : i \in 1 .. m \/ (i - m \in 1 .. n /\ i = m + (i - m))
  BY <1>1
<1>3. \A i \in 1 .. n : m + i \in 1 .. m + n
  BY <1>1
<1>4. \A i \in 1 .. m : i \in 1 .. m + n
  BY <1>1
<1>5. \A k \in 1 .. m + n : \/ k \in 1 .. m /\ s[k] = q[k]
                            \/ k - m \in 1 .. n /\ s[k] = r[k - m] /\ k \notin 1 .. m
  BY <1>1, <1>2
<1>6. In(b, s) = In(b, q) \cup In(b, r)
  <2>1. \A k \in 1 .. m + n : Of(b, s[k]) \subseteq In(b, q) \cup In(b, r)
    BY <1>1, <1>5 DEF In
  <2>2. \A k \in 1 .. m : Of(b, q[k]) \subseteq In(b, s)
    BY <1>1, <1>4, InOf
  <2>3. \A k \in 1 .. n : Of(b, r[k]) \subseteq In(b, s)
    BY <1>1, <1>3, InOf
  <2> QED BY <1>1, <2>1, <2>2, <2>3 DEF In
<1>7. Once(b, s)
  <2>1. \A k \in 1 .. m + n : Single(b, s[k])
    BY <1>1, <1>5 DEF Once
  <2>2. ASSUME NEW k \in 1 .. m + n, NEW l \in 1 .. m + n, k # l
        PROVE  Of(b, s[k]) \cap Of(b, s[l]) = {}
    <3>1. CASE k \in 1 .. m /\ l \in 1 .. m
      BY <1>1, <2>2, <3>1 DEF Once
    <3>2. CASE k \in 1 .. m /\ l \notin 1 .. m
      <4>1. Of(b, s[k]) \subseteq In(b, q) /\ Of(b, s[l]) \subseteq In(b, r)
        BY <1>1, <1>5, <3>2, InOf
      <4> QED BY <4>1
    <3>3. CASE k \notin 1 .. m /\ l \in 1 .. m
      <4>1. Of(b, s[l]) \subseteq In(b, q) /\ Of(b, s[k]) \subseteq In(b, r)
        BY <1>1, <1>5, <3>3, InOf
      <4> QED BY <4>1
    <3>4. CASE k \notin 1 .. m /\ l \notin 1 .. m
      <4>1. k - m \in 1 .. n /\ l - m \in 1 .. n /\ s[k] = r[k - m] /\ s[l] = r[l - m]
        BY <1>5, <3>4
      <4>2. k - m # l - m
        BY <1>1, <2>2
      <4> QED BY <1>1, <4>1, <4>2 DEF Once
    <3> QED BY <3>1, <3>2, <3>3, <3>4
  <2> QED BY <1>1, <2>1, <2>2 DEF Once
<1> QED BY <1>1, <1>6, <1>7 DEF s

\* One piece more.
Longer(q, L, p, r) ==
  /\ DOMAIN q = 1 .. L
  /\ DOMAIN r = 1 .. L + 1 /\ r[L + 1] = p /\ \A i \in 1 .. L : r[i] = q[i]

LEMMA Appended ==
  ASSUME NEW b, NEW q, NEW L \in Nat, NEW p, NEW r, Longer(q, L, p, r),
         Once(b, q), Single(b, p), In(b, q) \cap Of(b, p) = {}
  PROVE  In(b, r) = In(b, q) \cup Of(b, p) /\ Once(b, r)
<1>0. /\ DOMAIN q = 1 .. L
      /\ DOMAIN r = 1 .. L + 1 /\ r[L + 1] = p /\ \A i \in 1 .. L : r[i] = q[i]
  BY DEF Longer
<1> USE <1>0
<1>1. \A i \in 1 .. L + 1 : i = L + 1 \/ i \in 1 .. L
  OBVIOUS
<1>2. L + 1 \in 1 .. L + 1 /\ \A i \in 1 .. L : i \in 1 .. L + 1
  OBVIOUS
<1>3. \A i \in 1 .. L : Of(b, q[i]) \subseteq In(b, q) /\ Single(b, q[i])
  BY InOf DEF Once
<1>4. In(b, r) = In(b, q) \cup Of(b, p)
  <2>1. In(b, r) \subseteq In(b, q) \cup Of(b, p)
    BY <1>1, <1>3 DEF In
  <2>2. Of(b, p) \subseteq In(b, r)
    BY <1>2, InOf
  <2>3. In(b, q) \subseteq In(b, r)
    BY <1>2 DEF In
  <2> QED BY <2>1, <2>2, <2>3
<1>5. \A i \in 1 .. L + 1 : Single(b, r[i])
  BY <1>1, <1>3
<1>6. ASSUME NEW i \in 1 .. L + 1, NEW j \in 1 .. L + 1, i # j
      PROVE  Of(b, r[i]) \cap Of(b, r[j]) = {}
  <2>1. CASE i \in 1 .. L /\ j \in 1 .. L
    BY <1>6, <2>1 DEF Once
  <2>2. CASE i = L + 1 /\ j \in 1 .. L
    BY <1>3, <2>2
  <2>3. CASE i \in 1 .. L /\ j = L + 1
    BY <1>3, <2>3
  <2> QED BY <1>1, <1>6, <2>1, <2>2, <2>3
<1> QED BY <1>4, <1>5, <1>6 DEF Once

\* The first n pieces leave a queue, those of K with their sound.
Leaves(q, L, n, K, out, rest) ==
  /\ DOMAIN q = 1 .. L /\ n \in 0 .. L
  /\ DOMAIN out = 1 .. n /\ \A i \in 1 .. n : out[i] = IF i \in K THEN q[i] ELSE <<>>
  /\ DOMAIN rest = 1 .. L - n /\ \A i \in 1 .. L - n : rest[i] = q[n + i]

LEMMA Delivered ==
  ASSUME NEW b, NEW q, NEW L \in Nat, NEW n, NEW K, NEW out, NEW rest,
         Leaves(q, L, n, K, out, rest), Once(b, q)
  PROVE  /\ Once(b, out) /\ Once(b, rest)
         /\ In(b, out) \cap In(b, rest) = {}
         /\ In(b, out) \subseteq In(b, q) /\ In(b, rest) \subseteq In(b, q)
         /\ \A x \in In(b, q) :
              x \in In(b, out) \/ x \in In(b, rest) \/ \E i \in (1 .. n) \ K : x \in Of(b, q[i])
<1>0. /\ DOMAIN q = 1 .. L /\ n \in 0 .. L
      /\ DOMAIN out = 1 .. n /\ \A i \in 1 .. n : out[i] = IF i \in K THEN q[i] ELSE <<>>
      /\ DOMAIN rest = 1 .. L - n /\ \A i \in 1 .. L - n : rest[i] = q[n + i]
  BY DEF Leaves
<1> USE <1>0
<1>1. \A i \in 1 .. n :
        /\ i \in 1 .. L
        /\ Single(b, out[i])
        /\ Of(b, out[i]) \subseteq Of(b, q[i])
        /\ (i \in K => out[i] = q[i])
  <2> SUFFICES ASSUME NEW i \in 1 .. n
               PROVE  /\ i \in 1 .. L
                      /\ Single(b, out[i])
                      /\ Of(b, out[i]) \subseteq Of(b, q[i])
                      /\ i \in K => out[i] = q[i]
    OBVIOUS
  <2>1. i \in 1 .. L
    OBVIOUS
  <2>2. CASE i \in K
    BY <2>1, <2>2 DEF Once
  <2>3. CASE i \notin K
    BY <2>1, <2>3, NothingInEmpty
  <2> QED BY <2>1, <2>2, <2>3
<1>2. \A i \in 1 .. L - n : n + i \in 1 .. L /\ n + i \notin 1 .. n
  OBVIOUS
<1>3. \A i \in 1 .. L : i \in 1 .. n \/ (i - n \in 1 .. L - n /\ i = n + (i - n))
  OBVIOUS
<1>4. Once(b, out)
  <2> SUFFICES ASSUME NEW i \in 1 .. n, NEW j \in 1 .. n, i # j
               PROVE  Of(b, out[i]) \cap Of(b, out[j]) = {}
    BY <1>1 DEF Once
  <2>1. Of(b, q[i]) \cap Of(b, q[j]) = {}
    BY <1>1 DEF Once
  <2> QED BY <1>1, <2>1
<1>5. Once(b, rest)
  <2>1. \A k, l \in 1 .. L - n : k # l => n + k # n + l
    OBVIOUS
  <2> QED BY <1>2, <2>1 DEF Once
<1>6. In(b, out) \cap In(b, rest) = {}
  <2> SUFFICES ASSUME NEW i \in 1 .. n, NEW j \in 1 .. L - n
               PROVE  Of(b, out[i]) \cap Of(b, rest[j]) = {}
    BY DEF In
  <2>1. n + j \in 1 .. L /\ i # n + j /\ rest[j] = q[n + j] /\ i \in 1 .. L
    BY <1>1, <1>2
  <2>2. Of(b, q[i]) \cap Of(b, q[n + j]) = {}
    BY <2>1 DEF Once
  <2>3. Of(b, out[i]) \subseteq Of(b, q[i])
    BY <1>1
  <2> QED BY <2>1, <2>2, <2>3
<1>7. In(b, out) \subseteq In(b, q)
  BY <1>1 DEF In
<1>8. In(b, rest) \subseteq In(b, q)
  BY <1>2 DEF In
<1>9. ASSUME NEW x \in In(b, q)
      PROVE  x \in In(b, out) \/ x \in In(b, rest) \/ \E i \in (1 .. n) \ K : x \in Of(b, q[i])
  <2>1. PICK i \in 1 .. L : x \in Of(b, q[i])
    BY DEF In
  <2>2. CASE i \in 1 .. n
    BY <1>1, <2>1, <2>2 DEF In
  <2>3. CASE i - n \in 1 .. L - n /\ i = n + (i - n)
    BY <2>1, <2>3 DEF In
  <2> QED BY <1>3, <2>2, <2>3
<1> QED BY <1>4, <1>5, <1>6, <1>7, <1>8, <1>9

-----------------------------------------------------------------------------
(* Where the sound of the stream is: with the gate, ahead of the decoder,  *)
(* or in the recogniser's hands, or in the finals.                         *)

Queue == [i \in 1 .. Len(pending) |-> windows[pending[i]].samples]
Own(q) == In(began, q)
Ahead == Own(Queue) \cup Of(began, analysis) \cup Of(began, input)

Sized ==
  /\ began \in Nat
  /\ {finals, text, pendingText, decoder, pcm} \subseteq Pieces(captured)
  /\ {analysis, input} \subseteq Seq(1 .. captured)
  /\ \A n \in DOMAIN windows : windows[n].samples \in Seq(1 .. captured)

\* None of it is ahead of the decoder twice.
Line ==
  /\ Once(began, Queue) /\ Single(began, analysis) /\ Single(began, input)
  /\ Of(began, analysis) \cap Of(began, input) = {}
  /\ Own(Queue) \cap Of(began, analysis) = {}
  /\ Own(Queue) \cap Of(began, input) = {}

\* What of the recogniser is empty, and what is not released, at each step.
Control ==
  /\ engine \in {"sherpa", "vosk"} /\ {handle, session, intact} \subseteq BOOLEAN
  /\ pc \in {"frames", "gate", "accept", "result", "emit", "reset"} \cup Over
  /\ pc \notin {"accept", "tail"} => pcm = <<>>
  /\ pc # "gate" => input = <<>>
  /\ pc \in {"tail", "last", "reset"} => engine = "sherpa"
  /\ pc \in {"result", "emit", "reset"} => pendingText = <<>>
  /\ pc = "emit" /\ engine = "vosk" => decoder = <<>>
  /\ pc \notin {"result", "emit"} => text = <<>>
  /\ intact /\ pc # "ended" => handle
  /\ intact /\ pc = "gate" => session

\* A sequence of pieces has nothing twice, nor anything of a set.
Clear(b, q, set) == Once(b, q) /\ In(b, q) \cap set = {}

\* What was heard is not ahead any more, and what was captioned is in nobody's
\* hands; the decoder alone keeps it until it is reset.
Apart ==
  /\ \A q \in {finals, text, pendingText, decoder, pcm} : Clear(began, q, Ahead)
  /\ \A q \in {text, pendingText, pcm} : Own(finals) \cap Own(q) = {}
  /\ Own(decoder) \cap Own(pcm) = {}
  /\ pc \notin {"reset", "ended"} => Own(finals) \cap Own(decoder) = {}

\* What was heard and not captioned yet, and will be.
Hand ==
  CASE pc = "emit" -> Own(text)
    [] pc = "last" -> Own(pendingText)
    [] pc \in {"reset", "ended"} -> {}
    [] OTHER -> Own(decoder)

\* Nothing of a stream that goes its way is lost.
Kept ==
  /\ intact /\ ~session => Own(Queue) = {}
  /\ intact /\ engine = "sherpa" /\ pc \in Over => Own(Queue) = {}
  /\ intact /\ pc \in {"frames", "gate", "accept", "tail"} => Own(pendingText) = Own(decoder)
  /\ intact /\ (pc = "ended" => engine = "sherpa") =>
       began .. captured \subseteq Own(finals) \cup Hand \cup Own(pcm) \cup Ahead \cup Muted

CInv == Sized /\ Line /\ Control /\ Apart /\ Kept

-----------------------------------------------------------------------------
(* What the gate's steps do to what is ahead.                              *)

\* The queue leads to windows that were judged.
LEMMA QueueIsPieces ==
  ASSUME IInv, Sized
  PROVE  /\ Queue \in Pieces(captured) /\ DOMAIN Queue = 1 .. Len(pending)
         /\ \A i \in 1 .. Len(pending) : /\ pending[i] \in 1 .. Len(windows)
                                         /\ Queue[i] = windows[pending[i]].samples
<1>1. \A i \in 1 .. Len(pending) : pending[i] \in 1 .. Len(windows)
  BY DEF IInv, InStep, TypeOK
<1>2. DOMAIN windows = 1 .. Len(windows) /\ Len(pending) \in Nat
  BY DEF IInv, TypeOK
<1>3. \A i \in 1 .. Len(pending) : windows[pending[i]].samples \in Seq(1 .. captured)
  BY <1>1, <1>2 DEF Sized
<1>4. DOMAIN Queue = 1 .. Len(pending)
      /\ \A i \in 1 .. Len(pending) : Queue[i] = windows[pending[i]].samples
  BY DEF Queue
<1>5. Queue \in Pieces(captured)
  BY <1>2, <1>3 DEF Queue, Pieces
<1> QED BY <1>1, <1>4, <1>5

\* What was captured, as numbers.
LEMMA Samples ==
  ASSUME NEW c \in Nat
  PROVE  Seq(1 .. c) \subseteq Seq(Nat) /\ Pieces(c) \subseteq Seq(Seq(Nat))
<1>1. 1 .. c \subseteq Nat
  OBVIOUS
<1>2. \A S, T : S \subseteq T => Seq(S) \subseteq Seq(T)
  OBVIOUS
<1> QED BY <1>1, <1>2 DEF Pieces

\* Once the windows already judged stay, what is muted stays muted.
LEMMA MutedStays ==
  ASSUME IInv, muted \subseteq muted', \A n \in 1 .. Len(windows) : windows'[n] = windows[n]
  PROVE  Muted \subseteq Muted'
<1>1. \A n \in muted : windows'[n] = windows[n] /\ n \in muted'
  BY DEF IInv, TypeOK
<1> QED BY <1>1 DEF Muted

\* A window fills, with the stream it began in.
LEMMA FillMoves ==
  ASSUME IInv, Sized, Line, Fill, UNCHANGED <<captured, began>>
  PROVE  /\ Line' /\ Ahead' = Ahead /\ Own(Queue)' = Own(Queue)
         /\ analysis' \in Seq(1 .. captured)
<1>1. /\ analysis' = analysis \o input /\ input' = <<>>
      /\ UNCHANGED <<windows, pending>>
  BY DEF Fill
<1>2. /\ analysis \in Seq(Nat) /\ input \in Seq(Nat) /\ began \in Int
      /\ analysis \in Seq(1 .. captured) /\ input \in Seq(1 .. captured)
  BY DEF IInv, TypeOK, Sized
<1>3. /\ Of(began, analysis') = Of(began, analysis) \cup Of(began, input)
      /\ Single(began, analysis')
  BY <1>1, <1>2, Joined DEF Line
<1>4. Of(began, input') = {} /\ Single(began, input')
  BY <1>1, NothingInEmpty
<1>5. Queue' = Queue /\ Own(Queue)' = Own(Queue)
  BY <1>1 DEF Queue, Own
<1>6. Line'
  BY <1>3, <1>4, <1>5 DEF Line, Own
<1>7. Ahead' = Ahead
  BY <1>3, <1>4, <1>5 DEF Ahead, Own
<1>8. analysis' \in Seq(1 .. captured)
  BY <1>1, <1>2
<1> QED BY <1>5, <1>6, <1>7, <1>8

\* A full window goes to the end of the queue, and the next begins with the rest.
LEMMA JudgeMoves ==
  ASSUME IInv, Sized, Line, Judge(stream), UNCHANGED <<captured, began>>
  PROVE  /\ Line' /\ Ahead' = Ahead /\ Muted \subseteq Muted'
         /\ {analysis, input}' \subseteq Seq(1 .. captured)
         /\ \A n \in DOMAIN windows' : windows'[n].samples \in Seq(1 .. captured)
<1> DEFINE w == Len(windows)
           p == Len(pending)
           m == WindowSize - Len(analysis)
           x == analysis \o Taken(input)
<1>1. /\ w \in Nat /\ p \in Nat /\ began \in Int /\ captured \in Nat
      /\ DOMAIN windows = 1 .. w
      /\ analysis \in Seq(Nat) /\ input \in Seq(Nat)
      /\ analysis \in Seq(1 .. captured) /\ input \in Seq(1 .. captured)
      /\ Seq(1 .. captured) \subseteq Seq(Nat)
  BY Samples DEF IInv, TypeOK, Sized
<1>2. m \in 0 .. Len(input)
  <2>1. Len(analysis) \in Nat /\ Len(analysis) < WindowSize /\ Len(input) \in Nat
        /\ WindowSize \in Nat /\ Len(analysis) + Len(input) >= WindowSize
    BY GateAssumption DEF IInv, TypeOK, Judge, GateAssumption
  <2> QED BY <2>1
<1>3. /\ Taken(input) \in Seq(1 .. captured) /\ Left(input) \in Seq(1 .. captured)
      /\ Single(began, Taken(input)) /\ Single(began, Left(input))
      /\ Of(began, Taken(input)) \cup Of(began, Left(input)) = Of(began, input)
      /\ Of(began, Taken(input)) \cap Of(began, Left(input)) = {}
  <2>1. Cut(input, m, Taken(input), Left(input))
    BY <1>2 DEF Taken, Left, Cut
  <2>2. Single(began, input) /\ 1 .. captured \in SUBSET Nat
    BY <1>1 DEF Line
  <2> HIDE DEF m
  <2> QED BY <1>1, <1>2, <2>1, <2>2, CutInTwo
<1>4. /\ Of(began, x) = Of(began, analysis) \cup Of(began, Taken(input))
      /\ Single(began, x)
  <2>1. Single(began, analysis) /\ Of(began, analysis) \cap Of(began, Taken(input)) = {}
    BY <1>3 DEF Line
  <2> QED BY <1>1, <1>3, <2>1, Joined
<1>5. x \in Seq(1 .. captured)
  BY <1>1, <1>3
<1> HIDE DEF x, m
<1>6. /\ DOMAIN windows' = 1 .. w + 1 /\ windows'[w + 1].samples = x
      /\ \A n \in 1 .. w : windows'[n] = windows[n]
  <2>1. PICK speech \in BOOLEAN :
          windows' = Append(windows, [samples |-> x, speech |-> speech, stream |-> stream])
    BY DEF Judge, x
  <2>2. windows \in Seq(Judged)
    BY DEF IInv, TypeOK
  <2> QED BY <1>1, <2>1, <2>2
<1>7. \A n \in DOMAIN windows' : windows'[n].samples \in Seq(1 .. captured)
  <2>1. \A n \in 1 .. w : windows[n].samples \in Seq(1 .. captured)
    BY <1>1 DEF Sized
  <2>2. \A n \in 1 .. w + 1 : n \in 1 .. w \/ n = w + 1
    BY <1>1
  <2> QED BY <1>5, <1>6, <2>1, <2>2
<1>8. /\ Len(pending') = p + 1 /\ pending'[p + 1] = w + 1
      /\ \A i \in 1 .. p : pending'[i] = pending[i]
  <2>1. pending \in Seq(Nat) /\ pending' = Append(pending, w + 1)
    BY DEF IInv, TypeOK, Judge
  <2> QED BY <1>1, <2>1
<1>9. /\ DOMAIN Queue = 1 .. p
      /\ \A i \in 1 .. p : pending[i] \in 1 .. w /\ Queue[i] = windows[pending[i]].samples
  BY QueueIsPieces
<1> HIDE DEF w, p
<1>10. /\ DOMAIN Queue' = 1 .. p + 1 /\ Queue'[p + 1] = x
       /\ \A i \in 1 .. p : Queue'[i] = Queue[i]
  <2>1. Queue' = [i \in 1 .. p + 1 |-> windows'[pending'[i]].samples]
    BY <1>8 DEF Queue
  <2>2. p + 1 \in 1 .. p + 1 /\ \A i \in 1 .. p : i \in 1 .. p + 1
    BY <1>1
  <2> QED BY <1>6, <1>8, <1>9, <2>1, <2>2
<1>11. /\ In(began, Queue') = In(began, Queue) \cup Of(began, x)
       /\ Once(began, Queue')
  <2>1. Once(began, Queue) /\ In(began, Queue) \cap Of(began, x) = {}
    BY <1>3, <1>4 DEF Line, Own
  <2>2. Longer(Queue, p, x, Queue')
    BY <1>9, <1>10 DEF Longer
  <2> QED BY <1>1, <1>4, <2>1, <2>2, Appended
<1>12. analysis' = <<>> /\ input' = Left(input) /\ UNCHANGED muted
  BY DEF Judge
<1>13. Of(began, analysis') = {} /\ Single(began, analysis')
  BY <1>12, NothingInEmpty
<1>14. Line'
  <2>1. In(began, Queue') \cap Of(began, input') = {}
    BY <1>3, <1>4, <1>11, <1>12 DEF Line, Own
  <2> QED BY <1>3, <1>11, <1>12, <1>13, <2>1 DEF Line, Own
<1>15. Ahead' = Ahead
  <2>1. Ahead' = In(began, Queue') \cup Of(began, analysis') \cup Of(began, input')
    BY DEF Ahead, Own
  <2>2. Ahead = In(began, Queue) \cup Of(began, analysis) \cup Of(began, input)
    BY DEF Ahead, Own
  <2> QED BY <1>3, <1>4, <1>11, <1>12, <1>13, <2>1, <2>2
<1>16. {analysis, input}' \subseteq Seq(1 .. captured)
  BY <1>3, <1>12
<1>17. Muted \subseteq Muted'
  BY <1>6, <1>12, MutedStays DEF w
<1> QED BY <1>7, <1>14, <1>15, <1>16, <1>17

\* Windows leave the queue as sound or muted.
LEMMA DrainMoves ==
  ASSUME IInv, Sized, Line, NEW keep \in Nat, Drain(keep, pcm'), UNCHANGED <<captured, began>>
  PROVE  /\ Line' /\ Ahead' \subseteq Ahead /\ Own(Queue)' \subseteq Own(Queue)
         /\ pcm' \in Pieces(captured)
         /\ Once(began, pcm') /\ In(began, pcm') \subseteq Ahead
         /\ In(began, pcm') \cap Ahead' = {}
         /\ Muted \subseteq Muted'
         /\ Ahead \subseteq In(began, pcm') \cup Ahead' \cup Muted'
         /\ keep = 0 => Own(Queue)' = {}
<1> DEFINE p == Len(pending)
           n == Max({p - keep, 0})
           K == {i \in 1 .. n : Audible(i)}
<1>1. p \in Nat /\ captured \in Nat /\ pending \in Seq(Nat)
  BY DEF IInv, TypeOK
<1>2. n \in 0 .. p /\ (keep = 0 => n = p)
  BY <1>1, MaxOfTwo
<1> HIDE DEF n
<1>3. /\ Queue \in Pieces(captured) /\ DOMAIN Queue = 1 .. p
      /\ \A i \in 1 .. p : pending[i] \in 1 .. Len(windows) /\ Queue[i] = windows[pending[i]].samples
  BY QueueIsPieces
<1>4. Len(pending') = p - n /\ \A i \in 1 .. p - n : pending'[i] = pending[n + i]
  <2>1. pending' = SubSeq(pending, n + 1, p)
    BY DEF Drain, n
  <2>2. n + 1 \in Nat \ {0} /\ p \in Int /\ p <= Len(pending)
    BY <1>1, <1>2
  <2>3. /\ Len(pending') = IF n + 1 <= p THEN p - (n + 1) + 1 ELSE 0
        /\ \A i \in 1 .. p - (n + 1) + 1 : pending'[i] = pending[n + 1 + i - 1]
    BY <1>1, <2>1, <2>2, PartOfSeq
  <2>4. p - (n + 1) + 1 = p - n /\ (IF n + 1 <= p THEN p - n ELSE 0) = p - n
    BY <1>1, <1>2
  <2>5. \A i \in 1 .. p - n : n + 1 + i - 1 = n + i
    BY <1>1, <1>2
  <2> QED BY <2>3, <2>4, <2>5
<1>5. /\ DOMAIN pcm' = 1 .. n
      /\ \A i \in 1 .. n : pcm'[i] = IF i \in K THEN Queue[i] ELSE <<>>
  <2>1. pcm' = [i \in 1 .. n |-> IF Audible(i) THEN windows[pending[i]].samples ELSE <<>>]
    BY DEF Drain, n, Silence
  <2>2. \A i \in 1 .. n : i \in 1 .. p /\ (i \in K <=> Audible(i))
    BY <1>1, <1>2
  <2> QED BY <1>3, <2>1, <2>2
<1>6. UNCHANGED <<input, analysis, windows>>
  BY DEF Drain
<1>7. /\ DOMAIN Queue' = 1 .. p - n
      /\ \A i \in 1 .. p - n : Queue'[i] = Queue[n + i]
  <2>1. Queue' = [i \in 1 .. p - n |-> windows[pending'[i]].samples]
    BY <1>4, <1>6 DEF Queue
  <2>2. \A i \in 1 .. p - n : n + i \in 1 .. p
    BY <1>1, <1>2
  <2> QED BY <1>3, <1>4, <2>1, <2>2
<1> DEFINE out == pcm'
           rest == Queue'
<1>8. /\ Once(began, out) /\ Once(began, rest)
      /\ In(began, out) \cap In(began, rest) = {}
      /\ In(began, out) \subseteq In(began, Queue) /\ In(began, rest) \subseteq In(began, Queue)
      /\ \A x \in In(began, Queue) :
           x \in In(began, out) \/ x \in In(began, rest) \/ \E i \in (1 .. n) \ K : x \in Of(began, Queue[i])
  <2>1. Leaves(Queue, p, n, K, out, rest)
    BY <1>2, <1>3, <1>5, <1>7 DEF Leaves
  <2>2. Once(began, Queue) /\ p \in Nat
    BY <1>1 DEF Line
  <2> HIDE DEF out, rest, K, p
  <2> QED BY <2>1, <2>2, Delivered
<1>9. pcm' \in Pieces(captured)
  <2>1. <<>> \in Seq(1 .. captured)
    OBVIOUS
  <2>2. \A i \in 1 .. p : Queue[i] \in Seq(1 .. captured)
    BY <1>1, <1>3, ElementOfSeq DEF Pieces
  <2>3. \A i \in 1 .. n : i \in 1 .. p
    BY <1>1, <1>2
  <2>4. pcm' = [i \in 1 .. n |-> IF Audible(i) THEN windows[pending[i]].samples ELSE <<>>]
    BY DEF Drain, n, Silence
  <2>5. \A i \in 1 .. n : (IF Audible(i) THEN windows[pending[i]].samples ELSE <<>>) \in Seq(1 .. captured)
    BY <1>3, <2>1, <2>2, <2>3
  <2>6. n \in Nat
    BY <1>1, <1>2
  <2> DEFINE S == Seq(1 .. captured)
             e(i) == IF Audible(i) THEN windows[pending[i]].samples ELSE <<>>
  <2>7. \A i \in 1 .. n : e(i) \in S
    BY <2>5
  <2>8. pcm' = [i \in 1 .. n |-> e(i)]
    BY <2>4
  <2> HIDE DEF S, e
  <2>9. pcm' \in Seq(S)
    BY <2>6, <2>7, <2>8
  <2> QED BY <2>9 DEF S, Pieces
<1>10. muted' = muted \cup {pending[i] : i \in (1 .. n) \ K}
  <2>1. muted' = muted \cup {pending[i] : i \in {j \in 1 .. n : ~Audible(j)}}
    BY DEF Drain, n
  <2>2. {j \in 1 .. n : ~Audible(j)} = (1 .. n) \ K
    OBVIOUS
  <2> QED BY <2>1, <2>2
<1>11. \A i \in (1 .. n) \ K : Of(began, Queue[i]) \subseteq Muted'
  <2> SUFFICES ASSUME NEW i \in (1 .. n) \ K PROVE Of(began, Queue[i]) \subseteq Muted'
    OBVIOUS
  <2>1. i \in 1 .. p /\ pending[i] \in muted'
    BY <1>1, <1>2, <1>10
  <2>2. Of(began, Queue[i]) \subseteq Range(windows'[pending[i]].samples)
    BY <1>3, <1>6, <2>1 DEF Of
  <2> QED BY <2>1, <2>2 DEF Muted
<1>12. Muted \subseteq Muted'
  BY <1>6, <1>10, MutedStays
<1>13. Own(Queue)' = In(began, rest) /\ Own(Queue) = In(began, Queue)
  BY DEF Own
<1>14. /\ Ahead' = In(began, rest) \cup Of(began, analysis) \cup Of(began, input)
       /\ Ahead = In(began, Queue) \cup Of(began, analysis) \cup Of(began, input)
  BY <1>6 DEF Ahead, Own
<1>15. Line'
  BY <1>6, <1>8 DEF Line, Own
<1>16. keep = 0 => Own(Queue)' = {}
  <2> SUFFICES ASSUME keep = 0 PROVE In(began, rest) = {}
    BY <1>13
  <2>1. DOMAIN rest = {}
    BY <1>1, <1>2, <1>7
  <2> QED BY <2>1 DEF In
<1>17. In(began, out) \cap Ahead' = {}
  <2>1. /\ In(began, Queue) \cap Of(began, analysis) = {}
        /\ In(began, Queue) \cap Of(began, input) = {}
    BY DEF Line, Own
  <2> QED BY <1>8, <1>14, <2>1
<1>18. Ahead \subseteq In(began, out) \cup Ahead' \cup Muted'
  BY <1>8, <1>11, <1>14
<1> QED BY <1>8, <1>9, <1>12, <1>13, <1>14, <1>15, <1>16, <1>17, <1>18

-----------------------------------------------------------------------------
(* The recogniser's steps.                                                 *)

\* A step that leaves the gate alone.
LEMMA GateStays ==
  ASSUME UNCHANGED <<windows, pending, analysis, input, muted, began>>
  PROVE  /\ Own(Queue)' = Own(Queue) /\ Ahead' = Ahead /\ Muted' = Muted
         /\ (Line => Line')
<1>1. Queue' = Queue
  BY DEF Queue
<1> QED BY <1>1 DEF Own, Ahead, Muted, Line

\* A step that captures nothing.
LEMMA SizedStays ==
  ASSUME IInv, Sized, UNCHANGED <<windows, analysis, input, captured, began>>,
         {finals, text, pendingText, decoder, pcm}' \subseteq Pieces(captured)
  PROVE  Sized'
BY DEF Sized

\* The empty sequence.
LEMMA NoPieces ==
  ASSUME NEW c
  PROVE  <<>> \in Pieces(c)
BY DEF Pieces

\* The decoder's hypothesis with what it takes now.
LEMMA HeardIs ==
  ASSUME CInv
  PROVE  /\ In(began, Heard) = In(began, decoder) \cup In(began, pcm)
         /\ Once(began, Heard) /\ Heard \in Pieces(captured)
         /\ In(began, Heard) \cap Ahead = {}
<1>1. /\ decoder \in Seq(Seq(1 .. captured)) /\ pcm \in Seq(Seq(1 .. captured))
      /\ Clear(began, decoder, Ahead) /\ Clear(began, pcm, Ahead)
      /\ In(began, decoder) \cap In(began, pcm) = {}
  BY DEF CInv, Sized, Apart, Own, Pieces
<1>2. /\ In(began, Heard) = In(began, decoder) \cup In(began, pcm)
      /\ Once(began, Heard) /\ Heard \in Seq(Seq(1 .. captured))
  BY <1>1, Collected DEF Heard, Clear
<1> QED BY <1>1, <1>2 DEF Clear, Pieces

\* The decoder takes what the gate returned, and the utterance goes on or ends.
LEMMA AcceptKeeps ==
  ASSUME IInv, CInv, Accept
  PROVE  CInv'
<1>1. /\ UNCHANGED <<windows, pending, analysis, input, muted, began, captured, session>>
      /\ UNCHANGED <<engine, handle, finals, intact>>
      /\ pc = "accept" /\ pcm' = <<>>
  BY DEF Accept, gate, history
<1>2. Own(Queue)' = Own(Queue) /\ Ahead' = Ahead /\ Muted' = Muted /\ Line'
  BY <1>1, GateStays DEF CInv
<1>3. /\ In(began, <<>>) = {} /\ Once(began, <<>>) /\ <<>> \in Pieces(captured)
  BY NothingInEmpty, NoPieces
<1>4. /\ In(began, Heard) = In(began, decoder) \cup In(began, pcm)
      /\ Once(began, Heard) /\ Heard \in Pieces(captured)
      /\ In(began, Heard) \cap Ahead = {}
  BY HeardIs
<1>5. /\ {finals, text, pendingText, decoder, pcm} \subseteq Pieces(captured)
      /\ \A q \in {finals, text, pendingText, decoder, pcm} : Clear(began, q, Ahead)
      /\ \A q \in {text, pendingText, pcm} : In(began, finals) \cap In(began, q) = {}
      /\ In(began, finals) \cap In(began, decoder) = {}
  BY <1>1 DEF CInv, Sized, Apart, Own
<1>6. CASE handle
  <2>1. PICK endpoint \in BOOLEAN :
          /\ decoder' = Heard
          /\ pendingText' = IF endpoint THEN <<>> ELSE Heard
          /\ text' = IF endpoint THEN Heard ELSE <<>>
          /\ pc' = IF ~endpoint THEN "frames" ELSE IF engine = "sherpa" THEN "emit" ELSE "result"
    BY <1>6 DEF Accept
  <2>2. pendingText' \in {<<>>, Heard} /\ text' \in {<<>>, Heard}
    BY <2>1
  <2>3. Sized'
    BY <1>1, <1>3, <1>4, <1>5, <2>1, <2>2, SizedStays DEF CInv
  <2>4. Control'
    BY <1>1, <1>6, <2>1 DEF CInv, Control, Over
  <2>5. Apart'
    <3>1. /\ Clear(began, finals, Ahead) /\ Clear(began, Heard, Ahead) /\ Clear(began, <<>>, Ahead)
          /\ In(began, finals) \cap In(began, Heard) = {}
          /\ In(began, finals) \cap In(began, <<>>) = {}
      BY <1>3, <1>4, <1>5 DEF Clear
    <3>2. \A q \in {finals', text', pendingText', decoder', pcm'} : q \in {finals, <<>>, Heard}
      BY <1>1, <2>1, <2>2
    <3>3. \A q \in {text', pendingText', pcm'} : q \in {<<>>, Heard}
      BY <1>1, <2>2
    <3> QED BY <1>1, <1>2, <1>3, <2>1, <3>1, <3>2, <3>3 DEF Apart, Own
  <2>6. Kept'
    <3>1. In(began, decoder') = In(began, Heard) /\ In(began, pcm') = {}
      BY <1>1, <1>3, <2>1
    <3>2. Hand' = In(began, Heard) /\ pc' # "ended" /\ pc' \notin Over
      BY <1>1, <2>1 DEF Hand, Own, Over
    <3>3. pc' = "frames" => In(began, pendingText') = In(began, Heard)
      BY <2>1
    <3>4. pc' \notin {"gate", "accept", "tail"}
      BY <2>1
    <3>5. intact => began .. captured \subseteq In(began, finals) \cup In(began, Heard) \cup Ahead \cup Muted
      BY <1>1, <1>4 DEF CInv, Kept, Hand, Own
    <3> QED BY <1>1, <1>2, <3>1, <3>2, <3>3, <3>4, <3>5 DEF CInv, Kept, Own
  <2> QED BY <1>2, <2>3, <2>4, <2>5, <2>6 DEF CInv
<1>7. CASE ~handle
  <2>1. UNCHANGED <<decoder, text, pendingText>> /\ pc' = "frames" /\ ~intact
    BY <1>1, <1>7 DEF Accept, CInv, Control
  <2>2. Sized'
    BY <1>1, <1>3, <1>5, <2>1, SizedStays DEF CInv
  <2>3. Control'
    BY <1>1, <1>7, <2>1 DEF CInv, Control, Over
  <2>4. Apart'
    <3>1. Clear(began, <<>>, Ahead)
      BY <1>3 DEF Clear
    <3> QED BY <1>1, <1>2, <1>3, <1>5, <2>1, <3>1 DEF Apart, Own
  <2>5. Kept'
    BY <1>1, <2>1 DEF Kept
  <2> QED BY <1>2, <2>2, <2>3, <2>4, <2>5 DEF CInv
<1> QED BY <1>6, <1>7

\* Vosk's final text is what the decoder had.
LEMMA ResultKeeps ==
  ASSUME IInv, CInv, Result
  PROVE  CInv'
<1>1. /\ UNCHANGED <<windows, pending, analysis, input, muted, began, captured, session>>
      /\ UNCHANGED <<engine, handle, finals, intact, pcm, pendingText>>
      /\ pc = "result" /\ pc' = "emit" /\ text' = decoder /\ decoder' = <<>>
      /\ pcm = <<>> /\ pendingText = <<>>
  BY DEF Result, gate, history, CInv, Control
<1>2. Own(Queue)' = Own(Queue) /\ Ahead' = Ahead /\ Muted' = Muted /\ Line'
  BY <1>1, GateStays DEF CInv
<1>3. /\ In(began, <<>>) = {} /\ Once(began, <<>>) /\ <<>> \in Pieces(captured)
      /\ Clear(began, <<>>, Ahead)
  BY NothingInEmpty, NoPieces DEF Clear
<1>4. /\ {finals, text, pendingText, decoder, pcm} \subseteq Pieces(captured)
      /\ Clear(began, finals, Ahead) /\ Clear(began, decoder, Ahead)
      /\ In(began, finals) \cap In(began, decoder) = {}
  BY <1>1 DEF CInv, Sized, Apart, Own
<1>5. Sized'
  BY <1>1, <1>3, <1>4, SizedStays DEF CInv
<1>6. Control'
  BY <1>1 DEF CInv, Control, Over
<1>7. Apart'
  BY <1>1, <1>2, <1>3, <1>4 DEF Apart, Own
<1>8. Kept'
  <2>1. Hand' = In(began, decoder) /\ In(began, pcm') = {}
    BY <1>1, <1>3 DEF Hand, Own
  <2>2. intact => began .. captured \subseteq In(began, finals) \cup In(began, decoder) \cup Ahead \cup Muted
    BY <1>1, <1>3 DEF CInv, Kept, Hand, Own
  <2> QED BY <1>1, <1>2, <1>3, <2>1, <2>2 DEF CInv, Kept, Own, Over
<1> QED BY <1>2, <1>5, <1>6, <1>7, <1>8 DEF CInv

\* The finals with one more, or with one of which there was nothing to hear.
LEMMA EmittedIs ==
  ASSUME CInv, NEW q \in Pieces(captured), Clear(began, q, Ahead),
         In(began, finals) \cap In(began, q) = {}, captured \in Nat
  PROVE  /\ In(began, Emitted(q)) = In(began, finals) \cup In(began, q)
         /\ Clear(began, Emitted(q), Ahead) /\ Emitted(q) \in Pieces(captured)
<1>1. finals \in Pieces(captured) /\ Clear(began, finals, Ahead)
  BY DEF CInv, Sized, Apart
<1>2. CASE Blank(q)
  <2>1. q \in Seq(Seq(Nat))
    BY Samples
  <2>2. In(began, q) = {}
    BY <1>2, <2>1, NothingInBlank
  <2> QED BY <1>1, <1>2, <2>2 DEF Emitted
<1>3. CASE ~Blank(q)
  <2>1. finals \in Seq(Seq(1 .. captured)) /\ q \in Seq(Seq(1 .. captured))
    BY <1>1 DEF Pieces
  <2>2. /\ In(began, finals \o q) = In(began, finals) \cup In(began, q)
        /\ Once(began, finals \o q) /\ finals \o q \in Seq(Seq(1 .. captured))
    BY <1>1, <2>1, Collected DEF Clear
  <2>3. Emitted(q) = finals \o q
    BY <1>3 DEF Emitted
  <2> QED BY <1>1, <2>2, <2>3 DEF Clear, Pieces
<1> QED BY <1>2, <1>3

\* What is emitted leaves the hands of the recogniser, but for sherpa's decoder.
LEMMA EmitFinalKeeps ==
  ASSUME IInv, CInv, EmitFinal
  PROVE  CInv'
<1>1. /\ UNCHANGED <<windows, pending, analysis, input, muted, began, captured, session>>
      /\ UNCHANGED <<engine, handle, intact, decoder, pcm, pendingText>>
      /\ pc = "emit" /\ pc' = IF engine = "sherpa" THEN "reset" ELSE "frames"
      /\ finals' = Emitted(text) /\ text' = <<>>
      /\ pcm = <<>> /\ pendingText = <<>>
      /\ engine # "sherpa" => decoder = <<>>
  BY DEF EmitFinal, gate, CInv, Control
<1>2. Own(Queue)' = Own(Queue) /\ Ahead' = Ahead /\ Muted' = Muted /\ Line'
  BY <1>1, GateStays DEF CInv
<1>3. /\ In(began, <<>>) = {} /\ Once(began, <<>>) /\ <<>> \in Pieces(captured)
      /\ Clear(began, <<>>, Ahead)
  BY NothingInEmpty, NoPieces DEF Clear
<1>4. /\ {finals, text, pendingText, decoder, pcm} \subseteq Pieces(captured)
      /\ Clear(began, text, Ahead) /\ Clear(began, decoder, Ahead)
      /\ In(began, finals) \cap In(began, text) = {}
      /\ captured \in Nat
  BY <1>1 DEF CInv, Sized, Apart, Own, IInv, TypeOK
<1>5. /\ In(began, finals') = In(began, finals) \cup In(began, text)
      /\ Clear(began, finals', Ahead) /\ finals' \in Pieces(captured)
  BY <1>1, <1>4, EmittedIs
<1>6. Sized'
  BY <1>1, <1>3, <1>4, <1>5, SizedStays DEF CInv
<1>7. Control'
  BY <1>1 DEF CInv, Control, Over
<1>8. Apart'
  <2>1. pc' # "reset" => In(began, decoder') = {}
    BY <1>1, <1>3
  <2> QED BY <1>1, <1>2, <1>3, <1>4, <1>5, <2>1 DEF Apart, Own
<1>9. Kept'
  <2>1. /\ Hand = In(began, text) /\ In(began, pcm) = {} /\ In(began, pcm') = {}
    BY <1>1, <1>3 DEF Hand, Own
  <2>2. intact => began .. captured \subseteq In(began, finals') \cup Ahead \cup Muted
    BY <1>1, <1>5, <2>1 DEF CInv, Kept, Own
  <2>3. pc' = "frames" => decoder' = <<>> /\ pendingText' = <<>>
    BY <1>1
  <2>4. pc' \notin {"gate", "accept", "tail"} \cup Over
    BY <1>1 DEF Over
  <2> QED BY <1>1, <1>2, <1>3, <2>1, <2>2, <2>3, <2>4 DEF CInv, Kept, Own
<1> QED BY <1>2, <1>6, <1>7, <1>8, <1>9 DEF CInv

\* The decoder lets go of what was captioned.
LEMMA ResetKeeps ==
  ASSUME IInv, CInv, Reset
  PROVE  CInv'
<1>1. /\ UNCHANGED <<windows, pending, analysis, input, muted, began, captured, session>>
      /\ UNCHANGED <<engine, handle, finals, intact, pcm, text, pendingText>>
      /\ pc = "reset" /\ pc' = "frames" /\ decoder' = <<>>
      /\ pcm = <<>> /\ pendingText = <<>> /\ text = <<>>
  BY DEF Reset, gate, history, local, CInv, Control
<1>2. Own(Queue)' = Own(Queue) /\ Ahead' = Ahead /\ Muted' = Muted /\ Line'
  BY <1>1, GateStays DEF CInv
<1>3. /\ In(began, <<>>) = {} /\ Once(began, <<>>) /\ <<>> \in Pieces(captured)
      /\ Clear(began, <<>>, Ahead)
  BY NothingInEmpty, NoPieces DEF Clear
<1>4. /\ {finals, text, pendingText, decoder, pcm} \subseteq Pieces(captured)
      /\ Clear(began, finals, Ahead)
  BY <1>1 DEF CInv, Sized, Apart, Own
<1>5. Sized'
  BY <1>1, <1>3, <1>4, SizedStays DEF CInv
<1>6. Control'
  BY <1>1 DEF CInv, Control, Over
<1>7. Apart'
  BY <1>1, <1>2, <1>3, <1>4 DEF Apart, Own
<1>8. Kept'
  <2>1. Hand = {} /\ In(began, pcm) = {}
    BY <1>1, <1>3 DEF Hand, Own
  <2>2. intact => began .. captured \subseteq In(began, finals) \cup Ahead \cup Muted
    BY <1>1, <2>1 DEF CInv, Kept, Own
  <2> QED BY <1>1, <1>2, <1>3, <2>2 DEF CInv, Kept, Own, Over
<1> QED BY <1>2, <1>5, <1>6, <1>7, <1>8 DEF CInv

\* A stream that is cancelled owes nothing.
LEMMA CancelKeeps ==
  ASSUME IInv, CInv, Cancel
  PROVE  CInv'
<1>1. /\ UNCHANGED <<windows, pending, analysis, input, muted, began, captured, session>>
      /\ UNCHANGED <<engine, handle, finals, pcm, decoder>>
      /\ pc' = "ended" /\ ~intact' /\ text' = <<>> /\ pendingText' = <<>>
      /\ pc \in {"frames", "emit", "last"} /\ pcm = <<>> /\ input = <<>>
  BY DEF Cancel, gate, CInv, Control
<1>2. Own(Queue)' = Own(Queue) /\ Ahead' = Ahead /\ Muted' = Muted /\ Line'
  BY <1>1, GateStays DEF CInv
<1>3. /\ In(began, <<>>) = {} /\ Once(began, <<>>) /\ <<>> \in Pieces(captured)
      /\ Clear(began, <<>>, Ahead)
  BY NothingInEmpty, NoPieces DEF Clear
<1>4. /\ {finals, text, pendingText, decoder, pcm} \subseteq Pieces(captured)
      /\ Clear(began, finals, Ahead) /\ Clear(began, decoder, Ahead)
  BY <1>1 DEF CInv, Sized, Apart, Own
<1>5. Sized'
  BY <1>1, <1>3, <1>4, SizedStays DEF CInv
<1>6. Control'
  BY <1>1 DEF Cancel, CInv, Control, Over
<1>7. Apart'
  BY <1>1, <1>2, <1>3, <1>4 DEF Apart, Own
<1>8. Kept'
  BY <1>1 DEF Kept
<1> QED BY <1>2, <1>5, <1>6, <1>7, <1>8 DEF CInv

\* The flushed tail joins the utterance that was open.
LEMMA AcceptTailKeeps ==
  ASSUME IInv, CInv, AcceptTail
  PROVE  CInv'
<1>1. /\ UNCHANGED <<windows, pending, analysis, input, muted, began, captured, session>>
      /\ UNCHANGED <<engine, handle, finals, intact, text>>
      /\ pc = "tail" /\ pc' = "last" /\ pcm' = <<>> /\ text = <<>> /\ input = <<>>
      /\ decoder' = IF handle THEN Heard ELSE decoder
      /\ pendingText' = IF handle /\ ~Blank(Heard) THEN Heard ELSE pendingText
      /\ engine = "sherpa" /\ (intact => handle)
  BY DEF AcceptTail, gate, history, CInv, Control
<1>2. Own(Queue)' = Own(Queue) /\ Ahead' = Ahead /\ Muted' = Muted /\ Line'
  BY <1>1, GateStays DEF CInv
<1>3. /\ In(began, <<>>) = {} /\ Once(began, <<>>) /\ <<>> \in Pieces(captured)
      /\ Clear(began, <<>>, Ahead)
  BY NothingInEmpty, NoPieces DEF Clear
<1>4. /\ In(began, Heard) = In(began, decoder) \cup In(began, pcm)
      /\ Heard \in Pieces(captured) /\ Clear(began, Heard, Ahead)
  BY HeardIs DEF Clear
<1>5. /\ {finals, text, pendingText, decoder, pcm} \subseteq Pieces(captured)
      /\ \A q \in {finals, pendingText, decoder} : Clear(began, q, Ahead)
      /\ \A q \in {text, pendingText, pcm} : In(began, finals) \cap In(began, q) = {}
      /\ In(began, finals) \cap In(began, decoder) = {}
  BY <1>1 DEF CInv, Sized, Apart, Own
<1>6. decoder' \in {decoder, Heard} /\ pendingText' \in {pendingText, Heard}
  BY <1>1
<1>7. Sized'
  BY <1>1, <1>3, <1>4, <1>5, <1>6, SizedStays DEF CInv
<1>8. Control'
  BY <1>1 DEF CInv, Control, Over
<1>9. Apart'
  <2>1. In(began, finals) \cap In(began, Heard) = {}
    BY <1>4, <1>5
  <2>2. /\ \A q \in {finals', text', pendingText', decoder', pcm'} :
             q \in {finals, <<>>, Heard, pendingText, decoder}
        /\ \A q \in {text', pendingText', pcm'} : q \in {<<>>, Heard, pendingText}
    BY <1>1, <1>6
  <2>3. In(began, finals) \cap In(began, <<>>) = {} /\ In(began, decoder') \cap In(began, pcm') = {}
    BY <1>1, <1>3
  <2> QED BY <1>1, <1>2, <1>3, <1>4, <1>5, <1>6, <2>1, <2>2, <2>3 DEF Apart, Own
<1>10. Kept'
  <2>1. ASSUME intact
        PROVE  In(began, pendingText') = In(began, Heard)
    <3>1. CASE Blank(Heard)
      <4>1. Heard \in Seq(Seq(Nat))
        BY <1>4, Samples DEF IInv, TypeOK
      <4>2. In(began, Heard) = {}
        BY <3>1, <4>1, NothingInBlank
      <4>3. In(began, pendingText) = In(began, decoder)
        BY <1>1, <2>1 DEF CInv, Kept, Own
      <4> QED BY <1>1, <1>4, <3>1, <4>2, <4>3
    <3>2. CASE ~Blank(Heard)
      BY <1>1, <2>1, <3>2
    <3> QED BY <3>1, <3>2
  <2>2. Hand' = In(began, pendingText') /\ Hand = In(began, decoder) /\ In(began, pcm') = {}
    BY <1>1, <1>3 DEF Hand, Own
  <2>3. intact => began .. captured \subseteq In(began, finals) \cup In(began, Heard) \cup Ahead \cup Muted
    BY <1>1, <1>4, <2>2 DEF CInv, Kept, Own
  <2>4. intact => In(began, Queue) = {}
    BY <1>1 DEF CInv, Kept, Own, Over
  <2> QED BY <1>1, <1>2, <2>1, <2>2, <2>3, <2>4 DEF Kept, Own
<1> QED BY <1>2, <1>7, <1>8, <1>9, <1>10 DEF CInv

\* The utterance that was open is the last final.
LEMMA EmitLastKeeps ==
  ASSUME IInv, CInv, EmitLast
  PROVE  CInv'
<1>1. /\ UNCHANGED <<windows, pending, analysis, input, muted, began, captured, session>>
      /\ UNCHANGED <<engine, handle, intact, decoder, pcm, text>>
      /\ pc = "last" /\ pc' = "ended"
      /\ finals' = Emitted(pendingText) /\ pendingText' = <<>>
      /\ pcm = <<>> /\ text = <<>> /\ input = <<>> /\ engine = "sherpa"
  BY DEF EmitLast, gate, CInv, Control
<1>2. Own(Queue)' = Own(Queue) /\ Ahead' = Ahead /\ Muted' = Muted /\ Line'
  BY <1>1, GateStays DEF CInv
<1>3. /\ In(began, <<>>) = {} /\ Once(began, <<>>) /\ <<>> \in Pieces(captured)
      /\ Clear(began, <<>>, Ahead)
  BY NothingInEmpty, NoPieces DEF Clear
<1>4. /\ {finals, text, pendingText, decoder, pcm} \subseteq Pieces(captured)
      /\ Clear(began, pendingText, Ahead) /\ Clear(began, decoder, Ahead)
      /\ In(began, finals) \cap In(began, pendingText) = {}
      /\ captured \in Nat
  BY <1>1 DEF CInv, Sized, Apart, Own, IInv, TypeOK
<1>5. /\ In(began, finals') = In(began, finals) \cup In(began, pendingText)
      /\ Clear(began, finals', Ahead) /\ finals' \in Pieces(captured)
  BY <1>1, <1>4, EmittedIs
<1>6. Sized'
  BY <1>1, <1>3, <1>4, <1>5, SizedStays DEF CInv
<1>7. Control'
  BY <1>1 DEF CInv, Control, Over
<1>8. Apart'
  BY <1>1, <1>2, <1>3, <1>4, <1>5 DEF Apart, Own
<1>9. Kept'
  <2>1. /\ Hand = In(began, pendingText) /\ Hand' = {}
        /\ In(began, pcm) = {} /\ In(began, pcm') = {}
    BY <1>1, <1>3 DEF Hand, Own
  <2>2. intact => began .. captured \subseteq In(began, finals') \cup Ahead \cup Muted
    BY <1>1, <1>5, <2>1 DEF CInv, Kept, Own
  <2>3. intact => In(began, Queue) = {}
    BY <1>1 DEF CInv, Kept, Own, Over
  <2> QED BY <1>1, <1>2, <2>1, <2>2, <2>3 DEF Kept, Own
<1> QED BY <1>2, <1>6, <1>7, <1>8, <1>9 DEF CInv

-----------------------------------------------------------------------------
(* The calls of the session, and the frames.                               *)

\* A preparation meets no stream, only what one has left.
LEMMA PrepareKeeps ==
  ASSUME IInv, CInv, Prepare
  PROVE  CInv'
<1>1. /\ UNCHANGED <<windows, pending, analysis, input, muted, began, captured>>
      /\ UNCHANGED <<engine, finals, intact, pcm, text, pendingText, pc>>
      /\ pc = "ended" /\ decoder' = <<>> /\ handle' \in BOOLEAN /\ session' \in {session, TRUE}
      /\ pcm = <<>> /\ text = <<>> /\ input = <<>>
  BY DEF Prepare, PrepareGate, history, local, CInv, Control
<1>2. Own(Queue)' = Own(Queue) /\ Ahead' = Ahead /\ Muted' = Muted /\ Line'
  BY <1>1, GateStays DEF CInv
<1>3. /\ In(began, <<>>) = {} /\ Once(began, <<>>) /\ <<>> \in Pieces(captured)
      /\ Clear(began, <<>>, Ahead)
  BY NothingInEmpty, NoPieces DEF Clear
<1>4. /\ {finals, text, pendingText, decoder, pcm} \subseteq Pieces(captured)
      /\ Clear(began, finals, Ahead) /\ Clear(began, pendingText, Ahead)
      /\ In(began, finals) \cap In(began, pendingText) = {}
  BY <1>1 DEF CInv, Sized, Apart, Own
<1>5. Sized'
  BY <1>1, <1>3, <1>4, SizedStays DEF CInv
<1>6. Control'
  <2>1. session' \in BOOLEAN
    BY <1>1 DEF CInv, Control
  <2> QED BY <1>1, <2>1 DEF CInv, Control, Over
<1>7. Apart'
  BY <1>1, <1>2, <1>3, <1>4 DEF Apart, Own
<1>8. Kept'
  <2>1. Hand = {} /\ Hand' = {}
    BY <1>1 DEF Hand
  <2>3. ~session' => ~session
    BY <1>1
  <2>2. In(began, pcm) = {} /\ In(began, pcm') = {}
    BY <1>1, <1>3
  <2> QED BY <1>1, <1>2, <2>1, <2>2, <2>3 DEF CInv, Kept, Own
<1> QED BY <1>2, <1>5, <1>6, <1>7, <1>8 DEF CInv

\* An engine that is released drops what its gate had queued.
LEMMA ReleaseKeeps ==
  ASSUME IInv, CInv, Release
  PROVE  CInv'
<1>1. /\ UNCHANGED <<windows, analysis, input, muted, began, captured>>
      /\ UNCHANGED <<engine, finals, pcm, text, pendingText, pc>>
      /\ decoder' = <<>> /\ handle' = FALSE /\ session' = FALSE /\ intact' = FALSE
      /\ pending' = <<>>
  BY DEF Release, ReleaseGate, local
<1>2. /\ In(began, <<>>) = {} /\ Once(began, <<>>) /\ <<>> \in Pieces(captured)
      /\ \A set : Clear(began, <<>>, set)
  BY NothingInEmpty, NoPieces DEF Clear
<1>3. Once(began, Queue') /\ In(began, Queue') = {}
  <2>1. DOMAIN Queue' = {}
    BY <1>1 DEF Queue
  <2> QED BY <2>1 DEF Once, In
<1>4. Line' /\ Ahead' \subseteq Ahead
  BY <1>1, <1>3 DEF CInv, Line, Ahead, Own
<1>5. /\ {finals, text, pendingText, decoder, pcm} \subseteq Pieces(captured)
      /\ \A q \in {finals, text, pendingText, pcm} : Clear(began, q, Ahead)
      /\ \A q \in {text, pendingText, pcm} : In(began, finals) \cap In(began, q) = {}
  BY DEF CInv, Sized, Apart, Own
<1>6. Sized'
  BY <1>1, <1>2, <1>5, SizedStays DEF CInv
<1>7. Control'
  BY <1>1 DEF CInv, Control
<1>8. Apart'
  <2>1. \A q \in {finals, text, pendingText, pcm} : Clear(began, q, Ahead')
    BY <1>4, <1>5 DEF Clear
  <2> QED BY <1>1, <1>2, <1>5, <2>1 DEF Apart, Own
<1>9. Kept'
  BY <1>1 DEF Kept
<1> QED BY <1>4, <1>6, <1>7, <1>8, <1>9 DEF CInv

\* Nothing that was there before is of the new stream.
LEMMA TranscribeKeeps ==
  ASSUME IInv, CInv, Transcribe
  PROVE  CInv'
<1>1. /\ UNCHANGED <<session, windows, pending, analysis, input, muted, captured>>
      /\ UNCHANGED <<engine, handle, pcm, text, pendingText, decoder>>
      /\ pc = "ended" /\ handle /\ pc' = "frames" /\ intact' = TRUE
      /\ finals' = <<>> /\ began' = captured + 1
      /\ pcm = <<>> /\ text = <<>> /\ input = <<>>
  BY DEF Transcribe, gate, local, CInv, Control
<1>2. captured \in Nat
  BY DEF IInv, TypeOK
<1>3. /\ {text, pendingText, decoder, pcm, finals'} \subseteq Pieces(captured)
      /\ {analysis, input} \subseteq Seq(1 .. captured)
      /\ \A n \in DOMAIN windows : windows[n].samples \in Seq(1 .. captured)
  BY <1>1, NoPieces DEF CInv, Sized
<1>4. Queue' = Queue /\ Queue \in Pieces(captured)
  BY <1>1, QueueIsPieces DEF Queue, CInv
<1>5. /\ \A p \in Seq(1 .. captured) : Of(began', p) = {} /\ Single(began', p)
      /\ \A q \in Pieces(captured) : In(began', q) = {} /\ Once(began', q)
  BY <1>1, <1>2, NothingOwn
<1>6. /\ In(began', Queue') = {} /\ Once(began', Queue')
      /\ Of(began', analysis') = {} /\ Single(began', analysis')
      /\ Of(began', input') = {} /\ Single(began', input')
  BY <1>1, <1>3, <1>4, <1>5
<1>7. Line' /\ Ahead' = {}
  BY <1>6 DEF Line, Ahead, Own
<1>8. Sized'
  BY <1>1, <1>2, <1>3 DEF Sized
<1>9. Control'
  BY <1>1 DEF CInv, Control
<1>10. Apart'
  <2>1. \A q \in Pieces(captured) : Clear(began', q, Ahead')
    BY <1>5, <1>7 DEF Clear
  <2> QED BY <1>1, <1>3, <1>5, <2>1 DEF Apart, Own
<1>11. Kept'
  <2>1. began' .. captured' = {}
    BY <1>1, <1>2
  <2>2. In(began', pendingText') = {} /\ In(began', decoder') = {}
    BY <1>1, <1>3, <1>5
  <2> QED BY <1>1, <1>6, <2>1, <2>2 DEF Kept, Own, Over
<1> QED BY <1>7, <1>8, <1>9, <1>10, <1>11 DEF CInv

\* What pieces hold was captured.
LEMMA InPieces ==
  ASSUME NEW b, NEW c \in Nat
  PROVE  /\ \A p \in Seq(1 .. c) : Of(b, p) \subseteq 1 .. c
         /\ \A q \in Pieces(c) : In(b, q) \subseteq 1 .. c
<1>1. \A p \in Seq(1 .. c) : \A i \in DOMAIN p : p[i] \in 1 .. c
  BY ElementOfSeq
<1>2. \A p \in Seq(1 .. c) : Of(b, p) \subseteq 1 .. c
  BY <1>1 DEF Of, Range
<1>3. \A q \in Pieces(c) : \A k \in DOMAIN q : q[k] \in Seq(1 .. c)
  BY ElementOfSeq DEF Pieces
<1> QED BY <1>2, <1>3 DEF In

\* The samples of a frame are new, and are all that is.
Fresh(frame, c, size) == frame = [i \in 1 .. size |-> c + i]

LEMMA FrameIsFresh ==
  ASSUME NEW b \in Nat, NEW c \in Nat, NEW size \in Nat, NEW frame, Fresh(frame, c, size)
  PROVE  /\ frame \in Seq(1 .. c + size) /\ Single(b, frame)
         /\ Of(b, frame) \cap 1 .. c = {}
         /\ b .. c + size \subseteq b .. c \cup Of(b, frame)
<1>1. /\ DOMAIN frame = 1 .. size
      /\ \A i \in 1 .. size : frame[i] = c + i /\ c + i \in 1 .. c + size
  BY DEF Fresh
<1>2. frame \in Seq(1 .. c + size)
  <2> DEFINE S == 1 .. c + size
  <2>1. \A i \in 1 .. size : c + i \in S
    OBVIOUS
  <2>2. frame = [i \in 1 .. size |-> c + i]
    BY DEF Fresh
  <2> HIDE DEF S
  <2>3. frame \in Seq(S)
    BY <2>1, <2>2
  <2> QED BY <2>3 DEF S
<1>3. Single(b, frame)
  BY <1>1 DEF Single
<1>4. Of(b, frame) \cap 1 .. c = {}
  <2>1. \A i \in 1 .. size : frame[i] \notin 1 .. c
    BY <1>1
  <2> QED BY <1>1, <2>1 DEF Of, Range
<1>5. ASSUME NEW x \in b .. c + size, x \notin b .. c
      PROVE  x \in Of(b, frame)
  <2>1. x - c \in 1 .. size /\ x = c + (x - c) /\ x >= b
    BY <1>5
  <2>2. x = frame[x - c]
    BY <1>1, <2>1
  <2>3. x \in Range(frame)
    BY <1>1, <2>1, <2>2 DEF Range
  <2> QED BY <2>1, <2>3 DEF Of
<1> QED BY <1>2, <1>3, <1>4, <1>5

\* A frame is new, and goes to the gate or to the decoder.
LEMMA FrameKeeps ==
  ASSUME IInv, CInv, NEW size \in 1 .. MaxFrame, Frame(size)
  PROVE  CInv'
<1> DEFINE frame == [i \in 1 .. size |-> captured + i]
<1>1. /\ UNCHANGED <<session, windows, pending, analysis, muted, began>>
      /\ UNCHANGED <<engine, handle, finals, intact, text, pendingText, decoder>>
      /\ pc = "frames" /\ captured' = captured + size
      /\ pcm = <<>> /\ text = <<>> /\ input = <<>>
      /\ \/ session /\ pc' = "gate" /\ input' = frame /\ pcm' = pcm
         \/ ~session /\ pc' = "accept" /\ pcm' = <<frame>> /\ input' = input
  BY DEF Frame, CInv, Control
<1>2. captured \in Nat /\ size \in Nat /\ began \in Nat /\ captured <= captured'
  <2>1. MaxFrame \in Nat /\ captured \in Nat /\ began \in Nat
    BY StreamAssumption DEF StreamAssumption, IInv, TypeOK, CInv, Sized
  <2>2. size \in Nat
    BY <2>1
  <2>3. captured <= captured + size
    BY <2>1, <2>2
  <2> QED BY <1>1, <2>1, <2>2, <2>3
<1>3. /\ frame \in Seq(1 .. captured') /\ Single(began, frame)
      /\ Of(began, frame) \cap 1 .. captured = {}
      /\ began .. captured' \subseteq began .. captured \cup Of(began, frame)
  <2>1. Fresh(frame, captured, size)
    BY DEF Fresh
  <2> HIDE DEF frame
  <2> QED BY <1>1, <1>2, <2>1, FrameIsFresh
<1> HIDE DEF frame
<1>4. /\ {finals, text, pendingText, decoder, pcm, Queue} \subseteq Pieces(captured)
      /\ {analysis, input} \subseteq Seq(1 .. captured)
      /\ \A n \in DOMAIN windows : windows[n].samples \in Seq(1 .. captured)
  BY QueueIsPieces DEF CInv, Sized
<1>5. Seq(1 .. captured) \subseteq Seq(1 .. captured') /\ Pieces(captured) \subseteq Pieces(captured')
  BY <1>1, <1>2, MorePieces
<1>6. /\ \A q \in {finals, text, pendingText, decoder, pcm, Queue} : In(began, q) \cap Of(began, frame) = {}
      /\ Of(began, analysis) \cap Of(began, frame) = {}
  <2>1. /\ \A q \in {finals, text, pendingText, decoder, pcm, Queue} : In(began, q) \subseteq 1 .. captured
        /\ Of(began, analysis) \subseteq 1 .. captured
    BY <1>2, <1>4, InPieces
  <2> QED BY <1>3, <2>1
<1>7. /\ \A q \in {finals, text, pendingText, decoder} : Clear(began, q, Ahead)
      /\ In(began, finals) \cap In(began, text) = {}
      /\ In(began, finals) \cap In(began, pendingText) = {}
      /\ In(began, finals) \cap In(began, decoder) = {}
  BY <1>1 DEF CInv, Apart, Own
<1>8. /\ In(began, <<>>) = {} /\ Once(began, <<>>)
      /\ Of(began, <<>>) = {} /\ Single(began, <<>>)
      /\ \A set : Clear(began, <<>>, set)
  BY NothingInEmpty DEF Clear
<1>9. Queue' = Queue
  BY <1>1 DEF Queue
<1>10. Hand = In(began, decoder) /\ Hand' = In(began, decoder)
  BY <1>1 DEF Hand, Own
<1>11. intact => began .. captured \subseteq In(began, finals) \cup In(began, decoder) \cup Ahead \cup Muted
  BY <1>1, <1>8, <1>10 DEF CInv, Kept, Own
<1>12. Muted' = Muted
  BY <1>1 DEF Muted
<1>13. ASSUME session, pc' = "gate", input' = frame, pcm' = pcm
       PROVE  CInv'
  <2>1. Line'
    BY <1>1, <1>3, <1>6, <1>9, <1>13 DEF CInv, Line, Own
  <2>2. Ahead' = Ahead \cup Of(began, frame)
    BY <1>1, <1>8, <1>9, <1>13 DEF Ahead, Own
  <2>3. Sized'
    <3>1. {finals, text, pendingText, decoder, pcm}' \subseteq Pieces(captured')
      BY <1>1, <1>4, <1>5, <1>13
    <3>2. {analysis, input}' \subseteq Seq(1 .. captured')
      BY <1>1, <1>3, <1>4, <1>5, <1>13
    <3>3. \A n \in DOMAIN windows' : windows'[n].samples \in Seq(1 .. captured')
      BY <1>1, <1>4, <1>5
    <3> QED BY <1>1, <1>2, <3>1, <3>2, <3>3 DEF Sized
  <2>4. Control'
    BY <1>1, <1>13 DEF CInv, Control, Over
  <2>5. Apart'
    <3>1. \A q \in {finals, text, pendingText, decoder, <<>>} : Clear(began, q, Ahead')
      BY <1>6, <1>7, <1>8, <2>2 DEF Clear
    <3> QED BY <1>1, <1>7, <1>8, <1>13, <3>1 DEF Apart, Own
  <2>6. Kept'
    <3>1. intact => began .. captured' \subseteq
                      In(began, finals) \cup In(began, decoder) \cup Ahead' \cup Muted
      BY <1>3, <1>11, <2>2
    <3>2. intact => In(began, pendingText) = In(began, decoder)
      BY <1>1 DEF CInv, Kept, Own
    <3> QED BY <1>1, <1>8, <1>10, <1>12, <1>13, <3>1, <3>2 DEF Kept, Own, Over
  <2> QED BY <2>1, <2>3, <2>4, <2>5, <2>6 DEF CInv
<1>14. ASSUME ~session, pc' = "accept", pcm' = <<frame>>, input' = input
       PROVE  CInv'
  <2>1. Line' /\ Ahead' = Ahead
    BY <1>1, <1>9, <1>14 DEF CInv, Line, Ahead, Own
  <2>2. /\ In(began, pcm') = Of(began, frame) /\ Once(began, pcm') /\ pcm' \in Pieces(captured')
    <3>1. DOMAIN <<frame>> = {1} /\ <<frame>>[1] = frame
      OBVIOUS
    <3>2. pcm' \in Pieces(captured')
      BY <1>3, <1>14 DEF Pieces
    <3> QED BY <1>3, <1>14, <3>1, <3>2 DEF In, Once
  <2>3. Sized'
    <3>1. {finals, text, pendingText, decoder, pcm}' \subseteq Pieces(captured')
      BY <1>1, <1>4, <1>5, <2>2
    <3>2. {analysis, input}' \subseteq Seq(1 .. captured')
      BY <1>1, <1>4, <1>5, <1>14
    <3>3. \A n \in DOMAIN windows' : windows'[n].samples \in Seq(1 .. captured')
      BY <1>1, <1>4, <1>5
    <3> QED BY <1>1, <1>2, <3>1, <3>2, <3>3 DEF Sized
  <2>4. Control'
    BY <1>1, <1>14 DEF CInv, Control, Over
  <2>5. Apart'
    <3>1. Clear(began, pcm', Ahead)
      BY <1>1, <1>6, <1>8, <2>2 DEF Clear, Ahead, Own
    <3> QED BY <1>1, <1>6, <1>7, <2>1, <2>2, <3>1 DEF Apart, Own
  <2>6. Kept'
    <3>1. intact => began .. captured' \subseteq
                      In(began, finals) \cup In(began, decoder) \cup In(began, pcm') \cup Ahead \cup Muted
      BY <1>3, <1>11, <2>2
    <3>2. intact => In(began, pendingText) = In(began, decoder)
      BY <1>1 DEF CInv, Kept, Own
    <3>3. intact => In(began, Queue) = {}
      BY <1>14 DEF CInv, Kept, Own
    <3> QED BY <1>1, <1>9, <1>10, <1>12, <1>14, <2>1, <3>1, <3>2, <3>3 DEF Kept, Own, Over
  <2> QED BY <2>1, <2>3, <2>4, <2>5, <2>6 DEF CInv
<1> QED BY <1>1, <1>13, <1>14

\* In the gate, what is ahead stays ahead until windows leave the queue.
LEMMA GateKeeps ==
  ASSUME IInv, CInv, Gate
  PROVE  CInv'
<1>1. /\ UNCHANGED <<began, captured, engine, handle, finals, intact, text, pendingText, decoder, pcm>>
      /\ pc = "gate" /\ pc' = pc /\ session' = session
      /\ pcm = <<>> /\ text = <<>>
  BY DEF Gate, Fill, Judge, history, local, CInv, Control
<1>2. /\ Line' /\ Ahead' = Ahead /\ Muted \subseteq Muted'
      /\ {analysis, input}' \subseteq Seq(1 .. captured)
      /\ \A n \in DOMAIN windows' : windows'[n].samples \in Seq(1 .. captured)
  <2>1. CASE Fill
    <3>1. Line' /\ Ahead' = Ahead /\ analysis' \in Seq(1 .. captured)
      BY <1>1, <2>1, FillMoves DEF CInv
    <3>2. input' = <<>> /\ UNCHANGED <<windows, muted>>
      BY <2>1 DEF Fill
    <3> QED BY <3>1, <3>2 DEF CInv, Sized, Muted
  <2>2. CASE Judge(stream)
    BY <1>1, <2>2, JudgeMoves DEF CInv
  <2> QED BY <2>1, <2>2 DEF Gate
<1>3. Sized'
  BY <1>1, <1>2 DEF CInv, Sized
<1>4. Control'
  BY <1>1 DEF CInv, Control, Over
<1>5. Apart'
  BY <1>1, <1>2 DEF CInv, Apart, Own
<1>6. Kept'
  <2>1. Hand = In(began, decoder) /\ Hand' = In(began, decoder)
    BY <1>1 DEF Hand, Own
  <2>2. intact => began .. captured \subseteq
                    In(began, finals) \cup In(began, decoder) \cup In(began, pcm) \cup Ahead \cup Muted
    BY <1>1, <2>1 DEF CInv, Kept, Own
  <2>3. intact => session /\ In(began, pendingText) = In(began, decoder)
    BY <1>1 DEF CInv, Control, Kept, Own
  <2> QED BY <1>1, <1>2, <2>1, <2>2, <2>3 DEF Kept, Own, Over
<1> QED BY <1>2, <1>3, <1>4, <1>5, <1>6 DEF CInv

\* Windows that leave the queue are for the decoder, unless they are muted.
LEMMA DrainIsApart ==
  ASSUME IInv, CInv, NEW keep \in Nat, Drain(keep, pcm'), pc \notin {"reset", "ended"},
         UNCHANGED <<captured, began, finals, text, pendingText, decoder>>
  PROVE  Sized' /\ Line' /\ Apart'
<1>1. /\ Line' /\ Ahead' \subseteq Ahead
      /\ pcm' \in Pieces(captured)
      /\ Once(began, pcm') /\ In(began, pcm') \subseteq Ahead
      /\ In(began, pcm') \cap Ahead' = {}
  BY DrainMoves DEF CInv
<1>2. Sized'
  <2>1. UNCHANGED <<windows, analysis, input>>
    BY DEF Drain
  <2>2. {finals, text, pendingText, decoder} \subseteq Pieces(captured)
    BY DEF CInv, Sized
  <2> QED BY <1>1, <2>1, <2>2, SizedStays DEF CInv
<1>3. /\ \A q \in {finals, text, pendingText, decoder} : Clear(began, q, Ahead)
      /\ In(began, finals) \cap In(began, text) = {}
      /\ In(began, finals) \cap In(began, pendingText) = {}
      /\ In(began, finals) \cap In(began, decoder) = {}
  BY DEF CInv, Apart, Own
<1>4. \A q \in {finals, text, pendingText, decoder, pcm'} : Clear(began, q, Ahead')
  BY <1>1, <1>3 DEF Clear
<1>5. In(began, finals) \cap In(began, pcm') = {} /\ In(began, decoder) \cap In(began, pcm') = {}
  BY <1>1, <1>3 DEF Clear
<1>6. Apart'
  BY <1>3, <1>4, <1>5 DEF Apart, Own
<1> QED BY <1>1, <1>2, <1>6

\* The windows that process returns, and nothing else, go to the decoder.
LEMMA GatedKeeps ==
  ASSUME IInv, CInv, Gated
  PROVE  CInv'
<1>1. /\ UNCHANGED <<began, captured, engine, handle, finals, intact, text, pendingText, decoder, session>>
      /\ pc = "gate" /\ pc' = IF pcm' = <<>> THEN "frames" ELSE "accept"
      /\ pcm = <<>> /\ text = <<>> /\ input = <<>> /\ input' = input
      /\ Drain(LookaheadWindows, pcm') /\ LookaheadWindows \in Nat
  BY GateAssumption DEF Gated, Drain, history, CInv, Control, GateAssumption
<1>2. Sized' /\ Line' /\ Apart'
  BY <1>1, DrainIsApart
<1>3. /\ Own(Queue)' \subseteq Own(Queue) /\ Muted \subseteq Muted'
      /\ Ahead \subseteq In(began, pcm') \cup Ahead' \cup Muted'
  BY <1>1, DrainMoves DEF CInv
<1>4. Control'
  BY <1>1 DEF CInv, Control, Over
<1>5. Kept'
  <2>1. Hand = In(began, decoder) /\ Hand' = In(began, decoder) /\ In(began, pcm) = {}
    BY <1>1, NothingInEmpty DEF Hand, Own
  <2>2. intact => began .. captured \subseteq
                    In(began, finals) \cup In(began, decoder) \cup Ahead \cup Muted
    BY <1>1, <2>1 DEF CInv, Kept, Own
  <2>3. intact => session /\ In(began, pendingText) = In(began, decoder)
    BY <1>1 DEF CInv, Control, Kept, Own
  <2>4. intact => began .. captured \subseteq
                    In(began, finals) \cup In(began, decoder) \cup In(began, pcm') \cup Ahead' \cup Muted'
    BY <1>3, <2>2
  <2> QED BY <1>1, <2>1, <2>3, <2>4 DEF Kept, Own, Over
<1> QED BY <1>2, <1>4, <1>5 DEF CInv

\* The flush empties the queue; without a VAD there was nothing of the stream in it.
LEMMA EndOfAudioKeeps ==
  ASSUME IInv, CInv, EndOfAudio
  PROVE  CInv'
<1>1. /\ UNCHANGED <<began, captured, engine, handle, finals, intact, text, decoder>>
      /\ pc = "frames" /\ pcm = <<>> /\ text = <<>> /\ input = <<>>
  BY DEF EndOfAudio, history, CInv, Control
<1>2. /\ In(began, <<>>) = {} /\ Once(began, <<>>) /\ <<>> \in Pieces(captured)
      /\ Clear(began, <<>>, Ahead)
  BY NothingInEmpty, NoPieces DEF Clear
<1>3. /\ {finals, text, pendingText, decoder, pcm} \subseteq Pieces(captured)
      /\ \A q \in {finals, text, pendingText, decoder} : Clear(began, q, Ahead)
      /\ In(began, finals) \cap In(began, text) = {}
      /\ In(began, finals) \cap In(began, pendingText) = {}
      /\ In(began, finals) \cap In(began, decoder) = {}
  BY <1>1 DEF CInv, Sized, Apart, Own
<1>4. Hand = In(began, decoder) /\ In(began, pcm) = {}
  BY <1>1, <1>2 DEF Hand, Own
<1>5. /\ intact => In(began, pendingText) = In(began, decoder)
      /\ intact => began .. captured \subseteq In(began, finals) \cup In(began, decoder) \cup Ahead \cup Muted
      /\ intact /\ ~session => In(began, Queue) = {}
  BY <1>1, <1>4 DEF CInv, Kept, Own
<1>6. CASE engine = "vosk" \/ ~session
  <2>1. /\ UNCHANGED <<windows, pending, analysis, input, muted, session>> /\ pcm' = <<>>
        /\ \/ engine = "vosk" /\ pc' = "ended" /\ pendingText' = <<>>
           \/ engine = "sherpa" /\ ~session /\ pc' = "last" /\ pendingText' = pendingText
    BY <1>1, <1>6 DEF EndOfAudio, gate, CInv, Control
  <2>2. Own(Queue)' = Own(Queue) /\ Ahead' = Ahead /\ Muted' = Muted /\ Line'
    BY <1>1, <2>1, GateStays DEF CInv
  <2>3. pendingText' \in {<<>>, pendingText}
    BY <2>1
  <2>4. Sized'
    BY <1>1, <1>2, <1>3, <2>1, <2>3, SizedStays DEF CInv
  <2>5. Control'
    BY <1>1, <2>1 DEF CInv, Control, Over
  <2>6. Apart'
    BY <1>1, <1>2, <1>3, <2>1, <2>2, <2>3 DEF Apart, Own
  <2>7. Kept'
    <3>1. CASE engine = "vosk" /\ pc' = "ended"
      BY <1>1, <1>5, <2>1, <2>2, <3>1 DEF Kept, Own
    <3>2. CASE engine = "sherpa" /\ ~session /\ pc' = "last" /\ pendingText' = pendingText
      <4>1. Hand' = In(began, pendingText)
        BY <1>1, <3>2 DEF Hand, Own
      <4> QED BY <1>1, <1>5, <2>1, <2>2, <3>2, <4>1 DEF Kept, Own
    <3> QED BY <2>1, <3>1, <3>2
  <2> QED BY <2>2, <2>4, <2>5, <2>6, <2>7 DEF CInv
<1>7. CASE engine = "sherpa" /\ session
  <2>1. /\ pendingText' = pendingText /\ Drain(0, pcm') /\ UNCHANGED <<input, session>>
        /\ pc' = IF pcm' = <<>> THEN "last" ELSE "tail"
    BY <1>7 DEF EndOfAudio, Drain
  <2>2. Sized' /\ Line' /\ Apart'
    BY <1>1, <2>1, DrainIsApart
  <2>3. /\ Own(Queue)' = {} /\ Muted \subseteq Muted'
        /\ Ahead \subseteq In(began, pcm') \cup Ahead' \cup Muted'
    BY <1>1, <2>1, DrainMoves DEF CInv
  <2>4. Control'
    BY <1>1, <1>7, <2>1 DEF CInv, Control, Over
  <2>5. Kept'
    <3>1. intact => began .. captured \subseteq
                      In(began, finals) \cup In(began, decoder) \cup In(began, pcm') \cup Ahead' \cup Muted'
      BY <1>5, <2>3
    <3>2. Hand' = IF pc' = "last" THEN In(began, pendingText) ELSE In(began, decoder)
      BY <1>1, <2>1 DEF Hand, Own
    <3>3. intact => Hand' = In(began, decoder)
      BY <1>5, <3>2
    <3> QED BY <1>1, <1>5, <2>1, <2>3, <3>1, <3>3 DEF Kept, Own
  <2> QED BY <2>2, <2>4, <2>5 DEF CInv
<1> QED BY <1>6, <1>7 DEF CInv, Control

-----------------------------------------------------------------------------

LEMMA InitCInv == Init => CInv
<1> SUFFICES ASSUME Init PROVE CInv
  OBVIOUS
<1>1. /\ session = FALSE /\ input = <<>> /\ analysis = <<>> /\ pending = <<>> /\ windows = <<>>
      /\ handle = FALSE /\ decoder = <<>> /\ pc = "ended" /\ pcm = <<>> /\ text = <<>>
      /\ pendingText = <<>> /\ captured = 0 /\ began = 1 /\ finals = <<>> /\ intact = FALSE
      /\ engine \in {"sherpa", "vosk"}
  BY DEF Init, GateInit
<1>2. /\ In(began, <<>>) = {} /\ Once(began, <<>>) /\ <<>> \in Pieces(captured)
      /\ Of(began, <<>>) = {} /\ Single(began, <<>>)
      /\ \A set : Clear(began, <<>>, set)
  BY NothingInEmpty, NoPieces DEF Clear
<1>3. Queue = <<>>
  BY <1>1 DEF Queue
<1>4. Sized
  <2>1. \A n \in DOMAIN windows : FALSE
    BY <1>1
  <2>2. <<>> \in Seq(1 .. captured)
    OBVIOUS
  <2> QED BY <1>1, <1>2, <2>1, <2>2 DEF Sized
<1>5. Line
  BY <1>1, <1>2, <1>3 DEF Line, Own
<1>6. Control
  BY <1>1 DEF Control, Over
<1>7. Apart
  BY <1>1, <1>2 DEF Apart, Own
<1>8. Kept
  BY <1>1 DEF Kept
<1> QED BY <1>4, <1>5, <1>6, <1>7, <1>8 DEF CInv

LEMMA NextCInv ==
  ASSUME IInv, CInv, [Next]_vars
  PROVE  CInv'
<1>1. CASE UNCHANGED vars
  <2>1. Queue' = Queue
    BY <1>1 DEF vars, gate, Queue
  <2> QED BY <1>1, <2>1 DEF CInv, Sized, Line, Control, Apart, Kept, Own, Ahead, Hand, Muted,
                            vars, gate, local, history
<1>2. CASE Next
  BY <1>2, PrepareKeeps, ReleaseKeeps, TranscribeKeeps, CancelKeeps, FrameKeeps, GateKeeps,
     GatedKeeps, AcceptKeeps, ResultKeeps, EmitFinalKeeps, ResetKeeps, EndOfAudioKeeps,
     AcceptTailKeeps, EmitLastKeeps DEF Next
<1> QED BY <1>1, <1>2

\* What the invariant says of finals, at any time and at the end.
LEMMA CInvImplies ==
  ASSUME CInv
  PROVE  StreamIsCaptioned
<1>1. Once(began, finals)
  BY DEF CInv, Apart, Clear
<1>2. ASSUME NEW k \in DOMAIN finals, NEW l \in DOMAIN finals,
             NEW i \in DOMAIN finals[k], NEW j \in DOMAIN finals[l],
             finals[k][i] = finals[l][j], finals[k][i] >= began
      PROVE  k = l /\ i = j
  <2>1. finals[k][i] \in Of(began, finals[k]) /\ finals[k][i] \in Of(began, finals[l])
    BY <1>2 DEF Of, Range
  <2>2. k = l
    BY <1>1, <2>1 DEF Once
  <2>3. Single(began, finals[k])
    BY <1>1 DEF Once
  <2> QED BY <1>2, <2>2, <2>3 DEF Single
<1>3. ASSUME pc = "ended", intact, engine = "sherpa"
      PROVE  began .. captured \subseteq Captions \cup Range(analysis) \cup Muted
  <2>1. /\ pcm = <<>> /\ input = <<>> /\ In(began, Queue) = {}
    BY <1>3 DEF CInv, Control, Kept, Own, Over
  <2>2. In(began, pcm) = {} /\ Of(began, input) = {} /\ Hand = {}
    BY <1>3, <2>1, NothingInEmpty DEF Hand
  <2>3. began .. captured \subseteq In(began, finals) \cup Of(began, analysis) \cup Muted
    BY <1>3, <2>1, <2>2 DEF CInv, Kept, Ahead, Own
  <2>4. In(began, finals) \subseteq Captions /\ Of(began, analysis) \subseteq Range(analysis)
    BY DEF In, Of, Captions
  <2> QED BY <2>3, <2>4
<1> QED BY <1>2, <1>3 DEF StreamIsCaptioned

\* What a stream captures is captioned once, whatever the decoder takes for the
\* end of an utterance and whenever the engine is released or the collector
\* cancelled; and all of it, but for what the gate mutes and its last window,
\* when the stream comes to the end of its audio.
THEOREM StreamsAreCaptioned == Spec => []StreamIsCaptioned
<1>1. Init => IInv /\ CInv
  BY InitIInv, InitCInv
<1>2. IInv /\ CInv /\ [Next]_vars => (IInv /\ CInv)'
  BY NextIInv, NextCInv
<1>3. IInv /\ CInv => StreamIsCaptioned
  BY CInvImplies
<1> QED BY <1>1, <1>2, <1>3, PTL DEF Spec

=============================================================================
