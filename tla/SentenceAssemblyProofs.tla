------------------------ MODULE SentenceAssemblyProofs ------------------------
(***************************************************************************)
(* Proofs that no word is lost, captioned twice or captioned out of order  *)
(* on its way from the recogniser to translation: for any speech, any      *)
(* limits, and any interleaving of the collector with the idle flushes.    *)
(*                                                                         *)
(* What is captioned and what is about to be, one sentence after another,  *)
(* is the line: its sentences follow one another in the speech.  Up to the *)
(* final that is being assembled the words 1 .. b were said.  Each of them *)
(* is in the line, in the pool or with a flush, in the pool in order and   *)
(* after the line; what partials committed is the pool and the words that  *)
(* follow b (UpTo).  The final is the words after b, with those it repeats *)
(* before them: stripping takes off exactly these, because the extractor   *)
(* remembers the last of 1 .. b.                                           *)
(*                                                                         *)
(* This holds of the pipelines that are Steady, until the recogniser has   *)
(* strayed from what it said: the theorems say so in the properties they   *)
(* are about.                                                              *)
(***************************************************************************)
EXTENDS SentenceAssembly, FiniteSetTheorems, SequenceTheorems, TLAPS

Tokens == [word : Nat, stop : BOOLEAN, capital : BOOLEAN]
Texts == Seq(Tokens)
Handings == {"early", "closed", "final", "flush"}

Rising(s) == \A i, j \in DOMAIN s : i < j => s[i] < s[j]
Before(s, t) == \A i \in DOMAIN s, j \in DOMAIN t : s[i] < t[j]

\* The n numbers after b.
Run(b, n) == [i \in 1 .. n |-> b + i]

\* Of the words 1 .. b, how many an extractor remembers, and which they are.
Window(b) == IF OverlapWords < b THEN OverlapWords ELSE b
LastWords(b) == Run(b - Window(b), Window(b))

\* What the variables hold.
Types ==
    /\ setup \in Setups
    /\ said \in Nat /\ heard \in Nat /\ partials \in Nat
    /\ pc \in {"collect", "partial", "final", "assemble", "launch", "tail", "finish", "done", "failed"}
    /\ result \in [text : Texts, ended : BOOLEAN]
    /\ agenda \in Seq([text : Texts, kind : Handings])
    /\ extractor \in [pool : Texts, recent : Seq(Nat)]
    /\ committer \in [committed : Seq(Nat), candidate : Texts, seen : Nat, diverged : BOOLEAN]
    /\ lastFinal \in Seq(Nat)
    /\ flushes \subseteq [at : {"delay", "awake", "drained", "translating"}, text : Texts, cancelled : BOOLEAN]
    /\ finished \in BOOLEAN /\ strayed \in BOOLEAN
    /\ captions \in Seq([words : Seq(Nat), kind : Handings])
    /\ lost \subseteq Nat

\* The sentences that are captioned, and those about to be, as words.
LineOf(shown, planned) ==
    [i \in 1 .. Len(shown) + Len(planned) |->
        IF i <= Len(shown) THEN shown[i].words ELSE Words(planned[i - Len(shown)].text)]

Line == LineOf(captions, agenda)

InOrderOfSpeech(line) ==
    /\ \A i \in DOMAIN line : Rising(line[i])
    /\ \A i, j \in DOMAIN line : i < j => Before(line[i], line[j])

Has(line, w) == \E i \in DOMAIN line : \E k \in DOMAIN line[i] : line[i][k] = w

Pool == Words(extractor.pool)
Committed == committer.committed

\* Everything in the line is in the order of the speech.
LineInOrder ==
    /\ InOrderOfSpeech(Line)
    /\ \A i \in DOMAIN agenda : Before(lastFinal, Words(agenda[i].text))

\* Where the collector has nothing in hand, and knows of no partial.
Idle ==
    /\ pc \in {"partial", "final", "assemble", "tail", "done"} => agenda = <<>>
    /\ pc = "collect" /\ partials = 0 => heard = said
    /\ pc = "collect" /\ partials = 0 => Committed = <<>>
    /\ pc \in {"final", "assemble", "launch"} => heard = said /\ partials = 0
    /\ pc = "partial" => partials > 0
    /\ pc \in {"launch", "tail", "finish", "done"} => Committed = <<>>
    /\ pc \in {"finish", "done"} => extractor.pool = <<>>
    /\ finished => pc \in {"done", "failed"}

\* What a recogniser of this kind never brings about.
Calm ==
    /\ ~committer.diverged
    /\ \A i \in DOMAIN extractor.pool : ~extractor.pool[i].stop
    /\ setup.retracts => Committed = <<>>
    /\ ~setup.partials => partials = 0 /\ Committed = <<>>
    /\ pc = "partial" =>
         /\ Words(result.text) = Run(said, heard - said)
         /\ setup.stops = "never" => \A i \in DOMAIN result.text : ~result.text[i].stop

\* A flush that was not cancelled has the pipeline to itself, and what it took
\* is what comes next.
Untouched(f) ==
    /\ extractor.pool = <<>>
    /\ Rising(Words(f.text))
    /\ \A i \in DOMAIN Line : Before(Line[i], Words(f.text))
    /\ \A k \in DOMAIN f.text : f.text[k].word <= said
    /\ f.at = "drained" => Before(lastFinal, Words(f.text))

Flows(f) ==
    /\ f.at = "delay" => ~f.cancelled
    /\ f.at \in {"delay", "awake"} => f.text = <<>>
    /\ ~f.cancelled => pc = "collect" /\ agenda = <<>> /\ partials = 0
    /\ ~f.cancelled /\ f.at \in {"drained", "translating"} => Untouched(f)

Flushing ==
    /\ pc = "failed" => flushes = {}
    /\ \A f \in flushes : Flows(f)
    /\ \A f, g \in flushes : ~f.cancelled /\ ~g.cancelled => f = g

-----------------------------------------------------------------------------
(* What is known when the words up to b have been pooled.                  *)

\* The words before those of the pool, or of the partials that are committed.
Passed(b, w) ==
    IF Committed = <<>> THEN w <= b /\ \A k \in DOMAIN Pool : w < Pool[k]
    ELSE w <= b + (Len(Committed) - Len(Pool))

PoolIsOf(b) ==
    /\ Rising(Pool)
    /\ \A k \in DOMAIN Pool : Pool[k] \in 1 .. b
    /\ \A k \in DOMAIN extractor.recent : extractor.recent[k] \in 1 .. b
    /\ ~setup.partials => extractor.recent = LastWords(b)

CommittedIsOf(b) ==
    Committed # <<>> =>
        /\ Len(Pool) < Len(Committed)
        /\ Len(Committed) - Len(Pool) <= heard - b
        /\ Committed = Pool \o Run(b, Len(Committed) - Len(Pool))
        /\ \A k \in DOMAIN Committed : Has(Line, Committed[k])

LineIsOf(b) ==
    /\ \A i \in DOMAIN Line : \A k \in DOMAIN Line[i] : Passed(b, Line[i][k])
    /\ \A k \in DOMAIN lastFinal : Passed(b, lastFinal[k])

InPool(w) == \E k \in DOMAIN Pool : Pool[k] = w
WithFlush(w) == \E f \in flushes : \E k \in DOMAIN f.text : f.text[k].word = w

Kept(b) ==
    \A w \in 1 .. b :
        w \in retracted \/ w \in lost \/ Has(Line, w) \/ InPool(w) \/ WithFlush(w)

\* The final that is being assembled: the words after b, after the e it repeats.
Repeats(b, e) ==
    /\ Words(result.text) = Run(b - e, said - b + e)
    /\ e # 0 => ~setup.partials /\ e \in MinOverlapWords .. OverlapWords

UpTo(b) ==
    /\ b <= said /\ said <= heard
    /\ pc \notin {"final", "assemble", "failed"} => b = said
    /\ pc \in {"final", "assemble"} => b < said /\ \E e \in 0 .. b : Repeats(b, e)
    /\ PoolIsOf(b) /\ CommittedIsOf(b) /\ LineIsOf(b)
    /\ pc # "failed" => Kept(b)

AInv == Idle /\ Calm /\ Flushing /\ LineInOrder /\ \E b \in Nat : UpTo(b)

IInv == Steady /\ ~strayed => Types /\ AInv

-----------------------------------------------------------------------------
(* Positions in order.                                                     *)

\* How many of the positions are p or before.
Rank(S, p) == Cardinality({q \in S : q <= p})

LEMMA Ranks ==
    ASSUME NEW n \in Nat, NEW S \in SUBSET (1 .. n)
    PROVE  /\ IsFiniteSet(S) /\ Cardinality(S) \in Nat
           /\ \A p \in S : Rank(S, p) \in 1 .. Cardinality(S)
           /\ \A p, q \in S : p < q => Rank(S, p) < Rank(S, q)
<1>0. \A p \in S : p \in Nat
    OBVIOUS
<1>1. IsFiniteSet(S) /\ Cardinality(S) \in Nat
    <2>1. IsFiniteSet(1 .. n)
        BY FS_Interval
    <2>2. IsFiniteSet(S)
        BY <2>1, FS_Subset
    <2> QED
        BY <2>2, FS_CardinalityType
<1>2. ASSUME NEW p \in Nat
      PROVE  LET T == {q \in S : q <= p} IN
             /\ IsFiniteSet(T) /\ Cardinality(T) \in Nat /\ Cardinality(T) <= Cardinality(S)
    <2> DEFINE T == {q \in S : q <= p}
    <2>1. T \in SUBSET S
        OBVIOUS
    <2> HIDE DEF T
    <2>2. IsFiniteSet(T) /\ Cardinality(T) <= Cardinality(S)
        BY <1>1, <2>1, FS_Subset
    <2>3. Cardinality(T) \in Nat
        BY <2>2, FS_CardinalityType
    <2> QED
        BY <2>2, <2>3 DEF T
<1>3. ASSUME NEW p \in S PROVE Rank(S, p) # 0
    <2> DEFINE T == {q \in S : q <= p}
    <2>1. p \in T /\ p \in Nat
        <3>1. p \in Nat /\ p <= p
            BY <1>0
        <3> QED
            BY <3>1
    <2>2. IsFiniteSet(T)
        BY <1>2, <2>1, Zenon
    <2> HIDE DEF T
    <2>3. Cardinality(T) # 0
        BY <2>1, <2>2, FS_EmptySet
    <2> QED
        BY <2>3 DEF T, Rank
<1>4. ASSUME NEW p \in S, NEW q \in S, p < q PROVE Rank(S, p) < Rank(S, q)
    <2> DEFINE T == {r \in S : r <= p}
               U == {r \in S : r <= q}
    <2>1. T \in SUBSET U /\ T # U
        <3>0. p \in Nat /\ q \in Nat /\ \A r \in S : r \in Nat
            BY <1>0
        <3>1. q \in U /\ q \notin T
            BY <3>0, <1>4
        <3>2. \A r \in S : r <= p => r <= q
            BY <3>0, <1>4
        <3>3. T \in SUBSET U
            BY <3>2
        <3> QED
            BY <3>1, <3>3
    <2>2. IsFiniteSet(U) /\ Cardinality(U) \in Nat /\ Cardinality(T) \in Nat
        BY <1>2
    <2> HIDE DEF T, U
    <2>3. Cardinality(T) <= Cardinality(U) /\ (Cardinality(T) = Cardinality(U) => T = U)
        BY <2>1, <2>2, FS_Subset
    <2> QED
        BY <2>1, <2>2, <2>3 DEF T, U, Rank
<1> QED
    BY <1>1, <1>2, <1>3, <1>4 DEF Rank

\* InOrder lists the positions, each once, from the first to the last.
LEMMA Listed ==
    ASSUME NEW n \in Nat, NEW S \in SUBSET (1 .. n)
    PROVE  /\ Cardinality(S) \in Nat
           /\ DOMAIN InOrder(S) = 1 .. Cardinality(S)
           /\ \A k \in DOMAIN InOrder(S) : InOrder(S)[k] \in S /\ Rank(S, InOrder(S)[k]) = k
           /\ \A j, k \in DOMAIN InOrder(S) : j < k => InOrder(S)[j] < InOrder(S)[k]
           /\ \A p \in S : InOrder(S)[Rank(S, p)] = p
<1> DEFINE N == Cardinality(S)
           r == [p \in S |-> Rank(S, p)]
<1>0. \A p \in S : p \in Nat
    OBVIOUS
<1>1. /\ IsFiniteSet(S) /\ N \in Nat
      /\ r \in [S -> 1 .. N]
      /\ \A p, q \in S : p < q => Rank(S, p) < Rank(S, q)
    BY Ranks
<1>2. ASSUME NEW k \in 1 .. N PROVE \E p \in S : Rank(S, p) = k
    <2> SUFFICES ASSUME \A p \in S : Rank(S, p) # k PROVE FALSE
        OBVIOUS
    <2> DEFINE R == (1 .. N) \ {k}
    <2>1. r \in [S -> R]
        BY <1>1
    <2>2. IsFiniteSet(R) /\ Cardinality(R) < N
        <3>1. IsFiniteSet(1 .. N) /\ Cardinality(1 .. N) = N
            BY <1>1, FS_Interval
        <3>2. IsFiniteSet(R) /\ Cardinality(R) = N - 1
            BY <3>1, FS_RemoveElement
        <3> QED
            BY <1>1, <3>2
    <2>3. \E p, q \in S : p # q /\ r[p] = r[q]
        <3> HIDE DEF R, r
        <3> QED
            BY <1>1, <2>1, <2>2, FS_PigeonHole
    <2>4. PICK p \in S, q \in S : p # q /\ Rank(S, p) = Rank(S, q)
        BY <2>3
    <2>5. Rank(S, p) \in Nat /\ Rank(S, q) \in Nat /\ p \in Nat /\ q \in Nat
        <3>1. Rank(S, p) \in 1 .. N /\ Rank(S, q) \in 1 .. N
            BY Ranks
        <3> HIDE DEF N
        <3> QED
            BY <1>0, <3>1
    <2>6. p < q \/ q < p
        BY <2>4, <2>5
    <2> QED
        BY <1>1, <2>4, <2>5, <2>6
<1> DEFINE at == InOrder(S)
<1>3. DOMAIN at = 1 .. N
    BY DEF InOrder
<1>4. ASSUME NEW k \in 1 .. N PROVE at[k] \in S /\ Rank(S, at[k]) = k
    <2>1. at[k] = CHOOSE p \in S : Rank(S, p) = k
        BY DEF InOrder, Rank
    <2> QED
        BY <1>2, <2>1
<1>5. ASSUME NEW j \in 1 .. N, NEW k \in 1 .. N, j < k PROVE at[j] < at[k]
    <2>1. at[j] \in S /\ at[k] \in S /\ Rank(S, at[j]) = j /\ Rank(S, at[k]) = k
        BY <1>4
    <2>2. at[j] \in Nat /\ at[k] \in Nat
        BY <1>0, <2>1
    <2> HIDE DEF at
    <2>3. at[j] # at[k] /\ ~(at[k] < at[j])
        BY <1>1, <1>5, <2>1, <2>2
    <2> QED
        BY <2>2, <2>3
<1>6. ASSUME NEW p \in S PROVE at[Rank(S, p)] = p
    <2>1. Rank(S, p) \in 1 .. N
        BY <1>1
    <2> DEFINE q == at[Rank(S, p)]
    <2>2. q \in S /\ Rank(S, q) = Rank(S, p)
        BY <1>4, <2>1
    <2> HIDE DEF q, N
    <2>3. Rank(S, p) \in Nat /\ q \in Nat /\ p \in Nat
        BY <1>0, <2>1, <2>2
    <2>4. ~(q < p) /\ ~(p < q)
        BY <1>1, <2>2, <2>3
    <2>5. q = p
        BY <2>3, <2>4
    <2> QED
        BY <2>5 DEF q
<1> QED
    BY <1>1, <1>3, <1>4, <1>5, <1>6

\* LastOrZero is the position InOrder lists last.
LEMMA TheLast ==
    ASSUME NEW n \in Nat, NEW S \in SUBSET (1 .. n)
    PROVE  /\ LastOrZero(S) \in 0 .. n
           /\ \A p \in S : p <= LastOrZero(S)
           /\ S = {} => LastOrZero(S) = 0
           /\ S # {} => /\ LastOrZero(S) \in S
                        /\ Cardinality(S) \in 1 .. Cardinality(S)
                        /\ LastOrZero(S) = InOrder(S)[Cardinality(S)]
<1> DEFINE N == Cardinality(S)
           m == IF S = {} THEN 0 ELSE InOrder(S)[N]
<1>0. /\ \A p \in S : p \in Nat /\ p <= n
      /\ N \in Nat
      /\ \A p \in S : Rank(S, p) \in 1 .. N
      /\ \A p, q \in S : p < q => Rank(S, p) < Rank(S, q)
    <2>1. \A p \in S : p \in Nat /\ p <= n
        OBVIOUS
    <2> QED
        BY <2>1, Ranks
<1>1. S # {} => N \in 1 .. N
    <2> SUFFICES ASSUME S # {} PROVE N \in 1 .. N
        OBVIOUS
    <2>1. PICK p \in S : Rank(S, p) \in 1 .. N
        BY <1>0
    <2> HIDE DEF N
    <2> QED
        BY <1>0, <2>1
<1>2. S # {} => m \in S /\ Rank(S, m) = N
    BY <1>1, Listed
<1>3. m \in S \cup {0} /\ m \in 0 .. n /\ \A y \in S \cup {0} : m >= y
    <2>1. CASE S = {}
        BY <2>1
    <2>2. CASE S # {}
        <3>1. m \in S /\ Rank(S, m) = N
            BY <1>2, <2>2
        <3> HIDE DEF m
        <3>2. m \in Nat /\ m <= n
            BY <1>0, <3>1
        <3>3. ASSUME NEW y \in S PROVE m >= y
            <4>1. Rank(S, y) \in Nat /\ Rank(S, y) <= N /\ y \in Nat /\ N \in Nat
                <5>1. Rank(S, y) \in 1 .. N /\ N \in Nat /\ y \in Nat
                    BY <1>0
                <5> HIDE DEF N
                <5> QED
                    BY <5>1
            <4>2. ~(m < y)
                BY <1>0, <3>1, <4>1
            <4> QED
                BY <3>2, <4>1, <4>2
        <3> QED
            BY <3>1, <3>2, <3>3
    <2> QED
        BY <2>1, <2>2
<1>4. LastOrZero(S) = m
    <2> DEFINE U == S \cup {0}
    <2>1. \A y \in U : y \in Nat
        BY <1>0
    <2>2. LastOrZero(S) = CHOOSE x \in U : \A y \in U : x >= y
        BY DEF LastOrZero, Max
    <2> HIDE DEF m, U
    <2>3. m \in U /\ \A y \in U : m >= y
        BY <1>3 DEF U
    <2>4. LastOrZero(S) \in U /\ \A y \in U : LastOrZero(S) >= y
        BY <2>2, <2>3
    <2>5. LastOrZero(S) >= m /\ m >= LastOrZero(S) /\ m \in Nat /\ LastOrZero(S) \in Nat
        BY <2>1, <2>3, <2>4
    <2> QED
        BY <2>5
<1> QED
    BY <1>1, <1>2, <1>3, <1>4

-----------------------------------------------------------------------------
(* Pieces of a text.                                                       *)

\* The position before the k-th piece.
Start(cuts, k) == IF k = 1 THEN 0 ELSE InOrder(cuts)[k - 1]

\* The pieces are stretches of the text that follow one another, up to the last
\* cut.
LEMMA PiecesFollow ==
    ASSUME NEW T, NEW text \in Seq(T), NEW cuts \in SUBSET (1 .. Len(text))
    PROVE  LET P == Pieces(text, cuts)
               N == Cardinality(cuts)
           IN  /\ N \in Nat /\ P \in [1 .. N -> Seq(T)] /\ P \in Seq(Seq(T))
               /\ Len(P) = N
               /\ \A k \in 1 .. N :
                    /\ Start(cuts, k) \in Nat
                    /\ Start(cuts, k) + Len(P[k]) = InOrder(cuts)[k]
                    /\ InOrder(cuts)[k] <= LastOrZero(cuts)
                    /\ \A i \in 1 .. Len(P[k]) : P[k][i] = text[Start(cuts, k) + i]
               /\ \A j, k \in 1 .. N : j < k => InOrder(cuts)[j] <= Start(cuts, k)
               /\ \A q \in 1 .. LastOrZero(cuts) :
                    \E k \in 1 .. N : \E i \in 1 .. Len(P[k]) : q = Start(cuts, k) + i
<1> DEFINE P == Pieces(text, cuts)
           N == Cardinality(cuts)
           at == InOrder(cuts)
<1>0. Len(text) \in Nat
    OBVIOUS
<1>1. /\ N \in Nat /\ DOMAIN at = 1 .. N
      /\ \A k \in 1 .. N : at[k] \in 1 .. Len(text)
      /\ \A j, k \in 1 .. N : j < k => at[j] < at[k]
    BY <1>0, Listed
<1>2. /\ LastOrZero(cuts) \in 0 .. Len(text)
      /\ \A k \in 1 .. N : at[k] <= LastOrZero(cuts)
      /\ cuts # {} => N \in 1 .. N /\ LastOrZero(cuts) = at[N]
      /\ cuts = {} => LastOrZero(cuts) = 0
    BY <1>0, Listed, TheLast
<1>3. P = [k \in 1 .. N |-> SubSeq(text, Start(cuts, k) + 1, at[k])]
    <2>1. P = [k \in 1 .. N |-> SubSeq(text, IF k = 1 THEN 1 ELSE at[k - 1] + 1, at[k])]
        BY <1>1 DEF Pieces
    <2>2. \A k \in 1 .. N : Start(cuts, k) + 1 = IF k = 1 THEN 1 ELSE at[k - 1] + 1
        BY DEF Start
    <2> HIDE DEF at, P, N
    <2> QED
        BY <2>1, <2>2
<1> HIDE DEF at, P, N
<1>4. ASSUME NEW k \in 1 .. N
      PROVE  /\ Start(cuts, k) \in Nat /\ Start(cuts, k) < at[k]
             /\ P[k] \in Seq(T) /\ Start(cuts, k) + Len(P[k]) = at[k]
             /\ \A i \in 1 .. Len(P[k]) : P[k][i] = text[Start(cuts, k) + i]
    <2>1. Start(cuts, k) \in Nat /\ Start(cuts, k) < at[k]
        <3>1. CASE k = 1
            BY <1>1, <3>1 DEF Start
        <3>2. CASE k # 1
            <4>1. k - 1 \in 1 .. N /\ k - 1 < k
                BY <1>1, <3>2
            <4>2. at[k - 1] < at[k] /\ at[k - 1] \in 1 .. Len(text)
                BY <1>1, <4>1
            <4> QED
                BY <3>2, <4>2 DEF Start, at
        <3> QED
            BY <3>1, <3>2
    <2> DEFINE s == Start(cuts, k)
    <2>2. at[k] \in Nat /\ at[k] <= Len(text) /\ s \in Nat /\ s < at[k]
        BY <1>1, <2>1
    <2>3. P[k] = SubSeq(text, s + 1, at[k])
        BY <1>3
    <2> HIDE DEF s
    <2>4. /\ P[k] \in Seq(T) /\ Len(P[k]) = at[k] - s
          /\ \A i \in 1 .. Len(P[k]) : P[k][i] = text[s + i]
        <3>1. s + 1 \in 1 .. Len(text) + 1 /\ at[k] \in s .. Len(text) /\ s + 1 \in Int /\ at[k] \in Int
            BY <1>0, <2>2
        <3>2. SubSeq(text, s + 1, at[k]) \in Seq(T) /\ Len(SubSeq(text, s + 1, at[k])) = at[k] - s
            BY <2>2, <1>0
        <3>3. \A i \in 1 .. (at[k] - s) : SubSeq(text, s + 1, at[k])[i] = text[s + i]
            BY <2>2, <1>0
        <3> QED
            BY <2>3, <3>2, <3>3
    <2>5. s + Len(P[k]) = at[k]
        BY <2>2, <2>4
    <2> QED
        BY <2>1, <2>4, <2>5 DEF s
<1>5. P \in [1 .. N -> Seq(T)] /\ P \in Seq(Seq(T)) /\ Len(P) = N
    <2>1. DOMAIN P = 1 .. N /\ P = [k \in 1 .. N |-> P[k]]
        BY <1>3
    <2>2. P \in [1 .. N -> Seq(T)]
        BY <1>4, <2>1
    <2> QED
        BY <1>1, <2>2
<1>6. ASSUME NEW j \in 1 .. N, NEW k \in 1 .. N, j < k PROVE at[j] <= Start(cuts, k)
    <2>1. k # 1 /\ k - 1 \in 1 .. N /\ (j = k - 1 \/ j < k - 1)
        BY <1>1, <1>6
    <2>2. at[j] <= at[k - 1]
        BY <1>1, <2>1
    <2> QED
        BY <2>1, <2>2 DEF Start, at
<1>7. ASSUME NEW q \in 1 .. LastOrZero(cuts)
      PROVE  \E k \in 1 .. N : \E i \in 1 .. Len(P[k]) : q = Start(cuts, k) + i
    <2> DEFINE K == {k \in 1 .. N : q <= at[k]}
    <2>1. q \in Nat /\ q >= 1 /\ N \in 1 .. N /\ q <= at[N]
        BY <1>1, <1>2
    <2>2. K \in SUBSET (1 .. N) /\ N \in K
        BY <2>1
    <2> HIDE DEF K
    <2>3. /\ Cardinality(K) \in 1 .. Cardinality(K) /\ Cardinality(K) \in Nat
          /\ 1 \in DOMAIN InOrder(K) /\ DOMAIN InOrder(K) = 1 .. Cardinality(K)
        <3>1. K # {}
            BY <2>2
        <3>2. Cardinality(K) \in 1 .. Cardinality(K)
            BY <1>1, <2>2, <3>1, TheLast
        <3>3. Cardinality(K) \in Nat /\ DOMAIN InOrder(K) = 1 .. Cardinality(K)
            BY <1>1, <2>2, Listed
        <3> QED
            BY <3>2, <3>3
    <2> DEFINE k == InOrder(K)[1]
    <2>4. k \in K /\ \A j \in K : k <= j
        <3>1. k \in K /\ Rank(K, k) = 1
            BY <1>1, <2>2, <2>3, Listed
        <3>2. ASSUME NEW j \in K PROVE k <= j
            <4>1. Rank(K, j) \in 1 .. Cardinality(K) /\ \A a, b \in K : a < b => Rank(K, a) < Rank(K, b)
                BY <1>1, <2>2, Ranks
            <4> HIDE DEF k
            <4>2. k \in Nat /\ j \in Nat /\ Rank(K, j) >= 1
                <5>1. k \in 1 .. N /\ j \in 1 .. N
                    BY <2>2, <3>1
                <5> QED
                    BY <1>1, <2>3, <4>1, <5>1
            <4>3. ~(j < k)
                BY <3>1, <4>1, <4>2
            <4> QED
                BY <4>2, <4>3
        <3> QED
            BY <3>1, <3>2
    <2> HIDE DEF k
    <2>5. k \in 1 .. N /\ q <= at[k]
        BY <2>2, <2>4 DEF K
    <2>6. Start(cuts, k) < q
        <3>1. CASE k = 1
            BY <2>1, <3>1 DEF Start
        <3>2. CASE k # 1
            <4>1. k - 1 \in 1 .. N /\ k - 1 < k
                BY <1>1, <2>5, <3>2
            <4>2. k - 1 \notin K
                <5>1. ~(k <= k - 1)
                    BY <1>1, <2>5
                <5> QED
                    BY <2>4, <5>1
            <4>3. ~(q <= at[k - 1]) /\ at[k - 1] \in 1 .. Len(text)
                BY <1>1, <4>1, <4>2 DEF K
            <4> QED
                BY <1>0, <2>1, <3>2, <4>3 DEF Start, at
        <3> QED
            BY <3>1, <3>2
    <2>7. /\ Start(cuts, k) \in Nat /\ Len(P[k]) \in Nat /\ at[k] \in Nat
          /\ Start(cuts, k) + Len(P[k]) = at[k]
        BY <1>1, <1>4, <2>5
    <2>8. q - Start(cuts, k) \in 1 .. Len(P[k]) /\ q = Start(cuts, k) + (q - Start(cuts, k))
        BY <2>1, <2>5, <2>6, <2>7
    <2> QED
        BY <2>5, <2>8
<1> QED
    BY <1>1, <1>2, <1>4, <1>5, <1>6, <1>7 DEF P, N, at

-----------------------------------------------------------------------------
(* Texts and their words.                                                  *)

LEMMA TextWords ==
    ASSUME NEW text \in Texts
    PROVE  /\ Words(text) \in Seq(Nat) /\ Len(Words(text)) = Len(text) /\ Len(text) \in Nat
           /\ DOMAIN text = 1 .. Len(text) /\ DOMAIN Words(text) = 1 .. Len(text)
           /\ \A i \in 1 .. Len(text) : Words(text)[i] = text[i].word /\ text[i] \in Tokens
<1>1. Len(text) \in Nat /\ DOMAIN text = 1 .. Len(text) /\ \A i \in 1 .. Len(text) : text[i] \in Tokens
    BY DEF Texts
<1>2. \A i \in 1 .. Len(text) : text[i].word \in Nat
    BY <1>1 DEF Tokens
<1>3. Words(text) = [i \in 1 .. Len(text) |-> text[i].word]
    BY <1>1 DEF Words
<1>4. Words(text) \in [1 .. Len(text) -> Nat]
    BY <1>2, <1>3
<1>5. Words(text) \in Seq(Nat) /\ Len(Words(text)) = Len(text)
    BY <1>1, <1>4
<1> QED
    BY <1>1, <1>3, <1>5

LEMMA TextConcat ==
    ASSUME NEW a \in Texts, NEW b \in Texts
    PROVE  /\ a \o b \in Texts /\ Len(a \o b) = Len(a) + Len(b)
           /\ Words(a \o b) = Words(a) \o Words(b)
           /\ \A i \in 1 .. Len(a) : (a \o b)[i] = a[i]
           /\ \A i \in 1 .. Len(b) : (a \o b)[Len(a) + i] = b[i]
<1> DEFINE c == a \o b
<1>1. c \in Texts /\ Len(c) = Len(a) + Len(b) /\ Len(a) \in Nat /\ Len(b) \in Nat
    BY DEF Texts
<1>2. \A i \in 1 .. Len(c) : c[i] = IF i <= Len(a) THEN a[i] ELSE b[i - Len(a)]
    BY DEF Texts
<1> HIDE DEF c
<1> DEFINE d == Words(a) \o Words(b)
<1>3. /\ Words(a) \in Seq(Nat) /\ Words(b) \in Seq(Nat) /\ Words(c) \in Seq(Nat)
      /\ Len(Words(a)) = Len(a) /\ Len(Words(b)) = Len(b) /\ Len(Words(c)) = Len(c)
    BY <1>1, TextWords
<1>4. d \in Seq(Nat) /\ Len(d) = Len(c)
      /\ \A i \in 1 .. Len(c) : d[i] = IF i <= Len(a) THEN Words(a)[i] ELSE Words(b)[i - Len(a)]
    <2> DEFINE u == Words(a)
               v == Words(b)
    <2>1. u \in Seq(Nat) /\ v \in Seq(Nat) /\ Len(u) = Len(a) /\ Len(v) = Len(b)
        BY <1>3
    <2> HIDE DEF u, v
    <2>2. u \o v \in Seq(Nat) /\ Len(u \o v) = Len(u) + Len(v)
          /\ \A i \in 1 .. Len(u) + Len(v) : (u \o v)[i] = IF i <= Len(u) THEN u[i] ELSE v[i - Len(u)]
        BY <2>1, ConcatProperties
    <2> QED
        BY <1>1, <2>1, <2>2 DEF u, v
<1> HIDE DEF d
<1>5. ASSUME NEW i \in 1 .. Len(c) PROVE Words(c)[i] = d[i]
    <2>1. Words(c)[i] = c[i].word
        BY <1>1, TextWords
    <2>2. CASE i <= Len(a)
        <3>1. i \in 1 .. Len(a)
            BY <1>1, <2>2
        <3> QED
            BY <1>2, <1>4, <2>1, <2>2, <3>1, TextWords
    <2>3. CASE ~(i <= Len(a))
        <3>1. i - Len(a) \in 1 .. Len(b)
            BY <1>1, <2>3
        <3> QED
            BY <1>2, <1>4, <2>1, <2>3, <3>1, TextWords
    <2> QED
        BY <2>2, <2>3
<1>6. Words(c) = d
    BY <1>1, <1>3, <1>4, <1>5, SeqEqual
<1>7. /\ \A i \in 1 .. Len(a) : c[i] = a[i]
      /\ \A i \in 1 .. Len(b) : c[Len(a) + i] = b[i]
    BY <1>1, <1>2
<1> QED
    BY <1>1, <1>6, <1>7 DEF c, d

LEMMA RestOfSequence ==
    ASSUME NEW T, NEW s \in Seq(T), NEW p \in 0 .. Len(s)
    PROVE  /\ After(s, p) \in Seq(T) /\ Len(After(s, p)) = Len(s) - p
           /\ \A i \in 1 .. Len(s) - p : After(s, p)[i] = s[p + i]
<1>1. p \in Nat /\ p <= Len(s) /\ Len(s) \in Nat
    OBVIOUS
<1>2. After(s, p) = SubSeq(s, p + 1, Len(s))
    BY DEF After
<1>3. SubSeq(s, p + 1, Len(s)) \in Seq(T) /\ Len(SubSeq(s, p + 1, Len(s))) = Len(s) - p
    BY <1>1
<1>4. \A i \in 1 .. Len(s) - p : SubSeq(s, p + 1, Len(s))[i] = s[p + i]
    BY <1>1
<1> QED
    BY <1>2, <1>3, <1>4

LEMMA TextAfter ==
    ASSUME NEW a \in Texts, NEW p \in 0 .. Len(a)
    PROVE  /\ After(a, p) \in Texts /\ Len(After(a, p)) = Len(a) - p
           /\ Words(After(a, p)) = After(Words(a), p)
           /\ \A i \in 1 .. Len(a) - p : After(a, p)[i] = a[p + i]
<1> DEFINE c == After(a, p)
           d == After(Words(a), p)
<1>1. Len(a) \in Nat /\ p \in Nat /\ p <= Len(a)
    BY DEF Texts
<1>2. c \in Texts /\ Len(c) = Len(a) - p /\ \A i \in 1 .. Len(a) - p : c[i] = a[p + i]
    BY RestOfSequence DEF Texts
<1>3. Words(a) \in Seq(Nat) /\ Len(Words(a)) = Len(a)
    BY TextWords
<1>4. d \in Seq(Nat) /\ Len(d) = Len(a) - p /\ \A i \in 1 .. Len(a) - p : d[i] = Words(a)[p + i]
    BY <1>3, RestOfSequence
<1> HIDE DEF c, d
<1>5. Words(c) \in Seq(Nat) /\ Len(Words(c)) = Len(a) - p
    BY <1>2, TextWords
<1>6. ASSUME NEW i \in 1 .. Len(a) - p PROVE Words(c)[i] = d[i]
    <2>1. Words(c)[i] = c[i].word
        BY <1>2, TextWords
    <2>2. p + i \in 1 .. Len(a)
        BY <1>1
    <2> QED
        BY <1>2, <1>4, <2>1, <2>2, TextWords
<1>7. Words(c) = d
    BY <1>4, <1>5, <1>6, SeqEqual
<1> QED
    BY <1>2, <1>7 DEF c, d

\* Punctuation restored or trimmed does not touch the words.
LEMMA SameWords ==
    ASSUME NEW a \in Texts, NEW t \in BOOLEAN, NEW c \in BOOLEAN, NEW e
    PROVE  /\ AddStop(a) \in Texts /\ Words(AddStop(a)) = Words(a)
           /\ Terminate(a) \in Texts /\ Words(Terminate(a)) = Words(a)
           /\ a # <<>> => Restore(a, t, c) \in Texts /\ Words(Restore(a, t, c)) = Words(a)
           /\ a # <<>> => MidUtteranceTrim(a, e) \in Texts /\ Words(MidUtteranceTrim(a, e)) = Words(a)
<1>1. ASSUME NEW x \in Texts, x # <<>>, NEW b \in BOOLEAN
      PROVE  /\ [x EXCEPT ![Len(x)].stop = b] \in Texts
             /\ Words([x EXCEPT ![Len(x)].stop = b]) = Words(x)
             /\ [x EXCEPT ![Len(x)].stop = b] # <<>>
    <2> DEFINE y == [x EXCEPT ![Len(x)].stop = b]
    <2>1. Len(x) \in Nat /\ Len(x) # 0 /\ DOMAIN x = 1 .. Len(x)
        BY <1>1 DEF Texts
    <2>2. y = [i \in 1 .. Len(x) |-> IF i = Len(x) THEN [x[i] EXCEPT !.stop = b] ELSE x[i]]
        BY <2>1
    <2>3. ASSUME NEW i \in 1 .. Len(x) PROVE y[i] \in Tokens /\ y[i].word = x[i].word
        <3>1. x[i] \in Tokens
            BY DEF Texts
        <3>2. [x[i] EXCEPT !.stop = b] \in Tokens /\ [x[i] EXCEPT !.stop = b].word = x[i].word
            BY <1>1, <3>1 DEF Tokens
        <3> QED
            BY <2>2, <3>1, <3>2
    <2> HIDE DEF y
    <2>4. y \in [1 .. Len(x) -> Tokens] /\ DOMAIN y = 1 .. Len(x)
        BY <2>2, <2>3
    <2>5. y \in Texts /\ Len(y) = Len(x)
        BY <2>1, <2>4 DEF Texts
    <2>6. Words(y) = Words(x)
        BY <2>1, <2>3, <2>4 DEF Words
    <2>7. y # <<>>
        BY <2>1, <2>5
    <2> QED
        BY <2>5, <2>6, <2>7 DEF y
<1>2. ASSUME NEW x \in Texts, x # <<>>
      PROVE  /\ [x EXCEPT ![1].capital = TRUE] \in Texts
             /\ Words([x EXCEPT ![1].capital = TRUE]) = Words(x)
             /\ [x EXCEPT ![1].capital = TRUE] # <<>>
    <2> DEFINE y == [x EXCEPT ![1].capital = TRUE]
    <2>1. Len(x) \in Nat /\ Len(x) # 0 /\ DOMAIN x = 1 .. Len(x)
        BY <1>2 DEF Texts
    <2>2. y = [i \in 1 .. Len(x) |-> IF i = 1 THEN [x[i] EXCEPT !.capital = TRUE] ELSE x[i]]
        BY <2>1
    <2>3. ASSUME NEW i \in 1 .. Len(x) PROVE y[i] \in Tokens /\ y[i].word = x[i].word
        <3>1. x[i] \in Tokens
            BY DEF Texts
        <3>2. [x[i] EXCEPT !.capital = TRUE] \in Tokens /\ [x[i] EXCEPT !.capital = TRUE].word = x[i].word
            BY <3>1 DEF Tokens
        <3> QED
            BY <2>2, <3>1, <3>2
    <2> HIDE DEF y
    <2>4. y \in [1 .. Len(x) -> Tokens] /\ DOMAIN y = 1 .. Len(x)
        BY <2>2, <2>3
    <2>5. y \in Texts /\ Len(y) = Len(x)
        BY <2>1, <2>4 DEF Texts
    <2>6. Words(y) = Words(x)
        BY <2>1, <2>3, <2>4 DEF Words
    <2>7. y # <<>>
        BY <2>1, <2>5
    <2> QED
        BY <2>5, <2>6, <2>7 DEF y
<1>3. ASSUME NEW x \in Texts
      PROVE  AddStop(x) \in Texts /\ Words(AddStop(x)) = Words(x)
    BY <1>1 DEF AddStop
<1>4. ASSUME a # <<>>
      PROVE  Restore(a, t, c) \in Texts /\ Words(Restore(a, t, c)) = Words(a)
    <2> DEFINE cased == IF c THEN [a EXCEPT ![1].capital = TRUE] ELSE a
    <2>1. cased \in Texts /\ Words(cased) = Words(a)
        BY <1>2, <1>4
    <2>2. Restore(a, t, c) = IF ~setup.restores \/ Stopped(a) THEN a ELSE IF t THEN AddStop(cased) ELSE cased
        BY DEF Restore
    <2> HIDE DEF cased
    <2> QED
        BY <1>3, <2>1, <2>2
<1>5. ASSUME a # <<>>
      PROVE  MidUtteranceTrim(a, e) \in Texts /\ Words(MidUtteranceTrim(a, e)) = Words(a)
    BY <1>1, <1>5 DEF MidUtteranceTrim
<1> QED
    BY <1>3, <1>4, <1>5 DEF Terminate

\* The sentences cut from a text in the order of the speech are in that order,
\* and their words are those of the text up to the last cut.
LEMMA Sentences ==
    ASSUME NEW text \in Texts, NEW cuts \in SUBSET (1 .. Len(text)), Rising(Words(text))
    PROVE  LET P == Pieces(text, cuts) IN
           /\ P \in Seq(Texts)
           /\ \A k \in DOMAIN P : Rising(Words(P[k]))
           /\ \A j, k \in DOMAIN P : j < k => Before(Words(P[j]), Words(P[k]))
           /\ \A k \in DOMAIN P : \A i \in DOMAIN P[k] :
                \E q \in 1 .. LastOrZero(cuts) : Words(P[k])[i] = Words(text)[q]
           /\ \A q \in 1 .. LastOrZero(cuts) :
                \E k \in DOMAIN P : \E i \in DOMAIN P[k] : Words(P[k])[i] = Words(text)[q]
           /\ LastOrZero(cuts) \in 0 .. Len(text)
<1> DEFINE P == Pieces(text, cuts)
           N == Cardinality(cuts)
           at == InOrder(cuts)
           last == LastOrZero(cuts)
<1>0. Len(text) \in Nat /\ DOMAIN Words(text) = 1 .. Len(text) /\ text \in Seq(Tokens)
      /\ \A i \in 1 .. Len(text) : Words(text)[i] = text[i].word /\ Words(text)[i] \in Nat
    <2>1. Words(text) \in Seq(Nat) /\ Len(Words(text)) = Len(text)
        BY TextWords
    <2>2. \A i \in 1 .. Len(text) : Words(text)[i] \in Nat
        BY <2>1
    <2> QED
        BY <2>2, TextWords DEF Texts
<1>1. /\ N \in Nat /\ P \in Seq(Texts) /\ P \in [1 .. N -> Texts] /\ last \in 0 .. Len(text)
      /\ \A k \in 1 .. N :
           /\ Start(cuts, k) \in Nat
           /\ Start(cuts, k) + Len(P[k]) = at[k]
           /\ at[k] <= last
           /\ \A i \in 1 .. Len(P[k]) : P[k][i] = text[Start(cuts, k) + i]
      /\ \A j, k \in 1 .. N : j < k => at[j] <= Start(cuts, k)
      /\ \A q \in 1 .. last : \E k \in 1 .. N : \E i \in 1 .. Len(P[k]) : q = Start(cuts, k) + i
    <2>1. last \in 0 .. Len(text)
        BY <1>0, TheLast
    <2> QED
        BY <1>0, <2>1, PiecesFollow DEF Texts
<1> HIDE DEF P, N, at, last
<1>2. ASSUME NEW k \in 1 .. N
      PROVE  /\ P[k] \in Texts /\ DOMAIN P[k] = 1 .. Len(P[k]) /\ DOMAIN Words(P[k]) = 1 .. Len(P[k])
             /\ Len(P[k]) \in Nat
             /\ \A i \in 1 .. Len(P[k]) :
                  /\ Start(cuts, k) + i \in 1 .. last /\ Start(cuts, k) + i \in 1 .. Len(text)
                  /\ Words(P[k])[i] = Words(text)[Start(cuts, k) + i]
    <2>1. P[k] \in Texts
        BY <1>1
    <2>2. DOMAIN P[k] = 1 .. Len(P[k]) /\ DOMAIN Words(P[k]) = 1 .. Len(P[k]) /\ Len(P[k]) \in Nat
          /\ \A i \in 1 .. Len(P[k]) : Words(P[k])[i] = P[k][i].word
        BY <2>1, TextWords
    <2>3. ASSUME NEW i \in 1 .. Len(P[k])
          PROVE  /\ Start(cuts, k) + i \in 1 .. last /\ Start(cuts, k) + i \in 1 .. Len(text)
                 /\ Words(P[k])[i] = Words(text)[Start(cuts, k) + i]
        <3>1. Start(cuts, k) \in Nat /\ Start(cuts, k) + Len(P[k]) <= last /\ last \in 0 .. Len(text)
            BY <1>1
        <3>2. Start(cuts, k) + i \in 1 .. last /\ Start(cuts, k) + i \in 1 .. Len(text)
            BY <1>0, <2>2, <3>1
        <3>3. P[k][i] = text[Start(cuts, k) + i] /\ Words(P[k])[i] = P[k][i].word
            BY <1>1, <2>2
        <3> QED
            BY <1>0, <3>2, <3>3
    <2> QED
        BY <2>1, <2>2, <2>3
<1>3. DOMAIN P = 1 .. N
    BY <1>1
<1>4. ASSUME NEW k \in 1 .. N PROVE Rising(Words(P[k]))
    <2> SUFFICES ASSUME NEW i \in 1 .. Len(P[k]), NEW j \in 1 .. Len(P[k]), i < j
                 PROVE  Words(P[k])[i] < Words(P[k])[j]
        BY <1>2 DEF Rising
    <2>1. Start(cuts, k) + i < Start(cuts, k) + j
        BY <1>1, <1>2
    <2> QED
        BY <1>0, <1>2, <2>1 DEF Rising
<1>5. ASSUME NEW j \in 1 .. N, NEW k \in 1 .. N, j < k PROVE Before(Words(P[j]), Words(P[k]))
    <2> SUFFICES ASSUME NEW i \in 1 .. Len(P[j]), NEW h \in 1 .. Len(P[k])
                 PROVE  Words(P[j])[i] < Words(P[k])[h]
        BY <1>2 DEF Before
    <2>1. /\ Start(cuts, j) \in Nat /\ Start(cuts, k) \in Nat /\ Len(P[j]) \in Nat /\ Len(P[k]) \in Nat
          /\ Start(cuts, j) + Len(P[j]) <= Start(cuts, k)
        BY <1>1, <1>2, <1>5
    <2>2. Start(cuts, j) + i < Start(cuts, k) + h
        BY <2>1
    <2> QED
        BY <1>0, <1>2, <2>2 DEF Rising
<1>6. ASSUME NEW q \in 1 .. last
      PROVE  \E k \in 1 .. N : \E i \in DOMAIN P[k] : Words(P[k])[i] = Words(text)[q]
    <2>1. PICK k \in 1 .. N : \E i \in 1 .. Len(P[k]) : q = Start(cuts, k) + i
        BY <1>1
    <2>2. PICK i \in 1 .. Len(P[k]) : q = Start(cuts, k) + i
        BY <2>1
    <2>3. i \in DOMAIN P[k] /\ Words(P[k])[i] = Words(text)[q]
        BY <1>2, <2>2
    <2> QED
        BY <2>3
<1>7. ASSUME NEW k \in 1 .. N, NEW i \in DOMAIN P[k]
      PROVE  \E q \in 1 .. last : Words(P[k])[i] = Words(text)[q]
    <2>1. i \in 1 .. Len(P[k])
        BY <1>2
    <2> QED
        BY <1>2, <2>1
<1>8. /\ P \in Seq(Texts)
      /\ \A k \in DOMAIN P : Rising(Words(P[k]))
      /\ \A j, k \in DOMAIN P : j < k => Before(Words(P[j]), Words(P[k]))
      /\ \A k \in DOMAIN P : \A i \in DOMAIN P[k] :
           \E q \in 1 .. last : Words(P[k])[i] = Words(text)[q]
      /\ \A q \in 1 .. last :
           \E k \in DOMAIN P : \E i \in DOMAIN P[k] : Words(P[k])[i] = Words(text)[q]
      /\ last \in 0 .. Len(text)
    BY <1>1, <1>3, <1>4, <1>5, <1>6, <1>7
<1> QED
    BY <1>8, Zenon DEF P, last

-----------------------------------------------------------------------------
(* The line of sentences.                                                  *)

Captions == Seq([words : Seq(Nat), kind : Handings])
Agendas == Seq([text : Texts, kind : Handings])

\* The words of sentences.
Said(sentences) == [k \in DOMAIN sentences |-> Words(sentences[k])]

LEMMA LineWords ==
    ASSUME NEW shown \in Captions, NEW planned \in Agendas
    PROVE  LET L == LineOf(shown, planned) IN
           /\ L \in Seq(Seq(Nat)) /\ Len(L) = Len(shown) + Len(planned)
           /\ Len(shown) \in Nat /\ Len(planned) \in Nat
           /\ DOMAIN L = 1 .. Len(shown) + Len(planned)
           /\ \A i \in 1 .. Len(shown) : L[i] = shown[i].words
           /\ \A i \in 1 .. Len(planned) : L[Len(shown) + i] = Words(planned[i].text)
<1> DEFINE L == LineOf(shown, planned)
           m == Len(shown)
           n == Len(planned)
<1>1. m \in Nat /\ n \in Nat
    BY DEF Captions, Agendas
<1>2. \A i \in 1 .. m : shown[i].words \in Seq(Nat)
    <2>1. \A i \in 1 .. m : shown[i] \in [words : Seq(Nat), kind : Handings]
        BY ElementOfSeq, Zenon DEF Captions
    <2> QED
        BY <2>1
<1>3. \A i \in 1 .. n : Words(planned[i].text) \in Seq(Nat)
    <2>1. \A i \in 1 .. n : planned[i] \in [text : Texts, kind : Handings]
        BY ElementOfSeq, Zenon DEF Agendas
    <2>2. \A i \in 1 .. n : planned[i].text \in Texts
        BY <2>1
    <2> QED
        BY <2>2, TextWords
<1>4. L = [i \in 1 .. m + n |-> IF i <= m THEN shown[i].words ELSE Words(planned[i - m].text)]
    BY DEF LineOf
<1> HIDE DEF L, m, n
<1>5. L \in [1 .. m + n -> Seq(Nat)]
    <2> SUFFICES ASSUME NEW i \in 1 .. m + n
                 PROVE  (IF i <= m THEN shown[i].words ELSE Words(planned[i - m].text)) \in Seq(Nat)
        BY <1>4
    <2>1. i <= m => i \in 1 .. m
        BY <1>1
    <2>2. ~(i <= m) => i - m \in 1 .. n
        BY <1>1
    <2> QED
        BY <1>2, <1>3, <2>1, <2>2
<1>6. L \in Seq(Seq(Nat)) /\ Len(L) = m + n
    BY <1>1, <1>5
<1>7. \A i \in 1 .. m : L[i] = shown[i].words
    BY <1>1, <1>4
<1>8. ASSUME NEW i \in 1 .. n PROVE L[m + i] = Words(planned[i].text)
    <2>1. m + i \in 1 .. m + n /\ ~(m + i <= m) /\ (m + i) - m = i
        BY <1>1
    <2> QED
        BY <1>4, <2>1
<1> QED
    BY <1>1, <1>5, <1>6, <1>7, <1>8 DEF L, m, n

\* What is handed in moves along the line.
LEMMA LineMoves ==
    ASSUME NEW shown \in Captions, NEW planned \in Agendas, planned # <<>>, NEW k \in Handings
    PROVE  LET more == Append(shown, [words |-> Words(Head(planned).text), kind |-> k]) IN
           more \in Captions /\ Tail(planned) \in Agendas
           /\ LineOf(more, Tail(planned)) = LineOf(shown, planned)
<1> DEFINE e == [words |-> Words(Head(planned).text), kind |-> k]
           more == Append(shown, e)
           rest == Tail(planned)
           m == Len(shown)
           n == Len(planned)
<1>1. m \in Nat /\ n \in Nat /\ n # 0 /\ 1 \in 1 .. n
    BY DEF Captions, Agendas
<1>2. Head(planned) = planned[1] /\ Words(planned[1].text) \in Seq(Nat)
    <2>1. planned[1] \in [text : Texts, kind : Handings]
        BY <1>1, ElementOfSeq, Zenon DEF Agendas
    <2>2. planned[1].text \in Texts
        BY <2>1
    <2> QED
        BY <2>2, TextWords DEF Agendas
<1>3. e \in [words : Seq(Nat), kind : Handings] /\ e.words = Words(planned[1].text)
    BY <1>2
<1> HIDE DEF e
<1>4. /\ more \in Captions /\ Len(more) = m + 1 /\ more[m + 1] = e
      /\ \A i \in 1 .. m : more[i] = shown[i]
    BY <1>1, <1>3, AppendProperties DEF Captions
<1>5. rest \in Agendas /\ Len(rest) = n - 1 /\ \A i \in 1 .. n - 1 : rest[i] = planned[i + 1]
    BY <1>1, HeadTailProperties DEF Agendas
<1> DEFINE L == LineOf(shown, planned)
           M == LineOf(more, rest)
<1> HIDE DEF more, rest, m, n, L, M
<1>6. /\ L \in Seq(Seq(Nat)) /\ Len(L) = m + n
      /\ \A i \in 1 .. m : L[i] = shown[i].words
      /\ \A i \in 1 .. n : L[m + i] = Words(planned[i].text)
    BY LineWords DEF L, m, n
<1>7. /\ M \in Seq(Seq(Nat)) /\ Len(M) = (m + 1) + (n - 1)
      /\ \A i \in 1 .. m + 1 : M[i] = more[i].words
      /\ \A i \in 1 .. n - 1 : M[(m + 1) + i] = Words(rest[i].text)
    <2>1. /\ M \in Seq(Seq(Nat)) /\ Len(M) = Len(more) + Len(rest)
          /\ \A i \in 1 .. Len(more) : M[i] = more[i].words
          /\ \A i \in 1 .. Len(rest) : M[Len(more) + i] = Words(rest[i].text)
        BY <1>4, <1>5, LineWords DEF M
    <2> QED
        BY <1>4, <1>5, <2>1
<1>8. Len(M) = Len(L)
    BY <1>1, <1>6, <1>7
<1>9. ASSUME NEW i \in 1 .. m + n PROVE M[i] = L[i]
    <2>1. CASE i <= m
        <3>1. i \in 1 .. m /\ i \in 1 .. m + 1
            BY <1>1, <2>1
        <3> QED
            BY <1>4, <1>6, <1>7, <3>1
    <2>2. CASE i = m + 1
        <3>1. M[i] = e.words
            BY <1>1, <1>4, <1>7, <2>2
        <3> QED
            BY <1>1, <1>3, <1>6, <2>2, <3>1
    <2>3. CASE i > m + 1
        <3> DEFINE j == i - (m + 1)
        <3>1. j \in 1 .. n - 1 /\ i = (m + 1) + j /\ i = m + (j + 1) /\ j + 1 \in 1 .. n
            BY <1>1, <2>3
        <3> HIDE DEF j
        <3>2. M[i] = Words(rest[j].text) /\ rest[j] = planned[j + 1]
            BY <1>5, <1>7, <3>1
        <3> QED
            BY <1>6, <3>1, <3>2
    <2> QED
        BY <1>1, <2>1, <2>2, <2>3
<1>10. M = L
    BY <1>6, <1>7, <1>8, <1>9, SeqEqual
<1> QED
    BY <1>4, <1>5, <1>10 DEF more, rest, L, M, e

\* What two sequences are, one after the other.
LEMMA Join ==
    ASSUME NEW T, NEW L \in Seq(T), NEW Q \in Seq(T)
    PROVE  /\ L \o Q \in Seq(T) /\ Len(L \o Q) = Len(L) + Len(Q)
           /\ Len(L) \in Nat /\ Len(Q) \in Nat
           /\ DOMAIN L = 1 .. Len(L) /\ DOMAIN Q = 1 .. Len(Q)
           /\ DOMAIN (L \o Q) = 1 .. Len(L) + Len(Q)
           /\ \A i \in 1 .. Len(L) : (L \o Q)[i] = L[i]
           /\ \A i \in 1 .. Len(Q) : (L \o Q)[Len(L) + i] = Q[i]
           /\ \A i \in 1 .. Len(L) + Len(Q) : i \in 1 .. Len(L) \/ \E j \in 1 .. Len(Q) : i = Len(L) + j
<1>1. /\ L \o Q \in Seq(T) /\ Len(L \o Q) = Len(L) + Len(Q)
      /\ Len(L) \in Nat /\ Len(Q) \in Nat
      /\ DOMAIN L = 1 .. Len(L) /\ DOMAIN Q = 1 .. Len(Q)
      /\ \A i \in 1 .. Len(L) + Len(Q) : (L \o Q)[i] = IF i <= Len(L) THEN L[i] ELSE Q[i - Len(L)]
    BY ConcatProperties
<1> DEFINE M == L \o Q
           m == Len(L)
           n == Len(Q)
<1>2. DOMAIN M = 1 .. m + n
    BY <1>1
<1> HIDE DEF M, m, n
<1>3. m \in Nat /\ n \in Nat /\ \A i \in 1 .. m + n : M[i] = IF i <= m THEN L[i] ELSE Q[i - m]
    BY <1>1 DEF M, m, n
<1>4. \A i \in 1 .. m : M[i] = L[i]
    BY <1>3
<1>5. ASSUME NEW i \in 1 .. n PROVE M[m + i] = Q[i]
    <2>1. m + i \in 1 .. m + n /\ ~(m + i <= m) /\ (m + i) - m = i
        BY <1>3
    <2> QED
        BY <1>3, <2>1
<1>6. ASSUME NEW i \in 1 .. m + n PROVE i \in 1 .. m \/ \E j \in 1 .. n : i = m + j
    <2>1. CASE i <= m
        BY <1>3, <2>1
    <2>2. CASE ~(i <= m)
        <3>1. i - m \in 1 .. n /\ i = m + (i - m)
            BY <1>3, <2>2
        <3> QED
            BY <3>1
    <2> QED
        BY <2>1, <2>2
<1> QED
    BY <1>1, <1>2, <1>4, <1>5, <1>6 DEF M, m, n

LEMMA LineJoin ==
    ASSUME NEW L \in Seq(Seq(Nat)), NEW Q \in Seq(Seq(Nat))
    PROVE  /\ L \o Q \in Seq(Seq(Nat)) /\ Len(L \o Q) = Len(L) + Len(Q)
           /\ \A i \in 1 .. Len(L) : (L \o Q)[i] = L[i]
           /\ \A i \in 1 .. Len(Q) : (L \o Q)[Len(L) + i] = Q[i]
           /\ \A i \in 1 .. Len(L) + Len(Q) : i \in 1 .. Len(L) \/ \E j \in 1 .. Len(Q) : i = Len(L) + j
    BY Join

LEMMA WordsJoin ==
    ASSUME NEW L \in Seq(Nat), NEW Q \in Seq(Nat)
    PROVE  /\ L \o Q \in Seq(Nat) /\ Len(L \o Q) = Len(L) + Len(Q)
           /\ Len(L) \in Nat /\ Len(Q) \in Nat
           /\ DOMAIN L = 1 .. Len(L) /\ DOMAIN Q = 1 .. Len(Q)
           /\ DOMAIN (L \o Q) = 1 .. Len(L) + Len(Q)
           /\ \A i \in 1 .. Len(L) : (L \o Q)[i] = L[i]
           /\ \A i \in 1 .. Len(Q) : (L \o Q)[Len(L) + i] = Q[i]
           /\ \A i \in 1 .. Len(L) + Len(Q) : i \in 1 .. Len(L) \/ \E j \in 1 .. Len(Q) : i = Len(L) + j
    BY Join

\* Sentences that come after the line join it in the order of the speech.
LEMMA LineGrows ==
    ASSUME NEW L \in Seq(Seq(Nat)), NEW Q \in Seq(Seq(Nat)),
           InOrderOfSpeech(L), InOrderOfSpeech(Q),
           \A i \in DOMAIN L, k \in DOMAIN Q : Before(L[i], Q[k])
    PROVE  InOrderOfSpeech(L \o Q)
<1> DEFINE M == L \o Q
           m == Len(L)
           n == Len(Q)
<1>1. /\ m \in Nat /\ n \in Nat
      /\ DOMAIN L = 1 .. m /\ DOMAIN Q = 1 .. n /\ DOMAIN M = 1 .. m + n
      /\ \A i \in 1 .. m : M[i] = L[i]
      /\ \A i \in 1 .. n : M[m + i] = Q[i]
      /\ \A i \in 1 .. m + n : i \in 1 .. m \/ \E j \in 1 .. n : i = m + j
    BY Join
<1> HIDE DEF M, m, n
<1>2. ASSUME NEW i \in 1 .. m + n PROVE Rising(M[i])
    <2>1. CASE i \in 1 .. m
        BY <1>1, <2>1 DEF InOrderOfSpeech
    <2>2. ASSUME NEW j \in 1 .. n, i = m + j PROVE Rising(M[i])
        BY <1>1, <2>2 DEF InOrderOfSpeech
    <2> QED
        BY <1>1, <2>1, <2>2
<1>3. ASSUME NEW i \in 1 .. m + n, NEW k \in 1 .. m + n, i < k PROVE Before(M[i], M[k])
    <2>1. CASE k \in 1 .. m
        <3>1. i \in 1 .. m
            BY <1>1, <1>3, <2>1
        <3> QED
            BY <1>1, <1>3, <2>1, <3>1 DEF InOrderOfSpeech
    <2>2. ASSUME NEW j \in 1 .. n, k = m + j PROVE Before(M[i], M[k])
        <3>1. CASE i \in 1 .. m
            BY <1>1, <2>2, <3>1
        <3>2. ASSUME NEW h \in 1 .. n, i = m + h PROVE Before(M[i], M[k])
            <4>1. h < j
                BY <1>1, <1>3, <2>2, <3>2
            <4>2. M[i] = Q[h] /\ M[k] = Q[j]
                BY <1>1, <2>2, <3>2
            <4> QED
                BY <1>1, <4>1, <4>2 DEF InOrderOfSpeech
        <3> QED
            BY <1>1, <3>1, <3>2
    <2> QED
        BY <1>1, <2>1, <2>2
<1> QED
    BY <1>1, <1>2, <1>3 DEF InOrderOfSpeech, M

LEMMA LineHas ==
    ASSUME NEW L \in Seq(Seq(Nat)), NEW Q \in Seq(Seq(Nat))
    PROVE  \A w : Has(L \o Q, w) <=> Has(L, w) \/ Has(Q, w)
<1> DEFINE M == L \o Q
           m == Len(L)
           n == Len(Q)
<1>1. /\ m \in Nat /\ n \in Nat
      /\ DOMAIN L = 1 .. m /\ DOMAIN Q = 1 .. n /\ DOMAIN M = 1 .. m + n
      /\ \A i \in 1 .. m : M[i] = L[i]
      /\ \A i \in 1 .. n : M[m + i] = Q[i]
      /\ \A i \in 1 .. m + n : i \in 1 .. m \/ \E j \in 1 .. n : i = m + j
    BY Join
<1> HIDE DEF M, m, n
<1> SUFFICES ASSUME NEW w PROVE Has(M, w) <=> Has(L, w) \/ Has(Q, w)
    BY DEF M
<1>2. ASSUME NEW i \in 1 .. m PROVE i \in DOMAIN M /\ M[i] = L[i]
    BY <1>1
<1>3. ASSUME NEW i \in 1 .. n PROVE m + i \in DOMAIN M /\ M[m + i] = Q[i]
    BY <1>1
<1>4. ASSUME Has(M, w) PROVE Has(L, w) \/ Has(Q, w)
    <2>1. PICK i \in 1 .. m + n : \E k \in DOMAIN M[i] : M[i][k] = w
        BY <1>1, <1>4 DEF Has
    <2>2. CASE i \in 1 .. m
        BY <1>1, <2>1, <2>2 DEF Has
    <2>3. ASSUME NEW j \in 1 .. n, i = m + j PROVE Has(Q, w)
        <3>1. M[i] = Q[j] /\ j \in DOMAIN Q
            BY <1>1, <2>3
        <3> QED
            BY <2>1, <3>1, Zenon DEF Has
    <2> QED
        BY <1>1, <2>2, <2>3
<1>5. ASSUME Has(L, w) PROVE Has(M, w)
    BY <1>1, <1>2, <1>5 DEF Has
<1>6. ASSUME Has(Q, w) PROVE Has(M, w)
    BY <1>1, <1>3, <1>6 DEF Has
<1> QED
    BY <1>4, <1>5, <1>6

\* Every sentence of the joined line is one of the two.
LEMMA LineOneOf ==
    ASSUME NEW L \in Seq(Seq(Nat)), NEW Q \in Seq(Seq(Nat)), NEW i \in DOMAIN (L \o Q)
    PROVE  (\E j \in DOMAIN L : (L \o Q)[i] = L[j]) \/ (\E j \in DOMAIN Q : (L \o Q)[i] = Q[j])
<1> DEFINE M == L \o Q
           m == Len(L)
           n == Len(Q)
<1>1. /\ DOMAIN L = 1 .. m /\ DOMAIN Q = 1 .. n /\ i \in 1 .. m + n
      /\ \A j \in 1 .. m : M[j] = L[j]
      /\ \A j \in 1 .. n : M[m + j] = Q[j]
      /\ i \in 1 .. m \/ \E j \in 1 .. n : i = m + j
    BY Join
<1> HIDE DEF M, m, n
<1>2. CASE i \in 1 .. m
    BY <1>1, <1>2, Zenon DEF M
<1>3. ASSUME NEW j \in 1 .. n, i = m + j PROVE M[i] = Q[j]
    BY <1>1, <1>3
<1> QED
    BY <1>1, <1>2, <1>3, Zenon DEF M

LEMMA LineAgenda ==
    ASSUME NEW shown \in Captions, NEW P \in Seq(Texts), NEW k \in Handings
    PROVE  /\ Agenda(P, k) \in Agendas /\ Said(P) \in Seq(Seq(Nat))
           /\ LineOf(shown, <<>>) \in Seq(Seq(Nat))
           /\ LineOf(shown, Agenda(P, k)) = LineOf(shown, <<>>) \o Said(P)
           /\ DOMAIN Said(P) = DOMAIN P /\ DOMAIN Agenda(P, k) = DOMAIN P
           /\ \A i \in DOMAIN P : Said(P)[i] = Words(P[i]) /\ Agenda(P, k)[i].text = P[i]
<1> DEFINE A == Agenda(P, k)
           S == Said(P)
           m == Len(shown)
           n == Len(P)
<1>1. m \in Nat /\ n \in Nat /\ DOMAIN P = 1 .. n
    BY DEF Captions
<1>2. \A i \in 1 .. n : P[i] \in Texts
    OBVIOUS
<1>3. A = [i \in 1 .. n |-> [text |-> P[i], kind |-> k]]
    BY <1>1 DEF Agenda
<1>4. S = [i \in 1 .. n |-> Words(P[i])]
    BY <1>1 DEF Said
<1> HIDE DEF A, S, m, n
<1>5. A \in Agendas /\ Len(A) = n /\ DOMAIN A = 1 .. n /\ \A i \in 1 .. n : A[i].text = P[i]
    <2> DEFINE E == [text : Texts, kind : Handings]
    <2>1. A \in [1 .. n -> E]
        BY <1>2, <1>3
    <2>2. \A i \in 1 .. n : A[i].text = P[i]
        BY <1>3
    <2> HIDE DEF E
    <2>3. A \in Seq(E) /\ Len(A) = n
        BY <1>1, <2>1
    <2> QED
        BY <2>1, <2>2, <2>3 DEF Agendas, E
<1>6. S \in Seq(Seq(Nat)) /\ Len(S) = n /\ DOMAIN S = 1 .. n /\ \A i \in 1 .. n : S[i] = Words(P[i])
    <2>1. \A i \in 1 .. n : Words(P[i]) \in Seq(Nat)
        BY <1>2, TextWords
    <2>2. S \in [1 .. n -> Seq(Nat)]
        BY <1>4, <2>1
    <2> QED
        BY <1>1, <1>4, <2>2
<1> DEFINE L == LineOf(shown, <<>>)
           M == LineOf(shown, A)
           R == L \o S
<1>7. <<>> \in Agendas /\ Len(<<>>) = 0
    BY DEF Agendas
<1>8. L \in Seq(Seq(Nat)) /\ Len(L) = m /\ \A i \in 1 .. m : L[i] = shown[i].words
    <2> HIDE DEF L
    <2>1. L \in Seq(Seq(Nat)) /\ Len(L) = Len(shown) + Len(<<>>) /\ \A i \in 1 .. Len(shown) : L[i] = shown[i].words
        BY <1>7, LineWords, Zenon DEF L
    <2> QED
        BY <1>1, <2>1 DEF m
<1>9. /\ M \in Seq(Seq(Nat)) /\ Len(M) = m + n
      /\ \A i \in 1 .. m : M[i] = shown[i].words
      /\ \A i \in 1 .. n : M[m + i] = Words(A[i].text)
    BY <1>5, LineWords DEF m
<1> HIDE DEF L, M
<1>10. /\ R \in Seq(Seq(Nat)) /\ Len(R) = m + n
       /\ \A i \in 1 .. m : R[i] = L[i]
       /\ \A i \in 1 .. n : R[m + i] = S[i]
       /\ \A i \in 1 .. m + n : i \in 1 .. m \/ \E j \in 1 .. n : i = m + j
    <2>1. /\ R \in Seq(Seq(Nat)) /\ Len(R) = Len(L) + Len(S)
          /\ \A i \in 1 .. Len(L) : R[i] = L[i]
          /\ \A i \in 1 .. Len(S) : R[Len(L) + i] = S[i]
          /\ \A i \in 1 .. Len(L) + Len(S) : i \in 1 .. Len(L) \/ \E j \in 1 .. Len(S) : i = Len(L) + j
        BY <1>6, <1>8, LineJoin
    <2> HIDE DEF R
    <2>2. Len(L) = m /\ Len(S) = n
        BY <1>6, <1>8
    <2> QED
        BY <2>1, <2>2
<1> HIDE DEF R
<1>11. ASSUME NEW i \in 1 .. m + n PROVE M[i] = R[i]
    <2>1. CASE i \in 1 .. m
        BY <1>8, <1>9, <1>10, <2>1
    <2>2. ASSUME NEW j \in 1 .. n, i = m + j PROVE M[i] = R[i]
        BY <1>5, <1>6, <1>9, <1>10, <2>2
    <2> QED
        BY <1>10, <2>1, <2>2
<1>12. M = R
    BY <1>9, <1>10, <1>11, SeqEqual
<1> QED
    BY <1>1, <1>5, <1>6, <1>8, <1>12 DEF A, S, L, M, R

LEMMA LineCaption ==
    ASSUME NEW shown \in Captions, NEW w \in Seq(Nat), NEW k \in Handings
    PROVE  LET more == Append(shown, [words |-> w, kind |-> k]) IN
           /\ more \in Captions /\ <<w>> \in Seq(Seq(Nat))
           /\ LineOf(more, <<>>) = LineOf(shown, <<>>) \o << w >>
<1> DEFINE e == [words |-> w, kind |-> k]
           more == Append(shown, e)
           m == Len(shown)
<1>1. m \in Nat /\ e \in [words : Seq(Nat), kind : Handings] /\ e.words = w
    BY DEF Captions
<1> HIDE DEF e
<1>2. /\ more \in Captions /\ Len(more) = m + 1 /\ more[m + 1] = e
      /\ \A i \in 1 .. m : more[i] = shown[i]
    BY <1>1, AppendProperties DEF Captions
<1> DEFINE L == LineOf(shown, <<>>)
           M == LineOf(more, <<>>)
           S == <<w>>
           R == L \o S
<1>3. <<>> \in Agendas /\ Len(<<>>) = 0
    BY DEF Agendas
<1>4. L \in Seq(Seq(Nat)) /\ Len(L) = m /\ \A i \in 1 .. m : L[i] = shown[i].words
    <2> HIDE DEF L
    <2>1. L \in Seq(Seq(Nat)) /\ Len(L) = Len(shown) + Len(<<>>) /\ \A i \in 1 .. Len(shown) : L[i] = shown[i].words
        BY <1>3, LineWords, Zenon DEF L
    <2> QED
        BY <1>1, <2>1 DEF m
<1>5. M \in Seq(Seq(Nat)) /\ Len(M) = m + 1 /\ \A i \in 1 .. m + 1 : M[i] = more[i].words
    <2> HIDE DEF M, more
    <2>1. M \in Seq(Seq(Nat)) /\ Len(M) = Len(more) + Len(<<>>) /\ \A i \in 1 .. Len(more) : M[i] = more[i].words
        BY <1>2, <1>3, LineWords, Zenon DEF M
    <2> QED
        BY <1>1, <1>2, <2>1 DEF m
<1>6. S \in Seq(Seq(Nat)) /\ Len(S) = 1 /\ S[1] = w
    OBVIOUS
<1> HIDE DEF L, M, S, more, m
<1>7. /\ R \in Seq(Seq(Nat)) /\ Len(R) = m + 1
      /\ \A i \in 1 .. m : R[i] = L[i]
      /\ R[m + 1] = w
    <2>1. /\ R \in Seq(Seq(Nat)) /\ Len(R) = Len(L) + Len(S)
          /\ \A i \in 1 .. Len(L) : R[i] = L[i]
          /\ \A i \in 1 .. Len(S) : R[Len(L) + i] = S[i]
        BY <1>4, <1>6, LineJoin
    <2> HIDE DEF R
    <2>2. Len(L) = m /\ Len(S) = 1 /\ 1 \in 1 .. Len(S)
        BY <1>4, <1>6
    <2> QED
        BY <1>6, <2>1, <2>2
<1> HIDE DEF R
<1>8. ASSUME NEW i \in 1 .. m + 1 PROVE M[i] = R[i]
    <2>1. CASE i = m + 1
        BY <1>1, <1>2, <1>5, <1>7, <2>1
    <2>2. CASE i # m + 1
        <3>1. i \in 1 .. m
            BY <1>1, <2>2
        <3> QED
            BY <1>1, <1>2, <1>4, <1>5, <1>7, <3>1
    <2> QED
        BY <2>1, <2>2
<1>9. M = R
    BY <1>5, <1>7, <1>8, SeqEqual
<1> QED
    BY <1>2, <1>6, <1>9 DEF more, L, M, S, R, e

-----------------------------------------------------------------------------
(* The check for a duplicate.                                              *)

LEMMA PartOf ==
    ASSUME NEW a \in Seq(Nat), NEW b \in Seq(Nat), a # <<>>, Within(a, b)
    PROVE  \E i \in DOMAIN b : a[1] = b[i]
<1>1. PICK i \in 0 .. Len(b) - Len(a) : SubSeq(b, i + 1, i + Len(a)) = a
    BY DEF Within
<1>2. Len(a) \in Nat /\ Len(b) \in Nat /\ DOMAIN b = 1 .. Len(b) /\ Len(a) # 0
    OBVIOUS
<1>3. i \in Nat /\ i + 1 \in 1 .. Len(b) /\ i + Len(a) <= Len(b) /\ 1 \in 1 .. Len(a)
    BY <1>2
<1>4. SubSeq(b, i + 1, i + Len(a))[1] = b[i + 1]
    BY <1>2, <1>3
<1>5. a[1] = b[i + 1]
    BY <1>1, <1>4
<1> QED
    BY <1>2, <1>3, <1>5

\* A sentence that comes after the last one handed in is not a duplicate.
LEMMA NotDuplicate ==
    ASSUME lastFinal \in Seq(Nat), NEW s \in Texts, Before(lastFinal, Words(s))
    PROVE  ~IsDuplicateFinal(s) /\ lastFinal \in Seq(Nat) /\ Words(s) \in Seq(Nat)
<1> DEFINE now == Words(s)
<1>1. now \in Seq(Nat)
    BY TextWords
<1> HIDE DEF now
<1>2. \A i \in DOMAIN lastFinal, j \in DOMAIN now : lastFinal[i] < now[j]
    BY DEF Before, now
<1>3. SUFFICES ASSUME now # <<>>, lastFinal # <<>>, now = lastFinal \/ Within(now, lastFinal) \/ Within(lastFinal, now)
      PROVE FALSE
    BY <1>1 DEF IsDuplicateFinal, now
<1>4. /\ 1 \in DOMAIN now /\ 1 \in DOMAIN lastFinal
      /\ \A i \in DOMAIN now : now[i] \in Nat
      /\ \A i \in DOMAIN lastFinal : lastFinal[i] \in Nat
    BY <1>1, <1>3
<1>5. CASE now = lastFinal
    BY <1>2, <1>4, <1>5
<1>6. CASE Within(now, lastFinal)
    <2>1. PICK i \in DOMAIN lastFinal : now[1] = lastFinal[i]
        BY <1>1, <1>3, <1>6, PartOf
    <2> QED
        BY <1>2, <1>4, <2>1
<1>7. CASE Within(lastFinal, now)
    <2>1. PICK i \in DOMAIN now : lastFinal[1] = now[i]
        BY <1>1, <1>3, <1>7, PartOf
    <2> QED
        BY <1>2, <1>4, <2>1
<1> QED
    BY <1>3, <1>5, <1>6, <1>7

-----------------------------------------------------------------------------
(* What the recogniser makes of the words it hears.                        *)

LEMMA RunOf ==
    ASSUME NEW b \in Int, NEW n \in Nat
    PROVE  /\ DOMAIN Run(b, n) = 1 .. n /\ Len(Run(b, n)) = n
           /\ \A i \in 1 .. n : Run(b, n)[i] = b + i
           /\ b \in Nat => Run(b, n) \in Seq(Nat)
<1>1. Run(b, n) = [i \in 1 .. n |-> b + i]
    BY DEF Run
<1>2. Run(b, n) \in [1 .. n -> Int]
    BY <1>1
<1>3. Len(Run(b, n)) = n
    BY <1>2
<1>4. b \in Nat => Run(b, n) \in [1 .. n -> Nat]
    BY <1>1
<1> QED
    BY <1>1, <1>3, <1>4

LEMMA SetupTypes ==
    ASSUME setup \in Setups
    PROVE  setup.stops \in {"always", "perhaps", "never"} /\ setup.ended \in {"always", "perhaps", "stopped"}
<1> DEFINE R == [inline : BOOLEAN, restores : BOOLEAN, capitals : BOOLEAN,
             partials : BOOLEAN, stops : {"always", "perhaps", "never"},
             ended : {"always", "perhaps", "stopped"}, retracts : BOOLEAN,
             echoes : {{}}, mishears : {{}}]
           s == [setup EXCEPT !.echoes = {}, !.mishears = {}]
<1>1. s \in R
    BY AssemblyConstants
<1>2. s.stops \in {"always", "perhaps", "never"} /\ s.ended \in {"always", "perhaps", "stopped"}
    BY <1>1
<1>3. "stops" \in DOMAIN s /\ "ended" \in DOMAIN s
    BY <1>1
<1>4. s.stops = setup.stops /\ s.ended = setup.ended
    BY <1>3
<1> QED
    BY <1>2, <1>4

LEMMA HeardTexts ==
    ASSUME setup \in Setups, Steady, NEW from \in Nat \ {0}, NEW to \in Nat, from <= to,
           NEW text \in Heard(from, to)
    PROVE  /\ text \in Texts /\ text # <<>>
           /\ Words(text) = Run(from - 1, to - from + 1)
           /\ setup.stops = "never" => \A i \in DOMAIN text : ~text[i].stop
<1> DEFINE written == CASE setup.stops = "always" -> {ends}
                        [] setup.stops = "perhaps" -> SUBSET (ends \cap from .. to)
                        [] setup.stops = "never" -> {{}}
           token(word, stops, wrong) ==
             [word |-> IF word \in wrong THEN -word ELSE word,
              stop |-> word \in stops,
              capital |-> setup.capitals /\ (word = 1 \/ word - 1 \in ends)]
           n == to - from + 1
<1>1. PICK stops \in written, wrong \in SUBSET (setup.mishears \cap from .. to) :
            text = [i \in 1 .. n |-> token(from + i - 1, stops, wrong)]
    <2> DEFINE W == SUBSET (setup.mishears \cap from .. to)
               F(stops, wrong) == [i \in 1 .. n |-> token(from + i - 1, stops, wrong)]
    <2>0. Heard(from, to) = {F(stops, wrong) : stops \in written, wrong \in W}
        BY DEF Heard
    <2> HIDE DEF F, W, written
    <2>1. text \in {F(stops, wrong) : stops \in written, wrong \in W}
        BY <2>0
    <2>2. \E stops \in written, wrong \in W : text = F(stops, wrong)
        BY <2>1
    <2> QED
        BY <2>2, Zenon DEF F, W, written
<1>2. wrong = {}
    BY <1>1 DEF Steady
<1>3. setup.stops = "never" => stops = {}
    BY <1>1
<1> HIDE DEF written
<1>4. text = [i \in 1 .. n |->
                [word |-> from + i - 1, stop |-> from + i - 1 \in stops,
                 capital |-> setup.capitals /\ (from + i - 1 = 1 \/ from + i - 1 - 1 \in ends)]]
    BY <1>1, <1>2
<1>5. n \in Nat /\ n # 0 /\ \A i \in 1 .. n : from + i - 1 \in Nat /\ from + i - 1 = from - 1 + i
    OBVIOUS
<1> HIDE DEF n
<1>6. text \in [1 .. n -> Tokens]
    <2> DEFINE cap(i) == setup.capitals /\ (from + i - 1 = 1 \/ from + i - 1 - 1 \in ends)
    <2>1. text = [i \in 1 .. n |-> [word |-> from + i - 1, stop |-> from + i - 1 \in stops, capital |-> cap(i)]]
        BY <1>4
    <2>2. \A i \in 1 .. n : cap(i) \in BOOLEAN
        OBVIOUS
    <2> HIDE DEF cap
    <2> QED
        BY <1>5, <2>1, <2>2 DEF Tokens
<1>7. /\ DOMAIN text = 1 .. n
      /\ \A i \in 1 .. n : text[i].word = from - 1 + i
      /\ \A i \in 1 .. n : text[i].stop = (from + i - 1 \in stops)
    BY <1>4, <1>5
<1>8. text \in Texts /\ Len(text) = n /\ text # <<>>
    BY <1>5, <1>6 DEF Texts
<1>9. Words(text) = Run(from - 1, n)
    BY <1>7 DEF Words, Run
<1> QED
    BY <1>3, <1>7, <1>8, <1>9 DEF n

LEMMA EndedTypes ==
    ASSUME setup \in Setups, NEW text \in Texts
    PROVE  EndsSentence(text) \subseteq BOOLEAN
<1>1. Stopped(text) \in BOOLEAN
    <2>1. CASE text = <<>>
        BY <2>1 DEF Stopped
    <2>2. CASE text # <<>>
        <3>1. Len(text) \in 1 .. Len(text)
            BY <2>2 DEF Texts
        <3>2. text[Len(text)].stop \in BOOLEAN
            BY <3>1, TextWords DEF Tokens
        <3> QED
            BY <3>2 DEF Stopped, Last
    <2> QED
        BY <2>1, <2>2
<1> QED
    BY <1>1, SetupTypes DEF EndsSentence

LEMMA RunAfter ==
    ASSUME NEW b \in Nat, NEW n \in Nat, NEW p \in 0 .. n
    PROVE  After(Run(b, n), p) = Run(b + p, n - p)
<1> DEFINE s == Run(b, n)
           t == Run(b + p, n - p)
           a == After(s, p)
<1>1. p \in Nat /\ n - p \in Nat /\ b + p \in Nat
    OBVIOUS
<1>2. s \in Seq(Nat) /\ Len(s) = n /\ \A i \in 1 .. n : s[i] = b + i
    BY RunOf
<1>3. t \in Seq(Nat) /\ Len(t) = n - p /\ \A i \in 1 .. n - p : t[i] = b + p + i
    BY <1>1, RunOf
<1> HIDE DEF s, t
<1>4. a \in Seq(Nat) /\ Len(a) = n - p /\ \A i \in 1 .. n - p : a[i] = s[p + i]
    BY <1>2, RestOfSequence
<1> HIDE DEF a
<1>5. ASSUME NEW i \in 1 .. n - p PROVE a[i] = t[i]
    <2>1. p + i \in 1 .. n
        BY <1>1
    <2> QED
        BY <1>1, <1>2, <1>3, <1>4, <2>1
<1>6. a = t
    BY <1>3, <1>4, <1>5, SeqEqual
<1> QED
    BY <1>6 DEF a, s, t

LEMMA RunJoin ==
    ASSUME NEW b \in Nat, NEW m \in Nat, NEW n \in Nat
    PROVE  Run(b, m) \o Run(b + m, n) = Run(b, m + n)
<1> DEFINE s == Run(b, m)
           t == Run(b + m, n)
           u == Run(b, m + n)
           a == s \o t
<1>1. s \in Seq(Nat) /\ Len(s) = m /\ \A i \in 1 .. m : s[i] = b + i
    BY RunOf
<1>2. t \in Seq(Nat) /\ Len(t) = n /\ \A i \in 1 .. n : t[i] = b + m + i
    BY RunOf
<1>3. u \in Seq(Nat) /\ Len(u) = m + n /\ \A i \in 1 .. m + n : u[i] = b + i
    BY RunOf
<1> HIDE DEF s, t, u
<1>4. /\ a \in Seq(Nat) /\ Len(a) = Len(s) + Len(t)
      /\ \A i \in 1 .. Len(s) : a[i] = s[i]
      /\ \A i \in 1 .. Len(t) : a[Len(s) + i] = t[i]
      /\ \A i \in 1 .. Len(s) + Len(t) : i \in 1 .. Len(s) \/ \E j \in 1 .. Len(t) : i = Len(s) + j
    BY <1>1, <1>2, WordsJoin
<1> HIDE DEF a
<1>5. ASSUME NEW i \in 1 .. m + n PROVE a[i] = u[i]
    <2>1. CASE i \in 1 .. m
        BY <1>1, <1>3, <1>4, <2>1
    <2>2. ASSUME NEW j \in 1 .. n, i = m + j PROVE a[i] = u[i]
        <3>1. a[Len(s) + j] = t[j] /\ Len(s) = m
            BY <1>1, <1>2, <1>4
        <3>2. t[j] = b + m + j /\ u[i] = b + i
            BY <1>2, <1>3
        <3>3. a[i] = t[j]
            BY <2>2, <3>1
        <3> QED
            BY <2>2, <3>2, <3>3
    <2> QED
        BY <1>1, <1>2, <1>4, <2>1, <2>2
<1>6. a = u
    BY <1>1, <1>2, <1>3, <1>4, <1>5, SeqEqual
<1> QED
    BY <1>6 DEF a, s, t, u

-----------------------------------------------------------------------------
(* Overlaps between a final and the one before it.                         *)

LEMMA GreaterOf ==
    ASSUME NEW a \in Int, NEW b \in Int
    PROVE  Max({a, b}) >= a /\ Max({a, b}) >= b /\ (Max({a, b}) = a \/ Max({a, b}) = b)
<1> DEFINE m == IF a >= b THEN a ELSE b
           U == {a, b}
<1>1. m \in U /\ \A y \in U : m >= y /\ y \in Int
    OBVIOUS
<1>2. Max(U) = CHOOSE x \in U : \A y \in U : x >= y
    BY DEF Max
<1> HIDE DEF m, U
<1>3. Max(U) \in U /\ \A y \in U : Max(U) >= y
    BY <1>1, <1>2
<1> QED
    BY <1>3 DEF U

LEMMA WindowOf ==
    ASSUME NEW b \in Nat
    PROVE  /\ Window(b) \in Nat /\ Window(b) <= b /\ Window(b) <= OverlapWords
           /\ Window(b) = b \/ Window(b) = OverlapWords
           /\ b - Window(b) \in Nat
    BY ExtractorConstants DEF Window

LEMMA LeastOf ==
    ASSUME NEW a \in Nat, NEW b \in Nat, NEW c \in Nat
    PROVE  LET m == Min({a, b, c}) IN
           m \in Nat /\ m <= a /\ m <= b /\ m <= c /\ (m = a \/ m = b \/ m = c)
<1> DEFINE U == {a, b, c}
           n == IF a <= b /\ a <= c THEN a ELSE IF b <= c THEN b ELSE c
<1>1. n \in U /\ \A y \in U : n <= y
    OBVIOUS
<1>2. Min(U) = CHOOSE x \in U : \A y \in U : x <= y
    BY DEF Min
<1> HIDE DEF n, U
<1>3. Min(U) \in U /\ \A y \in U : Min(U) <= y
    BY <1>1, <1>2
<1> QED
    BY <1>3 DEF U

\* Of the words after d - e, a final that repeats the e before d keeps those
\* after d.
LEMMA Repeated ==
    ASSUME NEW chunk \in Texts, NEW recent \in Seq(Nat),
           NEW b \in Nat, NEW d \in Nat, b <= d, NEW e \in 0 .. b, NEW n \in Nat,
           Words(chunk) = Run(d - e, n + e),
           \A k \in DOMAIN recent : recent[k] <= b,
           e # 0 => /\ d = b /\ e \in MinOverlapWords .. OverlapWords
                    /\ recent = LastWords(b)
    PROVE  /\ StripLeadingOverlap(chunk, recent) \in Texts
           /\ Words(StripLeadingOverlap(chunk, recent)) = Run(d, n)
<1> DEFINE W == Words(chunk)
           L == Len(recent)
           repeats(k) == SubSeq(W, 1, k) = SubSeq(recent, L - k + 1, L)
           least == Min({OverlapWords, L, Len(chunk)})
           O == {k \in MinOverlapWords .. least : repeats(k)}
           m == Window(b)
<1>0. StripLeadingOverlap(chunk, recent) = After(chunk, LastOrZero(O))
    BY DEF StripLeadingOverlap
<1>1. /\ L \in Nat /\ OverlapWords \in Nat /\ MinOverlapWords \in Nat /\ MinOverlapWords >= 1
      /\ e \in Nat /\ e <= b /\ d - e \in Nat
    BY ExtractorConstants
<1>2. Len(chunk) = n + e /\ W \in Seq(Nat) /\ Len(W) = n + e /\ \A i \in 1 .. n + e : W[i] = d - e + i
    <2> DEFINE c == d - e
               l == n + e
    <2>1. c \in Int /\ l \in Nat /\ W = Run(c, l)
        BY <1>1
    <2> HIDE DEF c, l, W
    <2>2. Len(W) = l /\ \A i \in 1 .. l : W[i] = c + i
        BY <2>1, RunOf
    <2>3. W \in Seq(Nat) /\ Len(W) = Len(chunk)
        BY TextWords DEF W
    <2> QED
        BY <2>2, <2>3 DEF c, l
<1>3. least \in Nat /\ least <= OverlapWords /\ least <= L /\ least <= n + e
      /\ (least = OverlapWords \/ least = L \/ least = n + e)
    <2>1. L \in Nat /\ Len(chunk) \in Nat /\ OverlapWords \in Nat
        BY <1>1, <1>2
    <2>2. least \in Nat /\ least <= OverlapWords /\ least <= L /\ least <= Len(chunk)
          /\ (least = OverlapWords \/ least = L \/ least = Len(chunk))
        <3> HIDE DEF L
        <3> QED
            BY <2>1, LeastOf
    <2> HIDE DEF least, L
    <2> QED
        BY <1>2, <2>2
<1>4. recent \in Seq(Nat) /\ \A k \in 1 .. L : recent[k] \in Nat /\ recent[k] <= b
    OBVIOUS
<1> HIDE DEF m
<1>51. m \in Nat /\ m <= b /\ m <= OverlapWords /\ (m = b \/ m = OverlapWords) /\ b - m \in Nat
    BY WindowOf DEF m
<1>5. e # 0 => L = m /\ m \in Nat /\ \A i \in 1 .. m : recent[i] = b - m + i
    <2> SUFFICES ASSUME e # 0 PROVE L = m /\ m \in Nat /\ \A i \in 1 .. m : recent[i] = b - m + i
        OBVIOUS
    <2> DEFINE c == b - m
    <2>1. recent = Run(c, m)
        BY DEF LastWords, m
    <2>2. c \in Int /\ m \in Nat
        BY <1>51
    <2> HIDE DEF c, L
    <2>3. Len(Run(c, m)) = m /\ \A i \in 1 .. m : Run(c, m)[i] = c + i
        BY <2>2, RunOf
    <2> QED
        BY <2>1, <2>2, <2>3 DEF c, L
<1> HIDE DEF W, L, least
<1>6. ASSUME NEW k \in O PROVE e # 0 /\ k = e
    <2>1. k \in Nat /\ k >= 1 /\ k <= L /\ k <= n + e /\ SubSeq(W, 1, k) = SubSeq(recent, L - k + 1, L)
        BY <1>1, <1>3
    <2>2. SubSeq(W, 1, k)[k] = W[k]
        BY <1>1, <1>2, <2>1
    <2>3. SubSeq(recent, L - k + 1, L)[k] = recent[L]
        BY <1>1, <1>4, <2>1 DEF L
    <2>4. d - e + k = recent[L] /\ L \in 1 .. L
        BY <1>1, <1>2, <2>1, <2>2, <2>3
    <2>5. recent[L] \in Nat /\ recent[L] <= b
        BY <1>4, <2>4
    <2>6. e # 0
        BY <1>1, <2>1, <2>4, <2>5
    <2>7. L = m /\ m \in Nat /\ L \in 1 .. m /\ \A i \in 1 .. m : recent[i] = b - m + i
        BY <1>5, <2>4, <2>6
    <2>8. recent[L] = b /\ d = b
        BY <1>1, <2>6, <2>7
    <2> QED
        BY <1>1, <2>1, <2>4, <2>6, <2>8
<1>7. ASSUME e # 0 PROVE e \in O
    <2>1. e \in MinOverlapWords .. least /\ e <= L
        BY <1>1, <1>3, <1>5, <1>51, <1>7
    <2> DEFINE s == SubSeq(W, 1, e)
               t == SubSeq(recent, L - e + 1, L)
    <2>2. s \in Seq(Nat) /\ Len(s) = e /\ \A i \in 1 .. e : s[i] = W[i]
        BY <1>1, <1>2
    <2>3. t \in Seq(Nat) /\ Len(t) = e /\ \A i \in 1 .. e : t[i] = recent[L - e + i]
        BY <1>1, <1>4, <2>1 DEF L
    <2> HIDE DEF s, t
    <2>4. ASSUME NEW i \in 1 .. e PROVE s[i] = t[i]
        <3>1. i \in Nat /\ i >= 1 /\ i <= e /\ s[i] = W[i] /\ t[i] = recent[L - e + i] /\ i \in 1 .. n + e
            <4>1. i \in Nat /\ i >= 1 /\ i <= e /\ i \in 1 .. n + e
                BY <1>1
            <4>2. s[i] = W[i]
                BY <2>2
            <4>3. t[i] = recent[L - e + i]
                BY <2>3
            <4> QED
                BY <4>1, <4>2, <4>3
        <3>2. L = m /\ m \in Nat /\ \A j \in 1 .. m : recent[j] = b - m + j
            BY <1>5, <1>7
        <3>3. L - e + i \in 1 .. m
            BY <1>1, <2>1, <3>1, <3>2
        <3>4. recent[L - e + i] = b - m + (L - e + i)
            BY <3>2, <3>3
        <3>5. W[i] = d - e + i /\ d = b
            BY <1>2, <1>7, <3>1
        <3> QED
            BY <1>1, <3>1, <3>2, <3>4, <3>5
    <2>5. s = t
        BY <2>2, <2>3, <2>4, SeqEqual
    <2> QED
        BY <2>1, <2>5 DEF s, t
<1> HIDE DEF O
<1>8. LastOrZero(O) = e
    <2>1. CASE e = 0
        <3>1. O = {}
            BY <1>6, <2>1
        <3> QED
            BY <2>1, <3>1, TheLast, 0 \in Nat
    <2>2. CASE e # 0
        <3>1. O = {e} /\ O \in SUBSET (1 .. e)
            BY <1>1, <1>6, <1>7, <2>2
        <3> QED
            BY <1>1, <3>1, TheLast
    <2> QED
        BY <2>1, <2>2
<1>9. e \in 0 .. Len(chunk)
    BY <1>1, <1>2
<1>10. After(chunk, e) \in Texts /\ Words(After(chunk, e)) = After(W, e)
    BY <1>9, TextAfter DEF W
<1>11. After(W, e) = Run(d, n)
    <2>1. e \in 0 .. n + e /\ n + e \in Nat /\ d - e + e = d /\ n + e - e = n
        BY <1>1
    <2>2. After(Run(d - e, n + e), e) = Run(d - e + e, n + e - e)
        BY <1>1, <2>1, RunAfter
    <2> QED
        BY <2>1, <2>2 DEF W
<1> QED
    BY <1>0, <1>8, <1>10, <1>11

LEMMA Remembered ==
    ASSUME NEW recent \in Seq(Nat), NEW text \in Texts
    PROVE  LET all == recent \o Words(text)
               R == RememberTail(recent, text)
           IN  /\ R \in Seq(Nat)
               /\ \E p \in 0 .. Len(all) :
                    /\ R = After(all, p)
                    /\ p >= Len(all) - OverlapWords /\ (p = 0 \/ p = Len(all) - OverlapWords)
               /\ Len(all) = Len(recent) + Len(text)
               /\ \A i \in DOMAIN R : \/ \E k \in DOMAIN recent : R[i] = recent[k]
                                      \/ \E k \in DOMAIN Words(text) : R[i] = Words(text)[k]
<1> DEFINE W == Words(text)
           all == recent \o W
           R == RememberTail(recent, text)
           p == Max({0, Len(all) - OverlapWords})
<1>1. W \in Seq(Nat) /\ Len(W) = Len(text) /\ Len(text) \in Nat /\ OverlapWords \in Nat
    BY TextWords, ExtractorConstants
<1>2. R = After(all, p)
    BY DEF RememberTail
<1> HIDE DEF W, R
<1>3. /\ all \in Seq(Nat) /\ Len(all) = Len(recent) + Len(W) /\ Len(recent) \in Nat
      /\ DOMAIN recent = 1 .. Len(recent) /\ DOMAIN W = 1 .. Len(W)
      /\ \A i \in 1 .. Len(recent) : all[i] = recent[i]
      /\ \A i \in 1 .. Len(W) : all[Len(recent) + i] = W[i]
      /\ \A i \in 1 .. Len(recent) + Len(W) : i \in 1 .. Len(recent) \/ \E j \in 1 .. Len(W) : i = Len(recent) + j
    BY <1>1, WordsJoin
<1> HIDE DEF all
<1> HIDE DEF p
<1>4. p >= Len(all) - OverlapWords /\ (p = 0 \/ p = Len(all) - OverlapWords) /\ p \in 0 .. Len(all)
    <2>1. 0 \in Int /\ Len(all) - OverlapWords \in Int /\ Len(all) \in Nat
        BY <1>1, <1>3
    <2>2. p >= 0 /\ p >= Len(all) - OverlapWords /\ (p = 0 \/ p = Len(all) - OverlapWords)
        BY <2>1, GreaterOf DEF p
    <2> QED
        BY <1>1, <2>1, <2>2
<1>6. R \in Seq(Nat) /\ Len(R) = Len(all) - p /\ \A i \in 1 .. Len(all) - p : R[i] = all[p + i]
    BY <1>2, <1>3, <1>4, RestOfSequence
<1>7. ASSUME NEW i \in DOMAIN R PROVE (\E k \in DOMAIN recent : R[i] = recent[k]) \/ (\E k \in DOMAIN W : R[i] = W[k])
    <2>1. i \in 1 .. Len(all) - p
        BY <1>6
    <2>2. p + i \in 1 .. Len(recent) + Len(W) /\ R[i] = all[p + i]
        <3>1. Len(all) \in Nat /\ p \in Nat /\ i \in Nat /\ i >= 1 /\ p + i <= Len(all)
            BY <1>3, <1>4, <2>1
        <3>2. R[i] = all[p + i]
            BY <1>6, <2>1
        <3>3. Len(all) = Len(recent) + Len(W)
            BY <1>3
        <3> QED
            BY <3>1, <3>2, <3>3
    <2>3. CASE p + i \in 1 .. Len(recent)
        BY <1>3, <2>2, <2>3
    <2>4. ASSUME NEW j \in 1 .. Len(W), p + i = Len(recent) + j PROVE \E k \in DOMAIN W : R[i] = W[k]
        <3>1. all[Len(recent) + j] = W[j] /\ j \in DOMAIN W
            BY <1>3
        <3> QED
            BY <2>2, <2>4, <3>1
    <2> QED
        BY <1>3, <2>2, <2>3, <2>4
<1> QED
    BY <1>1, <1>2, <1>3, <1>4, <1>6, <1>7 DEF W, R, all

LEMMA RememberedRun ==
    ASSUME NEW text \in Texts, NEW b \in Nat, NEW n \in Nat, Words(text) = Run(b, n)
    PROVE  RememberTail(LastWords(b), text) = LastWords(b + n)
<1> DEFINE m == Window(b)
           l == Window(b + n)
           recent == Run(b - m, m)
           all == recent \o Words(text)
<1>0. recent = LastWords(b)
    BY DEF LastWords
<1>1. /\ OverlapWords \in Nat /\ b + n \in Nat
      /\ m \in Nat /\ m <= b /\ m <= OverlapWords /\ (m = b \/ m = OverlapWords) /\ b - m \in Nat
      /\ l \in Nat /\ l <= b + n /\ l <= OverlapWords /\ (l = b + n \/ l = OverlapWords) /\ b + n - l \in Nat
      /\ l = Window(b + n)
    <2>1. OverlapWords \in Nat /\ b + n \in Nat
        BY ExtractorConstants
    <2>2. m \in Nat /\ m <= b /\ m <= OverlapWords /\ (m = b \/ m = OverlapWords) /\ b - m \in Nat
        BY WindowOf
    <2> DEFINE c == b + n
    <2> HIDE DEF c
    <2>3. LET k == Window(c) IN k \in Nat /\ k <= c /\ k <= OverlapWords /\ (k = c \/ k = OverlapWords) /\ c - k \in Nat
        BY <2>1, WindowOf DEF c
    <2> QED
        BY <2>1, <2>2, <2>3 DEF c
<1> HIDE DEF m, l
<1>11. m \in Nat /\ b - m \in Nat /\ b - m \in Int /\ m + n \in Nat /\ b - m + m = b
    BY <1>1
<1>2. recent \in Seq(Nat) /\ Len(recent) = m
    BY <1>11, RunOf
<1>3. Run(b - m, m) \o Run(b - m + m, n) = Run(b - m, m + n)
    BY <1>11, RunJoin
<1>4. all = Run(b - m, m + n) /\ Len(all) = m + n
    <2>1. all = Run(b - m, m + n)
        BY <1>3, <1>11
    <2> HIDE DEF all
    <2>2. b - m \in Int /\ m + n \in Nat
        BY <1>1
    <2> QED
        BY <2>1, <2>2, RunOf
<1>5. PICK p \in 0 .. Len(all) :
        /\ RememberTail(recent, text) = After(all, p)
        /\ p >= Len(all) - OverlapWords /\ (p = 0 \/ p = Len(all) - OverlapWords)
    BY <1>2, Remembered
<1> HIDE DEF recent, all
<1>6. p \in 0 .. m + n /\ p \in Nat /\ b - m + p = b + n - l /\ m + n - p = l /\ m + n \in Nat
    <2>1. /\ p \in Nat /\ p <= m + n /\ m + n \in Nat
          /\ p >= m + n - OverlapWords /\ (p = 0 \/ p = m + n - OverlapWords)
        BY <1>1, <1>4, <1>5
    <2>2. CASE b <= OverlapWords
        <3>1. m = b
            BY <1>1, <2>2
        <3>2. p = b + n - l
            BY <1>1, <2>1, <3>1
        <3> QED
            BY <1>1, <2>1, <3>1, <3>2
    <2>3. CASE ~(b <= OverlapWords)
        <3>1. m = OverlapWords /\ l = OverlapWords
            BY <1>1, <2>3
        <3>2. p = n
            BY <1>1, <2>1, <3>1
        <3> QED
            BY <1>1, <2>1, <3>1, <3>2
    <2> QED
        BY <2>2, <2>3
<1>7. After(Run(b - m, m + n), p) = Run(b - m + p, m + n - p)
    BY <1>1, <1>6, RunAfter
<1> QED
    BY <1>0, <1>1, <1>4, <1>5, <1>6, <1>7 DEF LastWords, l

-----------------------------------------------------------------------------
(* The steps.                                                              *)

LEMMA LineTypes ==
    ASSUME Types
    PROVE  /\ captions \in Captions /\ agenda \in Agendas
           /\ Line \in Seq(Seq(Nat)) /\ Len(Line) = Len(captions) + Len(agenda)
           /\ Len(captions) \in Nat /\ Len(agenda) \in Nat
           /\ DOMAIN Line = 1 .. Len(captions) + Len(agenda)
           /\ \A i \in 1 .. Len(captions) : Line[i] = captions[i].words
           /\ \A i \in 1 .. Len(agenda) : Line[Len(captions) + i] = Words(agenda[i].text)
<1>1. captions \in Captions /\ agenda \in Agendas
    BY DEF Types, Captions, Agendas
<1> QED
    BY <1>1, LineWords DEF Line

LEMMA StateTypes ==
    ASSUME Types
    PROVE  /\ setup \in Setups
           /\ said \in Nat /\ heard \in Nat /\ partials \in Nat
           /\ result.text \in Texts /\ result.ended \in BOOLEAN
           /\ extractor.pool \in Texts /\ extractor.recent \in Seq(Nat)
           /\ Pool \in Seq(Nat) /\ Len(Pool) = Len(extractor.pool) /\ Len(Pool) \in Nat
           /\ Committed \in Seq(Nat) /\ Len(Committed) \in Nat
           /\ lastFinal \in Seq(Nat)
           /\ \A f \in flushes : f.text \in Texts /\ f.cancelled \in BOOLEAN
<1>1. extractor.pool \in Texts
    BY DEF Types
<1>2. Pool \in Seq(Nat) /\ Len(Pool) = Len(extractor.pool) /\ Len(Pool) \in Nat
    BY <1>1, TextWords DEF Pool
<1>3. Committed \in Seq(Nat)
    BY DEF Types, Committed
<1> QED
    BY <1>1, <1>2, <1>3 DEF Types

\* A step that handles no text.
LEMMA Unhandled ==
    ASSUME Types, heard' \in Nat, heard <= heard', LineInOrder,
           UNCHANGED <<setup, captions, agenda, extractor, committer, lastFinal>>,
           NEW b \in Nat, PoolIsOf(b), CommittedIsOf(b), LineIsOf(b)
    PROVE  /\ Line' = Line /\ Pool' = Pool /\ Committed' = Committed
           /\ LineInOrder' /\ PoolIsOf(b)' /\ CommittedIsOf(b)' /\ LineIsOf(b)'
<1>1. Line' = Line /\ Pool' = Pool /\ Committed' = Committed
    BY DEF Line, Pool, Committed
<1>2. LineInOrder'
    BY <1>1 DEF LineInOrder
<1>3. PoolIsOf(b)'
    BY <1>1 DEF PoolIsOf
<1>4. CommittedIsOf(b)'
    <2>1. heard \in Nat /\ Len(Pool) \in Nat /\ Len(Committed) \in Nat
        BY StateTypes
    <2> QED
        BY <1>1, <2>1 DEF CommittedIsOf
<1>5. LineIsOf(b)'
    BY <1>1 DEF LineIsOf, Passed
<1> QED
    BY <1>1, <1>2, <1>3, <1>4, <1>5

LEMMA FlushWakesKeeps ==
    ASSUME Types, AInv, NEW f \in flushes, FlushWakes(f)
    PROVE  Types' /\ AInv'
<1> DEFINE g == [f EXCEPT !.at = "awake"]
<1>1. /\ f.at = "delay" /\ flushes' = (flushes \ {f}) \cup {g}
      /\ UNCHANGED <<setup, ends, retracted, said, heard, partials, pc, result, agenda, extractor,
                     committer, lastFinal, finished, captions, lost, strayed>>
    BY DEF FlushWakes, Becomes, speech, collector
<1>2. /\ g \in [at : {"delay", "awake", "drained", "translating"}, text : Texts, cancelled : BOOLEAN]
      /\ g.at = "awake" /\ g.text = f.text /\ g.cancelled = f.cancelled
    BY DEF Types
<1> HIDE DEF g
<1>3. Types'
    BY <1>1, <1>2 DEF Types
<1>4. PICK b \in Nat : UpTo(b)
    BY DEF AInv
<1>5. /\ Line' = Line /\ Pool' = Pool /\ Committed' = Committed
      /\ LineInOrder' /\ PoolIsOf(b)' /\ CommittedIsOf(b)' /\ LineIsOf(b)'
    BY <1>1, <1>4, Unhandled, StateTypes DEF AInv, UpTo
<1>6. Idle' /\ Calm'
    BY <1>1, <1>5 DEF AInv, Idle, Calm
<1>7. Flows(f) /\ f.text = <<>> /\ ~f.cancelled
    BY <1>1 DEF AInv, Flushing, Flows
<1>8. Flushing'
    <2>1. ASSUME NEW h \in flushes, Flows(h) PROVE Flows(h)'
        BY <1>1, <1>5, <2>1 DEF Flows, Untouched
    <2>2. Flows(g)'
        BY <1>1, <1>2, <1>7 DEF Flows
    <2>3. (pc = "failed" => flushes = {})'
        BY <1>1 DEF AInv, Flushing
    <2>4. \A h \in flushes' : ((h \in flushes \/ h = g) /\ h # f) \/ h = g
        BY <1>1
    <2>5. \A h, i \in flushes' : ~h.cancelled /\ ~i.cancelled => h = i
        BY <1>1, <1>2, <1>7 DEF AInv, Flushing
    <2>6. \A h \in flushes' : Flows(h)'
        BY <2>1, <2>2, <2>4 DEF AInv, Flushing
    <2> QED
        BY <2>3, <2>5, <2>6 DEF Flushing
<1>9. UpTo(b)'
    <2>1. ASSUME NEW w, WithFlush(w) PROVE WithFlush(w)'
        <3>1. PICK h \in flushes : \E k \in DOMAIN h.text : h.text[k].word = w
            BY <2>1 DEF WithFlush
        <3>2. h # f
            BY <1>7, <3>1
        <3> QED
            BY <1>1, <3>1, <3>2 DEF WithFlush
    <2>2. pc' # "failed" => Kept(b)'
        BY <1>1, <1>4, <1>5, <2>1 DEF UpTo, Kept, InPool
    <2>3. ASSUME NEW e, Repeats(b, e) PROVE Repeats(b, e)'
        BY <1>1, <2>3 DEF Repeats
    <2> QED
        BY <1>1, <1>4, <1>5, <2>2, <2>3 DEF UpTo
<1> QED
    BY <1>3, <1>5, <1>6, <1>8, <1>9 DEF AInv

\* A flush ends, and what it took is counted as lost.
LEMMA FlushGone ==
    ASSUME Types, AInv, NEW f \in flushes, flushes' = flushes \ {f},
           lost \subseteq lost', lost' \subseteq Nat, \A k \in DOMAIN f.text : f.text[k].word \in lost',
           UNCHANGED <<setup, ends, retracted, said, heard, partials, pc, result, agenda, extractor,
                       committer, lastFinal, finished, captions, strayed>>
    PROVE  Types' /\ AInv'
<1>4. Types'
    BY DEF Types
<1>5. PICK b \in Nat : UpTo(b)
    BY DEF AInv
<1>6. /\ Line' = Line /\ Pool' = Pool /\ Committed' = Committed
      /\ LineInOrder' /\ PoolIsOf(b)' /\ CommittedIsOf(b)' /\ LineIsOf(b)'
    BY <1>5, Unhandled, StateTypes DEF AInv, UpTo
<1>7. Idle' /\ Calm'
    BY <1>6 DEF AInv, Idle, Calm
<1>8. Flushing'
    <2>1. ASSUME NEW h \in flushes, Flows(h) PROVE Flows(h)'
        BY <1>6, <2>1 DEF Flows, Untouched
    <2>2. \A h \in flushes' : Flows(h)'
        BY <2>1 DEF AInv, Flushing
    <2> QED
        BY <2>2 DEF AInv, Flushing
<1>9. UpTo(b)'
    <2>1. ASSUME NEW w, WithFlush(w) PROVE WithFlush(w)' \/ w \in lost'
        <3>1. PICK h \in flushes : \E k \in DOMAIN h.text : h.text[k].word = w
            BY <2>1 DEF WithFlush
        <3>2. CASE h = f
            BY <3>1, <3>2
        <3>3. CASE h # f
            BY <3>1, <3>3 DEF WithFlush
        <3> QED
            BY <3>2, <3>3
    <2>2. pc' # "failed" => Kept(b)'
        BY <1>5, <1>6, <2>1 DEF UpTo, Kept, InPool
    <2>3. ASSUME NEW e, Repeats(b, e) PROVE Repeats(b, e)'
        BY <2>3 DEF Repeats
    <2> QED
        BY <1>5, <1>6, <2>2, <2>3 DEF UpTo
<1> QED
    BY <1>4, <1>6, <1>7, <1>8, <1>9 DEF AInv

LEMMA FlushDiesKeeps ==
    ASSUME Types, AInv, NEW f \in flushes, FlushDies(f)
    PROVE  Types' /\ AInv'
<1>1. /\ flushes' = flushes \ {f}
      /\ lost' = lost \cup Range(Words(f.text))
      /\ UNCHANGED <<setup, ends, retracted, said, heard, partials, pc, result, agenda, extractor,
                     committer, lastFinal, finished, captions, strayed>>
    BY DEF FlushDies, Ends, speech, collector
<1>2. f.text \in Texts /\ Words(f.text) \in Seq(Nat) /\ DOMAIN f.text = DOMAIN Words(f.text)
      /\ \A k \in DOMAIN f.text : Words(f.text)[k] = f.text[k].word
    <2>1. f.text \in Texts
        BY StateTypes
    <2> QED
        BY <2>1, TextWords
<1>3. Range(Words(f.text)) \subseteq Nat /\ \A k \in DOMAIN f.text : f.text[k].word \in Range(Words(f.text))
    BY <1>2 DEF Range
<1>4. lost \subseteq lost' /\ lost' \subseteq Nat /\ \A k \in DOMAIN f.text : f.text[k].word \in lost'
    BY <1>1, <1>3 DEF Types
<1> QED
    BY <1>1, <1>4, FlushGone

\* A flush starts where the collector waits for a result.
LEMMA LaunchFlushKeeps ==
    ASSUME Types, AInv, LaunchFlush
    PROVE  Types' /\ AInv'
<1> DEFINE g == [at |-> "delay", text |-> <<>>, cancelled |-> FALSE]
<1>1. /\ pc = "launch" /\ agenda = <<>> /\ pc' = "collect" /\ result' = NoResult
      /\ flushes' \subseteq flushes \cup {g} /\ flushes \subseteq flushes'
      /\ UNCHANGED <<setup, ends, retracted, said, heard, partials, agenda, extractor,
                     committer, lastFinal, finished, captions, lost, strayed>>
    BY DEF LaunchFlush, speech
<1>2. /\ g \in [at : {"delay", "awake", "drained", "translating"}, text : Texts, cancelled : BOOLEAN]
      /\ g.at = "delay" /\ g.text = <<>> /\ ~g.cancelled
    BY DEF Texts
<1>3. result' \in [text : Texts, ended : BOOLEAN]
    BY <1>1 DEF NoResult, Texts
<1> HIDE DEF g
<1>4. Types'
    BY <1>1, <1>2, <1>3 DEF Types
<1>5. PICK b \in Nat : UpTo(b)
    BY DEF AInv
<1>6. /\ Line' = Line /\ Pool' = Pool /\ Committed' = Committed
      /\ LineInOrder' /\ PoolIsOf(b)' /\ CommittedIsOf(b)' /\ LineIsOf(b)'
    BY <1>1, <1>5, Unhandled, StateTypes DEF AInv, UpTo
<1>7. partials = 0 /\ heard = said /\ Committed = <<>> /\ ~finished
    BY <1>1 DEF AInv, Idle
<1>8. Idle' /\ Calm'
    BY <1>1, <1>6, <1>7 DEF AInv, Idle, Calm
<1>9. Flushing'
    <2>1. ASSUME NEW h \in flushes PROVE Flows(h)' /\ h.cancelled
        <3>1. Flows(h) /\ h.cancelled
            BY <1>1 DEF AInv, Flushing, Flows
        <3> QED
            BY <3>1 DEF Flows
    <2>2. Flows(g)'
        BY <1>1, <1>2, <1>7 DEF Flows
    <2> QED
        BY <1>1, <2>1, <2>2 DEF Flushing
<1>10. UpTo(b)'
    <2>1. Kept(b)'
        BY <1>1, <1>5, <1>6 DEF UpTo, Kept, InPool, WithFlush
    <2> QED
        BY <1>1, <1>5, <1>6, <2>1 DEF UpTo
<1> QED
    BY <1>4, <1>6, <1>8, <1>9, <1>10 DEF AInv

\* After a result no flush that was not cancelled is left, and none has lost text.
LEMMA CancelledFlushes ==
    ASSUME Types, Flushing, flushes' = CancelFlush, pc' # "failed"
    PROVE  /\ Flushing'
           /\ flushes' \subseteq [at : {"delay", "awake", "drained", "translating"}, text : Texts, cancelled : BOOLEAN]
           /\ \A w : WithFlush(w) => WithFlush(w)'
<1> DEFINE R == [at : {"delay", "awake", "drained", "translating"}, text : Texts, cancelled : BOOLEAN]
           C(f) == [f EXCEPT !.cancelled = TRUE]
<1>1. flushes \subseteq R
    BY DEF Types
<1>2. \A f \in R : C(f) \in R /\ C(f).at = f.at /\ C(f).text = f.text /\ C(f).cancelled
    OBVIOUS
<1>3. flushes' = {C(f) : f \in {h \in flushes : h.at # "delay"}}
    BY DEF CancelFlush
<1> HIDE DEF C
<1>4. ASSUME NEW g \in flushes'
      PROVE  g \in R /\ g.cancelled /\ \E f \in flushes : f.at # "delay" /\ g.at = f.at /\ g.text = f.text
    BY <1>1, <1>2, <1>3
<1> HIDE DEF R
<1>5. ASSUME NEW g \in flushes' PROVE Flows(g)'
    <2>1. PICK f \in flushes : f.at # "delay" /\ g.at = f.at /\ g.text = f.text
        BY <1>4
    <2>2. f.at \in {"delay", "awake"} => f.text = <<>>
        BY DEF Flushing, Flows
    <2> QED
        BY <1>4, <2>1, <2>2 DEF Flows
<1>6. ASSUME NEW w, WithFlush(w) PROVE WithFlush(w)'
    <2>1. PICK f \in flushes : \E k \in DOMAIN f.text : f.text[k].word = w
        BY <1>6 DEF WithFlush
    <2>2. f.at # "delay"
        BY <2>1 DEF Flushing, Flows
    <2>3. C(f) \in flushes' /\ C(f).text = f.text
        BY <1>1, <1>2, <1>3, <2>2 DEF R
    <2> QED
        BY <2>1, <2>3 DEF WithFlush
<1>7. Flushing'
    BY <1>4, <1>5 DEF Flushing
<1>8. flushes' \subseteq R
    BY <1>4
<1> QED
    BY <1>6, <1>7, <1>8 DEF R

LEMMA Covers ==
    ASSUME Types, NEW to \in Covering
    PROVE  to \in Nat /\ said < to /\ heard <= to
<1>0. MaxWords \in Nat
    BY AssemblyConstants
<1>1. said + 1 \in Int /\ heard \in Int /\ said \in Nat /\ heard \in Nat /\ MaxWords \in Nat
    BY <1>0, StateTypes
<1> DEFINE m == Max({said + 1, heard})
<1>2. m >= said + 1 /\ m >= heard /\ (m = said + 1 \/ m = heard)
    BY <1>1, GreaterOf
<1>3. to \in m .. MaxWords
    BY DEF Covering
<1> HIDE DEF m
<1> QED
    BY <1>1, <1>2, <1>3

LEMMA ReceivePartialKeeps ==
    ASSUME Steady, Types, AInv, NEW to \in Covering, ReceivePartial(to)
    PROVE  Types' /\ AInv'
<1>1. /\ pc = "collect" /\ agenda = <<>> /\ setup.partials
      /\ heard' = to /\ partials' = partials + 1 /\ pc' = "partial" /\ flushes' = CancelFlush
      /\ UNCHANGED <<setup, ends, retracted, said, agenda, extractor,
                     committer, lastFinal, finished, captions, lost, strayed>>
    BY DEF ReceivePartial, Collecting, speech
<1>2. PICK text \in Heard(said + 1, to) : result' = [NoResult EXCEPT !.text = text]
    BY DEF ReceivePartial
<1>3. /\ setup \in Setups /\ said \in Nat /\ heard \in Nat /\ partials \in Nat
      /\ to \in Nat /\ said < to /\ heard <= to
    BY StateTypes, Covers
<1>4. /\ text \in Texts /\ Words(text) = Run(said, to - said)
      /\ setup.stops = "never" => \A i \in DOMAIN text : ~text[i].stop
    <2>1. said + 1 \in Nat \ {0} /\ said + 1 <= to /\ said + 1 - 1 = said /\ to - (said + 1) + 1 = to - said
        BY <1>3
    <2>2. /\ text \in Texts /\ Words(text) = Run(said + 1 - 1, to - (said + 1) + 1)
          /\ setup.stops = "never" => \A i \in DOMAIN text : ~text[i].stop
        BY <1>3, <2>1, HeardTexts
    <2> QED
        BY <2>1, <2>2
<1>5. result' \in [text : Texts, ended : BOOLEAN] /\ result'.text = text
    BY <1>2, <1>4 DEF NoResult
<1>6. /\ Flushing'
      /\ flushes' \subseteq [at : {"delay", "awake", "drained", "translating"}, text : Texts, cancelled : BOOLEAN]
      /\ \A w : WithFlush(w) => WithFlush(w)'
    BY <1>1, CancelledFlushes DEF AInv
<1>7. Types'
    BY <1>1, <1>3, <1>5, <1>6 DEF Types
<1>8. PICK b \in Nat : UpTo(b)
    BY DEF AInv
<1>9. /\ Line' = Line /\ Pool' = Pool /\ Committed' = Committed
      /\ LineInOrder' /\ PoolIsOf(b)' /\ CommittedIsOf(b)' /\ LineIsOf(b)'
    BY <1>1, <1>3, <1>8, Unhandled DEF AInv, UpTo
<1>10. ~finished
    BY <1>1 DEF AInv, Idle
<1>11. partials' > 0 /\ partials' # 0
    BY <1>1, <1>3
<1>12. Idle' /\ Calm'
    BY <1>1, <1>4, <1>5, <1>9, <1>10, <1>11 DEF AInv, Idle, Calm
<1>13. UpTo(b)'
    <2>1. b = said /\ Kept(b)
        BY <1>1, <1>8 DEF UpTo
    <2>2. Kept(b)'
        BY <1>1, <1>6, <1>9, <2>1 DEF Kept, InPool
    <2> QED
        BY <1>1, <1>3, <1>9, <2>1, <2>2 DEF UpTo
<1> QED
    BY <1>6, <1>7, <1>9, <1>12, <1>13 DEF AInv

LEMMA ReceiveFinalKeeps ==
    ASSUME Steady, Types, AInv, NEW to \in Covering, NEW echo \in Echoes, ReceiveFinal(to, echo)
    PROVE  Types' /\ AInv'
<1>1. /\ pc = "collect" /\ agenda = <<>>
      /\ said' = to /\ heard' = to /\ partials' = 0 /\ pc' = "final" /\ flushes' = CancelFlush
      /\ UNCHANGED <<setup, ends, retracted, agenda, extractor,
                     committer, lastFinal, finished, captions, lost, strayed>>
    BY DEF ReceiveFinal, Collecting, speech
<1>20. PICK text \in Heard(said + 1 - echo, to) : \E ended \in EndsSentence(text) :
            result' = [text |-> MidUtteranceTrim(text, ended), ended |-> ended]
    BY DEF ReceiveFinal
<1>2. PICK ended \in EndsSentence(text) :
            result' = [text |-> MidUtteranceTrim(text, ended), ended |-> ended]
    BY <1>20
<1>3. /\ setup \in Setups /\ said \in Nat /\ heard \in Nat
      /\ to \in Nat /\ said < to /\ heard <= to
    BY StateTypes, Covers
<1>4. /\ echo \in Nat /\ echo <= said
      /\ echo # 0 => ~setup.partials /\ echo \in MinOverlapWords .. OverlapWords
    <2>1. echo \in setup.echoes /\ echo \in 0 .. said
        BY DEF Echoes
    <2> DEFINE S == MinOverlapWords .. OverlapWords
    <2> HIDE DEF S
    <2>2. echo \in {0} \cup S /\ (setup.partials => echo \in {0})
        <3>1. setup.echoes \subseteq {0} \cup S /\ (setup.partials => setup.echoes \subseteq {0})
            BY Zenon DEF Steady, S
        <3> QED
            BY <2>1, <3>1
    <2> QED
        BY <1>3, <2>1, <2>2 DEF S
<1>5. text \in Texts /\ text # <<>> /\ Words(text) = Run(said - echo, to - said + echo)
    <2> DEFINE from == said + 1 - echo
    <2>1. /\ from \in Nat \ {0} /\ from <= to
          /\ from - 1 = said - echo /\ to - from + 1 = to - said + echo
        BY <1>3, <1>4
    <2>2. text \in Heard(from, to)
        OBVIOUS
    <2> HIDE DEF from
    <2>3. text \in Texts /\ text # <<>> /\ Words(text) = Run(from - 1, to - from + 1)
        BY <1>3, <2>1, <2>2, HeardTexts
    <2> QED
        BY <2>1, <2>3
<1>6. ended \in BOOLEAN
    BY <1>3, <1>5, EndedTypes
<1>7. result' \in [text : Texts, ended : BOOLEAN] /\ Words(result'.text) = Run(said - echo, to - said + echo)
    <2>1. MidUtteranceTrim(text, ended) \in Texts /\ Words(MidUtteranceTrim(text, ended)) = Words(text)
        BY <1>5, SameWords
    <2> QED
        BY <1>2, <1>5, <1>6, <2>1
<1>8. /\ Flushing'
      /\ flushes' \subseteq [at : {"delay", "awake", "drained", "translating"}, text : Texts, cancelled : BOOLEAN]
      /\ \A w : WithFlush(w) => WithFlush(w)'
    BY <1>1, CancelledFlushes DEF AInv
<1>9. Types'
    BY <1>1, <1>3, <1>7, <1>8 DEF Types
<1>10. PICK b \in Nat : UpTo(b)
    BY DEF AInv
<1>11. /\ Line' = Line /\ Pool' = Pool /\ Committed' = Committed
       /\ LineInOrder' /\ PoolIsOf(b)' /\ CommittedIsOf(b)' /\ LineIsOf(b)'
    BY <1>1, <1>3, <1>10, Unhandled DEF AInv, UpTo
<1>12. ~finished
    BY <1>1 DEF AInv, Idle
<1>13. Idle' /\ Calm'
    BY <1>1, <1>11, <1>12 DEF AInv, Idle, Calm
<1>14. UpTo(b)'
    <2>1. b = said /\ Kept(b)
        BY <1>1, <1>10 DEF UpTo
    <2>2. Kept(b)'
        BY <1>1, <1>8, <1>11, <2>1 DEF Kept, InPool
    <2>3. Repeats(b, echo)' /\ echo \in 0 .. b
        BY <1>1, <1>3, <1>4, <1>7, <2>1 DEF Repeats
    <2>4. b < said' /\ b <= said' /\ said' <= heard'
        BY <1>1, <1>3, <2>1
    <2> QED
        BY <1>1, <1>11, <2>2, <2>3, <2>4 DEF UpTo
<1> QED
    BY <1>8, <1>9, <1>11, <1>13, <1>14 DEF AInv

\* The words of an utterance that came out blank are not waited for.
LEMMA RetractUtteranceKeeps ==
    ASSUME Types, AInv, RetractUtterance
    PROVE  Types' /\ AInv'
<1>1. /\ pc = "collect" /\ agenda = <<>> /\ setup.retracts /\ partials > 0
      /\ said' = heard /\ partials' = 0 /\ retracted' = retracted \cup (said + 1) .. heard
      /\ UNCHANGED <<setup, ends, heard, pc, result, agenda, extractor,
                     committer, lastFinal, flushes, finished, captions, lost, strayed>>
    BY DEF RetractUtterance, Collecting, collector
<1>2. /\ said \in Nat /\ heard \in Nat /\ partials \in Nat
      /\ Pool \in Seq(Nat) /\ extractor.recent \in Seq(Nat) /\ lastFinal \in Seq(Nat)
      /\ Line \in Seq(Seq(Nat))
    BY StateTypes, LineTypes
<1>3. Types'
    BY <1>1, <1>2 DEF Types
<1>4. Committed = <<>> /\ setup.partials /\ ~finished
    BY <1>1, <1>2 DEF AInv, Calm, Idle
<1>5. PICK b \in Nat : UpTo(b)
    BY DEF AInv
<1>6. b = said /\ said <= heard /\ Kept(b) /\ PoolIsOf(b) /\ CommittedIsOf(b) /\ LineIsOf(b)
    BY <1>1, <1>5 DEF UpTo
<1>7. /\ Line' = Line /\ Pool' = Pool /\ Committed' = Committed /\ LineInOrder'
      /\ PoolIsOf(b)' /\ LineIsOf(b)'
    BY <1>1, <1>2, <1>6, Unhandled DEF AInv
<1>8. Idle' /\ Calm'
    BY <1>1, <1>4, <1>7 DEF AInv, Idle, Calm
<1>9. Flushing'
    <2>1. ASSUME NEW f \in flushes PROVE Flows(f)' /\ f.cancelled
        <3>1. Flows(f) /\ f.cancelled
            BY <1>1, <1>2 DEF AInv, Flushing, Flows
        <3> QED
            BY <1>1, <3>1 DEF Flows
    <2> QED
        BY <1>1, <2>1 DEF Flushing
<1>c. PICK c \in Nat : c = heard
    BY <1>2
<1>10. PoolIsOf(c)'
    <2>1. \A k \in DOMAIN Pool : Pool[k] \in 1 .. c
        BY <1>2, <1>6, <1>c DEF PoolIsOf
    <2>2. \A k \in DOMAIN extractor.recent : extractor.recent[k] \in 1 .. c
        BY <1>2, <1>6, <1>c DEF PoolIsOf
    <2> QED
        BY <1>1, <1>4, <1>6, <1>7, <2>1, <2>2 DEF PoolIsOf
<1>11. LineIsOf(c)'
    <2>1. ASSUME NEW w \in Nat, Passed(b, w) PROVE Passed(c, w)'
        BY <1>1, <1>2, <1>4, <1>6, <1>7, <1>c, <2>1 DEF Passed
    <2>2. \A i \in DOMAIN Line : \A k \in DOMAIN Line[i] : Line[i][k] \in Nat
        <3>1. \A i \in DOMAIN Line : Line[i] \in Seq(Nat)
            BY <1>2
        <3> QED
            BY <3>1
    <2>3. \A k \in DOMAIN lastFinal : lastFinal[k] \in Nat
        BY <1>2
    <2> QED
        BY <1>1, <1>6, <1>7, <2>1, <2>2, <2>3 DEF LineIsOf
<1>12. Kept(c)'
    <2>1. ASSUME NEW w \in 1 .. c
          PROVE  (w \in retracted \/ w \in lost \/ Has(Line, w) \/ InPool(w) \/ WithFlush(w))'
        <3>1. CASE w \in 1 .. b
            BY <1>1, <1>6, <1>7, <3>1 DEF Kept, InPool, WithFlush
        <3>2. CASE w \notin 1 .. b
            <4>1. w \in (said + 1) .. heard
                BY <1>2, <1>6, <1>c, <3>2
            <4> QED
                BY <1>1, <4>1
        <3> QED
            BY <3>1, <3>2
    <2> QED
        BY <1>1, <2>1 DEF Kept
<1>13. UpTo(c)'
    BY <1>1, <1>2, <1>4, <1>7, <1>10, <1>11, <1>12, <1>c DEF UpTo, CommittedIsOf
<1> QED
    BY <1>3, <1>7, <1>8, <1>9, <1>13 DEF AInv

LEMMA EndOfAudioKeeps ==
    ASSUME Types, AInv, EndOfAudio
    PROVE  Types' /\ AInv'
<1>1. /\ pc = "collect" /\ agenda = <<>> /\ (partials = 0 \/ setup.retracts)
      /\ pc' = "tail" /\ flushes' = CancelFlush
      /\ UNCHANGED <<setup, ends, retracted, said, heard, partials, result, agenda, extractor,
                     committer, lastFinal, finished, captions, lost, strayed>>
    BY DEF EndOfAudio, Collecting, speech
<1>2. heard \in Nat
    BY StateTypes
<1>3. /\ Flushing'
      /\ flushes' \subseteq [at : {"delay", "awake", "drained", "translating"}, text : Texts, cancelled : BOOLEAN]
      /\ \A w : WithFlush(w) => WithFlush(w)'
    BY <1>1, CancelledFlushes DEF AInv
<1>4. Types'
    BY <1>1, <1>3 DEF Types
<1>5. PICK b \in Nat : UpTo(b)
    BY DEF AInv
<1>6. /\ Line' = Line /\ Pool' = Pool /\ Committed' = Committed
      /\ LineInOrder' /\ PoolIsOf(b)' /\ CommittedIsOf(b)' /\ LineIsOf(b)'
    BY <1>1, <1>2, <1>5, Unhandled DEF AInv, UpTo
<1>7. Committed = <<>> /\ ~finished
    BY <1>1 DEF AInv, Idle, Calm
<1>8. Idle' /\ Calm'
    BY <1>1, <1>6, <1>7 DEF AInv, Idle, Calm
<1>9. UpTo(b)'
    <2>1. b = said /\ Kept(b)
        BY <1>1, <1>5 DEF UpTo
    <2>2. Kept(b)'
        BY <1>1, <1>3, <1>6, <2>1 DEF Kept, InPool
    <2> QED
        BY <1>1, <1>5, <1>6, <2>1, <2>2 DEF UpTo
<1> QED
    BY <1>3, <1>4, <1>6, <1>8, <1>9 DEF AInv

\* The steps of the collector between two texts.
LEMMA PlainStep ==
    ASSUME Types, AInv,
           UNCHANGED <<setup, ends, retracted, said, heard, partials, result, agenda, extractor,
                       committer, lastFinal, flushes, captions, lost, strayed>>,
           finished' \in BOOLEAN,
           \/ pc = "final" /\ pc' = "assemble" /\ finished' = finished
           \/ pc = "finish" /\ agenda = <<>> /\ pc' = "done"
    PROVE  Types' /\ AInv'
<1>1. heard \in Nat
    BY StateTypes
<1>2. Types'
    BY DEF Types
<1>3. PICK b \in Nat : UpTo(b)
    BY DEF AInv
<1>4. /\ Line' = Line /\ Pool' = Pool /\ Committed' = Committed
      /\ LineInOrder' /\ PoolIsOf(b)' /\ CommittedIsOf(b)' /\ LineIsOf(b)'
    BY <1>1, <1>3, Unhandled DEF AInv, UpTo
<1>5. Idle' /\ Calm'
    BY <1>4 DEF AInv, Idle, Calm
<1>6. Flushing'
    <2>1. ASSUME NEW f \in flushes PROVE Flows(f)' /\ f.cancelled
        <3>1. Flows(f) /\ f.cancelled
            BY DEF AInv, Flushing, Flows
        <3> QED
            BY <3>1 DEF Flows
    <2> QED
        BY <2>1 DEF Flushing
<1>7. UpTo(b)'
    <2>1. Kept(b)'
        BY <1>3, <1>4 DEF UpTo, Kept, InPool, WithFlush
    <2>2. ASSUME NEW e, Repeats(b, e) PROVE Repeats(b, e)'
        BY <2>2 DEF Repeats
    <2> QED
        BY <1>3, <1>4, <2>1, <2>2 DEF UpTo
<1> QED
    BY <1>2, <1>4, <1>5, <1>6, <1>7 DEF AInv

LEMMA ClosePoolKeeps ==
    ASSUME Steady, Types, AInv, ClosePool
    PROVE  Types' /\ AInv'
<1>1. ~WasASentence
    BY DEF WasASentence, Steady
<1>2. agenda = <<>> /\ agenda' = agenda /\ extractor' = extractor
    BY <1>1 DEF ClosePool, AInv, Idle
<1>3. finished' \in BOOLEAN
    BY DEF ClosePool, Types
<1> QED
    BY <1>2, <1>3, PlainStep DEF ClosePool, speech

LEMMA FinishStageKeeps ==
    ASSUME Types, AInv, FinishStage
    PROVE  Types' /\ AInv'
<1>1. finished' \in BOOLEAN
    BY DEF FinishStage
<1> QED
    BY <1>1, PlainStep DEF FinishStage, speech

LEMMA TranslationFailsKeeps ==
    ASSUME Types, AInv, TranslationFails
    PROVE  Types' /\ AInv'
<1>1. /\ pc # "failed" /\ pc' = "failed" /\ flushes' = {}
      /\ UNCHANGED <<setup, ends, retracted, said, heard, partials, result, agenda, extractor,
                     committer, lastFinal, finished, captions, lost, strayed>>
    BY DEF TranslationFails, speech
<1>2. heard \in Nat
    BY StateTypes
<1>3. Types'
    BY <1>1 DEF Types
<1>4. PICK b \in Nat : UpTo(b)
    BY DEF AInv
<1>5. /\ Line' = Line /\ Pool' = Pool /\ Committed' = Committed
      /\ LineInOrder' /\ PoolIsOf(b)' /\ CommittedIsOf(b)' /\ LineIsOf(b)'
    BY <1>1, <1>2, <1>4, Unhandled DEF AInv, UpTo
<1>6. Idle' /\ Calm' /\ Flushing'
    BY <1>1, <1>5 DEF AInv, Idle, Calm, Flushing
<1>7. UpTo(b)'
    BY <1>1, <1>4, <1>5 DEF UpTo
<1> QED
    BY <1>3, <1>5, <1>6, <1>7 DEF AInv

-----------------------------------------------------------------------------
(* The steps of a flush that handle text.                                  *)

LEMMA NothingPooled ==
    ASSUME Types, extractor.pool = <<>>
    PROVE  Drain(extractor) = extractor /\ Pool = <<>>
<1>1. extractor \in [pool : Texts, recent : Seq(Nat)]
    BY DEF Types
<1>2. [extractor EXCEPT !.pool = <<>>] = extractor
    BY <1>1
<1>3. Pool = <<>>
    BY DEF Pool, Words
<1> QED
    BY <1>2, <1>3 DEF Drain

LEMMA Drained ==
    ASSUME Types
    PROVE  /\ Drain(extractor) \in [pool : Texts, recent : Seq(Nat)]
           /\ Drain(extractor).pool = <<>> /\ Drain(extractor).recent = extractor.recent
<1>1. extractor \in [pool : Texts, recent : Seq(Nat)] /\ <<>> \in Texts
    BY DEF Types, Texts
<1> QED
    BY <1>1 DEF Drain

LEMMA FlushDrainsKeeps ==
    ASSUME Types, AInv, NEW f \in flushes, FlushDrains(f), ~strayed'
    PROVE  Types' /\ AInv'
<1>1. /\ f.at = "awake" /\ extractor' = Drain(extractor)
      /\ UNCHANGED <<setup, ends, retracted, said, heard, partials, pc, result, agenda,
                     committer, lastFinal, finished, captions, lost>>
    BY DEF FlushDrains, speech, collector
<1>2. f.text = <<>>
    BY <1>1 DEF AInv, Flushing, Flows
<1>3. CASE extractor.pool = <<>>
    <2>1. extractor' = extractor /\ flushes' = flushes \ {f} /\ (strayed' = strayed)
        <3>1. Drain(extractor) = extractor
            BY <1>3, NothingPooled
        <3>2. strayed' = (strayed \/ FALSE) /\ flushes' = flushes \ {f}
            BY <1>3 DEF FlushDrains, IsEmpty, Ends
        <3>3. strayed \in BOOLEAN
            BY DEF Types
        <3> QED
            BY <1>1, <3>1, <3>2, <3>3
    <2>2. lost \subseteq lost' /\ lost' \subseteq Nat /\ \A k \in DOMAIN f.text : f.text[k].word \in lost'
        BY <1>1, <1>2 DEF Types
    <2> QED
        BY <1>1, <2>1, <2>2, FlushGone
<1>4. CASE extractor.pool # <<>>
    <2>g. PICK g : g = [f EXCEPT !.at = "drained", !.text = extractor.pool]
        OBVIOUS
    <2>1. flushes' = (flushes \ {f}) \cup {g} /\ ~f.cancelled /\ strayed' = FALSE
        BY <1>4, <2>g DEF FlushDrains, IsEmpty, Becomes
    <2>2. extractor.pool \in Texts /\ said \in Nat
        BY StateTypes
    <2>3. /\ g \in [at : {"delay", "awake", "drained", "translating"}, text : Texts, cancelled : BOOLEAN]
          /\ g.at = "drained" /\ g.text = extractor.pool /\ g.cancelled = f.cancelled
        BY <2>2, <2>g DEF Types
    <2>4. /\ extractor' \in [pool : Texts, recent : Seq(Nat)]
          /\ extractor'.pool = <<>> /\ extractor'.recent = extractor.recent
        BY <1>1, Drained
    <2>5. Types'
        BY <1>1, <2>1, <2>3, <2>4 DEF Types
    <2>6. pc = "collect" /\ agenda = <<>> /\ partials = 0 /\ Committed = <<>>
        BY <2>1 DEF AInv, Flushing, Flows, Idle
    <2>7. PICK b \in Nat : UpTo(b)
        BY DEF AInv
    <2>8. b = said /\ said <= heard /\ Kept(b) /\ PoolIsOf(b) /\ LineIsOf(b)
        BY <2>6, <2>7 DEF UpTo
    <2>9. Line' = Line /\ Committed' = Committed /\ Pool' = <<>>
        BY <1>1, <2>4 DEF Line, Committed, Pool, Words
    <2>10. LineInOrder'
        BY <1>1, <2>9 DEF AInv, LineInOrder
    <2>11. Idle' /\ Calm'
        BY <1>1, <2>4, <2>9, <2>6 DEF AInv, Idle, Calm
    <2>12. Words(g.text) = Pool /\ DOMAIN Pool = DOMAIN g.text /\ \A k \in DOMAIN g.text : g.text[k].word = Pool[k]
        BY <2>2, <2>3, TextWords DEF Pool
    <2>13. Untouched(g)'
        <3>1. Rising(Pool) /\ \A k \in DOMAIN g.text : g.text[k].word <= said
            BY <2>2, <2>8, <2>12 DEF PoolIsOf
        <3>2. ASSUME NEW i \in DOMAIN Line PROVE Before(Line[i], Pool)
            BY <2>6, <2>8 DEF LineIsOf, Passed, Before
        <3>3. Before(lastFinal, Pool)
            BY <2>6, <2>8 DEF LineIsOf, Passed, Before
        <3> QED
            BY <1>1, <2>4, <2>9, <2>12, <3>1, <3>2, <3>3 DEF Untouched
    <2>14. Flushing'
        <3>1. ASSUME NEW h \in flushes, h # f PROVE Flows(h)' /\ h.cancelled
            <4>1. Flows(h) /\ h.cancelled
                BY <2>1, <3>1 DEF AInv, Flushing
            <4> QED
                BY <4>1 DEF Flows
        <3>2. Flows(g)'
            BY <1>1, <2>3, <2>6, <2>13 DEF Flows
        <3> QED
            BY <1>1, <2>1, <2>6, <3>1, <3>2 DEF Flushing
    <2>15. PoolIsOf(b)' /\ CommittedIsOf(b)'
        BY <1>1, <2>4, <2>6, <2>8, <2>9 DEF PoolIsOf, CommittedIsOf, Rising
    <2>16. LineIsOf(b)'
        BY <1>1, <2>6, <2>8, <2>9 DEF LineIsOf, Passed
    <2>17. Kept(b)'
        <3>1. ASSUME NEW w, WithFlush(w) PROVE WithFlush(w)'
            <4>1. PICK h \in flushes : \E k \in DOMAIN h.text : h.text[k].word = w
                BY <3>1 DEF WithFlush
            <4>2. h # f
                BY <1>2, <4>1
            <4> QED
                BY <2>1, <4>1, <4>2 DEF WithFlush
        <3>2. ASSUME NEW w, InPool(w) PROVE WithFlush(w)'
            BY <2>1, <2>12, <3>2 DEF WithFlush, InPool
        <3> QED
            BY <1>1, <2>8, <2>9, <3>1, <3>2 DEF Kept
    <2> QED
        BY <1>1, <2>5, <2>6, <2>8, <2>10, <2>11, <2>14, <2>15, <2>16, <2>17 DEF AInv, UpTo
<1> QED
    BY <1>3, <1>4

\* What a flush took joins the line.
LEMMA FlushCaptions ==
    ASSUME Types, AInv, NEW f \in flushes, ~f.cancelled, f.at \in {"drained", "translating"},
           captions' = Caption(Terminate(f.text), "flush"), flushes' = flushes \ {f},
           lastFinal' = lastFinal \/ lastFinal' = Words(f.text),
           UNCHANGED <<setup, ends, retracted, said, heard, partials, pc, result, agenda, extractor,
                       committer, finished, lost, strayed>>
    PROVE  Types' /\ AInv'
<1> DEFINE W == Words(f.text)
           e == [words |-> W, kind |-> "flush"]
<1>1. f.text \in Texts /\ lastFinal \in Seq(Nat) /\ said \in Nat
    BY StateTypes
<1>2. W \in Seq(Nat) /\ DOMAIN W = DOMAIN f.text /\ \A k \in DOMAIN W : W[k] = f.text[k].word /\ W[k] \in Nat
    <2>1. W \in Seq(Nat) /\ DOMAIN W = DOMAIN f.text /\ \A k \in DOMAIN W : W[k] = f.text[k].word
        BY <1>1, TextWords
    <2> QED
        BY <2>1
<1>3. captions' = Append(captions, e)
    BY <1>1, SameWords DEF Caption
<1>4. /\ Flows(f) /\ Untouched(f)
      /\ pc = "collect" /\ agenda = <<>> /\ partials = 0 /\ Committed = <<>> /\ extractor.pool = <<>>
      /\ \A h \in flushes : h # f => h.cancelled
    BY DEF AInv, Flushing, Flows, Idle, Untouched
<1> HIDE DEF W
<1>5. Line \in Seq(Seq(Nat)) /\ captions \in Captions
    BY LineTypes
<1>6. captions' \in Captions /\ <<W>> \in Seq(Seq(Nat)) /\ Line' = Line \o <<W>>
    <2>1. "flush" \in Handings
        BY DEF Handings
    <2>2. /\ Append(captions, e) \in Captions /\ <<W>> \in Seq(Seq(Nat))
          /\ LineOf(Append(captions, e), <<>>) = LineOf(captions, <<>>) \o <<W>>
        BY <1>2, <1>5, <2>1, LineCaption
    <2> HIDE DEF e
    <2> QED
        BY <1>3, <1>4, <2>2 DEF Line
<1> HIDE DEF e
<1>7. Types'
    BY <1>2, <1>6 DEF Types, Captions, W
<1>8. <<W>> \in Seq(Seq(Nat)) /\ DOMAIN <<W>> = {1} /\ <<W>>[1] = W
    BY <1>6
<1>9. /\ Rising(W) /\ (\A i \in DOMAIN Line : Before(Line[i], W))
      /\ \A k \in DOMAIN W : W[k] <= said
    BY <1>2, <1>4 DEF Untouched, W
<1>10. InOrderOfSpeech(Line')
    <2> DEFINE Q == <<W>>
    <2>1. InOrderOfSpeech(Q) /\ \A i \in DOMAIN Line, k \in DOMAIN Q : Before(Line[i], Q[k])
        BY <1>8, <1>9 DEF InOrderOfSpeech
    <2>2. InOrderOfSpeech(Line)
        BY DEF AInv, LineInOrder
    <2> HIDE DEF Q
    <2>3. InOrderOfSpeech(Line \o Q)
        BY <1>5, <1>8, <2>1, <2>2, LineGrows DEF Q
    <2> QED
        BY <1>6, <2>3 DEF Q
<1>11. LineInOrder'
    BY <1>4, <1>10 DEF LineInOrder
<1>12. Pool' = Pool /\ Committed' = Committed /\ Pool = <<>>
    BY <1>4, NothingPooled DEF Pool, Committed
<1>13. Idle' /\ Calm'
    BY <1>4, <1>12 DEF AInv, Idle, Calm
<1>14. Flushing'
    <2>1. ASSUME NEW h \in flushes, h # f PROVE Flows(h)' /\ h.cancelled
        <3>1. Flows(h) /\ h.cancelled
            BY <1>4, <2>1 DEF AInv, Flushing
        <3> QED
            BY <3>1 DEF Flows
    <2> QED
        BY <1>4, <2>1 DEF Flushing
<1>15. PICK b \in Nat : UpTo(b)
    BY DEF AInv
<1>16. b = said /\ said <= heard /\ Kept(b) /\ PoolIsOf(b) /\ LineIsOf(b)
    BY <1>4, <1>15 DEF UpTo
<1>17. PoolIsOf(b)' /\ CommittedIsOf(b)'
    BY <1>4, <1>12, <1>16 DEF PoolIsOf, CommittedIsOf
<1>18. LineIsOf(b)'
    <2>1. ASSUME NEW w PROVE Passed(b, w)' <=> w <= b
        BY <1>4, <1>12 DEF Passed
    <2>2. \A i \in DOMAIN Line : \A k \in DOMAIN Line[i] : Line[i][k] <= b
        BY <1>4, <1>16 DEF LineIsOf, Passed
    <2>3. \A k \in DOMAIN lastFinal : lastFinal[k] <= b
        BY <1>4, <1>16 DEF LineIsOf, Passed
    <2>4. ASSUME NEW i \in DOMAIN Line' PROVE \A k \in DOMAIN Line'[i] : Line'[i][k] <= b
        <3> DEFINE Q == <<W>>
        <3>1. (\E j \in DOMAIN Line : Line'[i] = Line[j]) \/ (\E j \in DOMAIN Q : Line'[i] = Q[j])
            BY <1>5, <1>6, <1>8, LineOneOf
        <3>2. (\E j \in DOMAIN Line : Line'[i] = Line[j]) \/ Line'[i] = W
            BY <1>8, <3>1
        <3> QED
            BY <1>9, <1>16, <2>2, <3>2
    <2>5. \A k \in DOMAIN lastFinal' : lastFinal'[k] <= b
        BY <1>9, <1>16, <2>3 DEF W
    <2> QED
        BY <2>1, <2>4, <2>5 DEF LineIsOf
<1>19. Kept(b)'
    <2>1. \A w : Has(Line, w) \/ Has(<<W>>, w) => Has(Line', w)
        BY <1>5, <1>6, <1>8, LineHas
    <2>2. ASSUME NEW k \in DOMAIN W PROVE Has(<<W>>, W[k])
        BY <1>8 DEF Has
    <2>3. ASSUME NEW w, WithFlush(w) PROVE WithFlush(w)' \/ Has(Line', w)
        <3>1. PICK h \in flushes : \E k \in DOMAIN h.text : h.text[k].word = w
            BY <2>3 DEF WithFlush
        <3>2. CASE h = f
            BY <1>2, <2>1, <2>2, <3>1, <3>2
        <3>3. CASE h # f
            BY <3>1, <3>3 DEF WithFlush
        <3> QED
            BY <3>2, <3>3
    <2> QED
        BY <1>12, <1>16, <2>1, <2>3 DEF Kept, InPool
<1> QED
    BY <1>4, <1>7, <1>11, <1>13, <1>14, <1>16, <1>17, <1>18, <1>19 DEF AInv, UpTo

LEMMA FlushHandsInKeeps ==
    ASSUME Types, AInv, NEW f \in flushes, FlushHandsIn(f), ~strayed'
    PROVE  Types' /\ AInv'
<1>1. /\ f.at = "drained" /\ ~f.cancelled /\ strayed' = strayed
      /\ UNCHANGED <<setup, ends, retracted, said, heard, partials, pc, result, agenda, extractor,
                     committer, finished>>
    <2>1. strayed' = (strayed \/ f.cancelled) /\ strayed \in BOOLEAN
        BY DEF FlushHandsIn, Goes, Types
    <2> QED
        BY <2>1 DEF FlushHandsIn, speech, collector
<1>2. /\ Flows(f) /\ Untouched(f)
      /\ pc = "collect" /\ agenda = <<>> /\ partials = 0 /\ Committed = <<>> /\ extractor.pool = <<>>
      /\ ~finished
      /\ \A h \in flushes : h # f => h.cancelled
    BY <1>1 DEF AInv, Flushing, Flows, Idle, Untouched
<1>3. f.text \in Texts /\ lastFinal \in Seq(Nat) /\ said \in Nat
    BY StateTypes
<1>4. ~IsDuplicateFinal(f.text)
    BY <1>1, <1>2, <1>3, NotDuplicate DEF Untouched
<1> DEFINE W == Words(f.text)
<1>5. W \in Seq(Nat) /\ DOMAIN W = DOMAIN f.text /\ \A k \in DOMAIN f.text : W[k] = f.text[k].word
    BY <1>3, TextWords
<1>6. lastFinal' = W
    BY <1>4 DEF FlushHandsIn, RememberFinal
<1>7. CASE ~setup.inline
    <2>1. flushes' = flushes \ {f} /\ captions' = Caption(Terminate(f.text), "flush") /\ lost' = lost
        BY <1>2, <1>4, <1>7 DEF FlushHandsIn, Ends
    <2> QED
        BY <1>1, <1>6, <2>1, FlushCaptions
<1>8. CASE setup.inline
    <2> DEFINE g == [f EXCEPT !.at = "translating"]
    <2>1. flushes' = (flushes \ {f}) \cup {g} /\ captions' = captions /\ lost' = lost
        BY <1>4, <1>8 DEF FlushHandsIn, Becomes
    <2>2. /\ g \in [at : {"delay", "awake", "drained", "translating"}, text : Texts, cancelled : BOOLEAN]
          /\ g.at = "translating" /\ g.text = f.text /\ g.cancelled = f.cancelled
        BY DEF Types
    <2> HIDE DEF g
    <2> HIDE DEF W
    <2>3. Types'
        BY <1>1, <1>5, <1>6, <2>1, <2>2 DEF Types
    <2>4. Line' = Line /\ Pool' = Pool /\ Committed' = Committed /\ Pool = <<>>
        BY <1>1, <1>2, <2>1, NothingPooled DEF Line, Pool, Committed
    <2>5. LineInOrder'
        BY <1>1, <1>2, <2>4 DEF AInv, LineInOrder
    <2>6. Idle' /\ Calm'
        BY <1>1, <2>4 DEF AInv, Idle, Calm
    <2>7. Flushing'
        <3>1. ASSUME NEW h \in flushes, h # f PROVE Flows(h)' /\ h.cancelled
            <4>1. Flows(h) /\ h.cancelled
                BY <1>2, <3>1 DEF AInv, Flushing
            <4> QED
                BY <4>1 DEF Flows
        <3>2. Untouched(g)'
            BY <1>1, <1>2, <2>2, <2>4 DEF Untouched
        <3>3. Flows(g)'
            BY <1>1, <1>2, <2>2, <3>2 DEF Flows
        <3> QED
            BY <1>1, <1>2, <2>1, <3>1, <3>3 DEF Flushing
    <2>8. PICK b \in Nat : UpTo(b)
        BY DEF AInv
    <2>9. b = said /\ said <= heard /\ Kept(b) /\ PoolIsOf(b) /\ CommittedIsOf(b) /\ LineIsOf(b)
        BY <1>2, <2>8 DEF UpTo
    <2>10. PoolIsOf(b)' /\ CommittedIsOf(b)'
        BY <1>1, <1>2, <2>4, <2>9 DEF PoolIsOf, CommittedIsOf
    <2>11. LineIsOf(b)'
        <3>1. \A k \in DOMAIN W : W[k] <= b
            BY <1>2, <1>5, <2>9 DEF Untouched
        <3>2. ASSUME NEW w PROVE (Passed(b, w)' <=> Passed(b, w)) /\ (Passed(b, w) <=> w <= b)
            BY <1>1, <1>2, <2>4 DEF Passed
        <3> QED
            BY <1>6, <2>4, <2>9, <3>1, <3>2 DEF LineIsOf
    <2>12. Kept(b)'
        <3>1. ASSUME NEW w, WithFlush(w) PROVE WithFlush(w)'
            <4>1. PICK h \in flushes : \E k \in DOMAIN h.text : h.text[k].word = w
                BY <3>1 DEF WithFlush
            <4>2. CASE h = f
                BY <2>1, <2>2, <4>1, <4>2 DEF WithFlush
            <4>3. CASE h # f
                BY <2>1, <4>1, <4>3 DEF WithFlush
            <4> QED
                BY <4>2, <4>3
        <3> QED
            BY <1>1, <2>1, <2>4, <2>9, <3>1 DEF Kept, InPool
    <2> QED
        BY <1>1, <1>2, <2>3, <2>5, <2>6, <2>7, <2>9, <2>10, <2>11, <2>12 DEF AInv, UpTo
<1> QED
    BY <1>7, <1>8

LEMMA FlushSendsKeeps ==
    ASSUME Types, AInv, NEW f \in flushes, FlushSends(f), ~strayed'
    PROVE  Types' /\ AInv'
<1>1. strayed' = strayed /\ ~f.cancelled
    <2>1. strayed' = (strayed \/ f.cancelled) /\ strayed \in BOOLEAN
        BY DEF FlushSends, Goes, Types
    <2> QED
        BY <2>1
<1> QED
    BY <1>1, FlushCaptions DEF FlushSends, Ends, speech, collector

-----------------------------------------------------------------------------
(* The steps of the collector that handle text.                            *)

LEMMA EmitKeeps ==
    ASSUME Types, AInv, Emit
    PROVE  Types' /\ AInv'
<1> DEFINE s == Head(agenda).text
           h == Head(agenda).kind
           m == Len(captions)
<1>1. /\ agenda # <<>> /\ pc # "failed" /\ agenda' = Tail(agenda) /\ RememberFinal(s)
      /\ captions' = IF IsDuplicateFinal(s) THEN captions ELSE Caption(s, h)
      /\ UNCHANGED <<setup, ends, retracted, said, heard, partials, pc, result, extractor,
                     committer, flushes, finished, lost, strayed>>
    BY DEF Emit, speech
<1>2. /\ captions \in Captions /\ agenda \in Agendas
      /\ Line \in Seq(Seq(Nat)) /\ m \in Nat /\ Len(agenda) \in Nat
      /\ DOMAIN Line = 1 .. m + Len(agenda)
      /\ \A i \in 1 .. Len(agenda) : Line[m + i] = Words(agenda[i].text)
    BY LineTypes
<1>3. Len(agenda) # 0 /\ 1 \in 1 .. Len(agenda) /\ Head(agenda) = agenda[1] /\ DOMAIN agenda = 1 .. Len(agenda)
    BY <1>1, <1>2 DEF Agendas
<1>4. s \in Texts /\ h \in Handings
    <2> DEFINE E == [text : Texts, kind : Handings]
    <2>1. Head(agenda) \in E
        <3> HIDE DEF E
        <3>1. agenda \in Seq(E)
            BY DEF Types, E
        <3> QED
            BY <1>1, <3>1
    <2> QED
        BY <2>1
<1>5. Before(lastFinal, Words(s))
    BY <1>3 DEF AInv, LineInOrder
<1>6. ~IsDuplicateFinal(s) /\ Words(s) \in Seq(Nat)
    BY <1>4, <1>5, NotDuplicate, StateTypes
<1>7. lastFinal' = Words(s) /\ captions' = Append(captions, [words |-> Words(s), kind |-> h])
    BY <1>1, <1>6 DEF RememberFinal, Caption
<1>8. captions' \in Captions /\ agenda' \in Agendas /\ Line' = Line
    <2>1. /\ Append(captions, [words |-> Words(s), kind |-> h]) \in Captions /\ Tail(agenda) \in Agendas
          /\ LineOf(Append(captions, [words |-> Words(s), kind |-> h]), Tail(agenda)) = LineOf(captions, agenda)
        BY <1>1, <1>2, <1>4, LineMoves
    <2> QED
        BY <1>1, <1>7, <2>1 DEF Line
<1> HIDE DEF s, h
<1>9. Types'
    BY <1>1, <1>6, <1>7, <1>8 DEF Types, Captions, Agendas
<1>10. Line[m + 1] = Words(s) /\ m + 1 \in DOMAIN Line
    <2>1. m + 1 \in 1 .. m + Len(agenda)
        BY <1>2, <1>3
    <2> QED
        BY <1>2, <1>3, <2>1 DEF s
<1>11. LineInOrder'
    <2>1. ASSUME NEW i \in DOMAIN agenda' PROVE Before(Words(s), Words(agenda'[i].text))
        <3>1. i + 1 \in 1 .. Len(agenda) /\ agenda'[i] = agenda[i + 1] /\ i \in Nat /\ i >= 1
            BY <1>1, <1>2, <1>3 DEF Agendas
        <3>2. m + (i + 1) \in DOMAIN Line /\ m + 1 < m + (i + 1)
            <4> HIDE DEF m
            <4>1. m \in Nat /\ Len(agenda) \in Nat /\ DOMAIN Line = 1 .. m + Len(agenda)
                BY <1>2
            <4>2. m + (i + 1) \in 1 .. m + Len(agenda) /\ m + 1 < m + (i + 1)
                BY <3>1, <4>1
            <4> QED
                BY <4>1, <4>2
        <3>3. Line[m + (i + 1)] = Words(agenda'[i].text)
            BY <1>2, <3>1
        <3>4. Before(Line[m + 1], Line[m + (i + 1)])
            BY <1>10, <3>2 DEF AInv, LineInOrder, InOrderOfSpeech
        <3> QED
            BY <1>10, <3>3, <3>4
    <2> QED
        BY <1>7, <1>8, <2>1 DEF AInv, LineInOrder
<1>12. Pool' = Pool /\ Committed' = Committed
    BY <1>1 DEF Pool, Committed
<1>13. Idle' /\ Calm'
    BY <1>1, <1>12 DEF AInv, Idle, Calm
<1>14. Flushing'
    <2>1. ASSUME NEW f \in flushes PROVE Flows(f)' /\ f.cancelled
        <3>1. Flows(f) /\ f.cancelled
            BY <1>1 DEF AInv, Flushing, Flows
        <3> QED
            BY <3>1 DEF Flows
    <2> QED
        BY <1>1, <2>1 DEF Flushing
<1>15. PICK b \in Nat : UpTo(b)
    BY DEF AInv
<1>16. PoolIsOf(b)' /\ CommittedIsOf(b)'
    BY <1>1, <1>8, <1>12, <1>15 DEF UpTo, PoolIsOf, CommittedIsOf
<1>17. LineIsOf(b)'
    <2>1. LineIsOf(b)
        BY <1>15 DEF UpTo
    <2>2. \A k \in DOMAIN lastFinal' : Passed(b, lastFinal'[k])
        BY <1>7, <1>10, <2>1 DEF LineIsOf
    <2> QED
        BY <1>1, <1>8, <1>12, <2>1, <2>2 DEF LineIsOf, Passed
<1>18. Kept(b)' /\ Kept(b)
    BY <1>1, <1>8, <1>12, <1>15 DEF UpTo, Kept, InPool, WithFlush
<1>19. ASSUME NEW e, Repeats(b, e) PROVE Repeats(b, e)'
    BY <1>1, <1>19 DEF Repeats
<1>20. UpTo(b)'
    BY <1>1, <1>15, <1>16, <1>17, <1>18, <1>19 DEF UpTo
<1> QED
    BY <1>9, <1>11, <1>13, <1>14, <1>20 DEF AInv

\* Sentences are handed in after everything in the line.
LEMMA HandIn ==
    ASSUME Types, AInv, agenda = <<>>, NEW P \in Seq(Texts), NEW h \in Handings,
           agenda' = Agenda(P, h), UNCHANGED <<captions, lastFinal>>,
           \A k \in DOMAIN P : Rising(Words(P[k])),
           \A j, k \in DOMAIN P : j < k => Before(Words(P[j]), Words(P[k])),
           \A i \in DOMAIN Line, k \in DOMAIN P : Before(Line[i], Words(P[k])),
           \A k \in DOMAIN P : Before(lastFinal, Words(P[k]))
    PROVE  /\ agenda' \in Seq([text : Texts, kind : Handings])
           /\ LineInOrder'
           /\ \A w : Has(Line, w) => Has(Line, w)'
           /\ \A k \in DOMAIN P : \A i \in DOMAIN P[k] : Has(Line, Words(P[k])[i])'
           /\ \A i \in DOMAIN Line' : \/ \E j \in DOMAIN Line : Line'[i] = Line[j]
                                      \/ \E k \in DOMAIN P : Line'[i] = Words(P[k])
<1> DEFINE Q == Said(P)
<1>1. captions \in Captions /\ Line \in Seq(Seq(Nat))
    BY LineTypes
<1>2. /\ agenda' \in Agendas /\ Q \in Seq(Seq(Nat)) /\ Line' = Line \o Q
      /\ DOMAIN Q = DOMAIN P /\ DOMAIN agenda' = DOMAIN P
      /\ \A k \in DOMAIN P : Q[k] = Words(P[k]) /\ agenda'[k].text = P[k]
    BY <1>1, LineAgenda DEF Line
<1> HIDE DEF Q
<1>3. InOrderOfSpeech(Line) /\ InOrderOfSpeech(Q) /\ \A i \in DOMAIN Line, k \in DOMAIN Q : Before(Line[i], Q[k])
    BY <1>2 DEF AInv, LineInOrder, InOrderOfSpeech
<1>4. InOrderOfSpeech(Line')
    BY <1>1, <1>2, <1>3, LineGrows
<1>5. LineInOrder'
    BY <1>2, <1>4 DEF LineInOrder
<1>6. \A w : Has(Line, w) \/ Has(Q, w) => Has(Line', w)
    BY <1>1, <1>2, LineHas
<1>7. ASSUME NEW k \in DOMAIN P, NEW i \in DOMAIN P[k] PROVE Has(Line, Words(P[k])[i])'
    <2>1. DOMAIN Words(P[k]) = DOMAIN P[k]
        BY DEF Words
    <2>2. Has(Q, Words(P[k])[i])
        BY <1>2, <2>1 DEF Has
    <2> QED
        BY <1>6, <2>2
<1>8. ASSUME NEW i \in DOMAIN Line'
      PROVE (\E j \in DOMAIN Line : Line'[i] = Line[j]) \/ (\E k \in DOMAIN P : Line'[i] = Words(P[k]))
    <2>1. (\E j \in DOMAIN Line : Line'[i] = Line[j]) \/ (\E k \in DOMAIN Q : Line'[i] = Q[k])
        BY <1>1, <1>2, LineOneOf
    <2> QED
        BY <1>2, <2>1
<1> QED
    BY <1>2, <1>5, <1>6, <1>7, <1>8 DEF Agendas

LEMMA CancelledStay ==
    ASSUME Flushing, flushes' = flushes, pc # "collect", pc' # "failed"
    PROVE  Flushing'
<1>1. ASSUME NEW f \in flushes PROVE Flows(f)' /\ f.cancelled
    <2>1. Flows(f) /\ f.cancelled
        BY DEF Flushing, Flows
    <2> QED
        BY <2>1 DEF Flows
<1> QED
    BY <1>1 DEF Flushing

LEMMA DrainTailKeeps ==
    ASSUME Types, AInv, DrainTail
    PROVE  Types' /\ AInv'
<1>1. /\ pc = "tail" /\ pc' = "finish" /\ extractor' = Drain(extractor)
      /\ UNCHANGED <<setup, ends, retracted, said, heard, partials, result, committer, lastFinal,
                     flushes, finished, captions, lost, strayed>>
    BY DEF DrainTail, speech
<1>2. agenda = <<>> /\ Committed = <<>> /\ ~finished
    BY <1>1 DEF AInv, Idle
<1>p. PICK P : P = IF extractor.pool = <<>> THEN <<>> ELSE <<Terminate(extractor.pool)>>
    OBVIOUS
<1>3. agenda' = Agenda(P, "flush")
    <2>1. Agenda(<<>>, "flush") = <<>>
        BY DEF Agenda
    <2> QED
        BY <1>p, <2>1 DEF DrainTail, IsEmpty
<1>4. /\ extractor.pool \in Texts /\ Pool \in Seq(Nat) /\ DOMAIN Pool = DOMAIN extractor.pool
      /\ lastFinal \in Seq(Nat) /\ Line \in Seq(Seq(Nat)) /\ said \in Nat
    BY StateTypes, LineTypes, TextWords DEF Pool
<1>5. Terminate(extractor.pool) \in Texts /\ Words(Terminate(extractor.pool)) = Pool
    BY <1>4, SameWords DEF Pool
<1>6. /\ P \in Seq(Texts) /\ \A k \in DOMAIN P : Words(P[k]) = Pool /\ k = 1
      /\ DOMAIN Pool # {} => 1 \in DOMAIN P
    <2>1. CASE extractor.pool = <<>>
        BY <1>p, <1>4, <2>1
    <2>2. CASE extractor.pool # <<>>
        <3>1. P = <<Terminate(extractor.pool)>>
            BY <1>p, <2>2
        <3> QED
            BY <1>5, <3>1
    <2> QED
        BY <2>1, <2>2
<1>7. PICK b \in Nat : UpTo(b)
    BY DEF AInv
<1>8. b = said /\ said <= heard /\ Kept(b) /\ PoolIsOf(b) /\ LineIsOf(b)
    BY <1>1, <1>7 DEF UpTo
<1>9. /\ \A i \in DOMAIN Line : Before(Line[i], Pool)
      /\ Before(lastFinal, Pool)
    BY <1>2, <1>8 DEF LineIsOf, Passed, Before
<1>10. /\ agenda' \in Seq([text : Texts, kind : Handings])
       /\ LineInOrder'
       /\ \A w : Has(Line, w) => Has(Line, w)'
       /\ \A k \in DOMAIN P : \A i \in DOMAIN P[k] : Has(Line, Words(P[k])[i])'
       /\ \A i \in DOMAIN Line' : \/ \E j \in DOMAIN Line : Line'[i] = Line[j]
                                  \/ \E k \in DOMAIN P : Line'[i] = Words(P[k])
    <2>1. "flush" \in Handings
        BY DEF Handings
    <2>2. \A k \in DOMAIN P : Rising(Words(P[k]))
        BY <1>6, <1>8 DEF PoolIsOf
    <2>3. \A j, k \in DOMAIN P : j < k => Before(Words(P[j]), Words(P[k]))
        BY <1>6
    <2>4. /\ \A i \in DOMAIN Line, k \in DOMAIN P : Before(Line[i], Words(P[k]))
          /\ \A k \in DOMAIN P : Before(lastFinal, Words(P[k]))
        BY <1>6, <1>9
    <2> QED
        BY <1>1, <1>2, <1>3, <1>6, <2>1, <2>2, <2>3, <2>4, HandIn
<1>11. /\ extractor' \in [pool : Texts, recent : Seq(Nat)]
       /\ extractor'.pool = <<>> /\ extractor'.recent = extractor.recent
    BY <1>1, Drained
<1>12. Types'
    BY <1>1, <1>10, <1>11 DEF Types
<1>13. Pool' = <<>> /\ Committed' = Committed
    BY <1>1, <1>11 DEF Pool, Words, Committed
<1>14. Idle' /\ Calm'
    BY <1>1, <1>2, <1>11, <1>13 DEF AInv, Idle, Calm
<1>15. Flushing'
    BY <1>1, CancelledStay DEF AInv
<1>16. PoolIsOf(b)' /\ CommittedIsOf(b)'
    BY <1>1, <1>2, <1>8, <1>11, <1>13 DEF PoolIsOf, CommittedIsOf, Rising
<1>17. LineIsOf(b)'
    <2>1. ASSUME NEW w PROVE Passed(b, w)' <=> w <= b
        BY <1>2, <1>13 DEF Passed
    <2>2. \A k \in DOMAIN Pool : Pool[k] <= b
        BY <1>8 DEF PoolIsOf
    <2>3. \A i \in DOMAIN Line : \A k \in DOMAIN Line[i] : Line[i][k] <= b
        BY <1>2, <1>8 DEF LineIsOf, Passed
    <2>4. \A k \in DOMAIN lastFinal' : lastFinal'[k] <= b
        BY <1>1, <1>2, <1>8 DEF LineIsOf, Passed
    <2>5. \A i \in DOMAIN Line' : (\E j \in DOMAIN Line : Line'[i] = Line[j]) \/ Line'[i] = Pool
        BY <1>6, <1>10
    <2>6. \A i \in DOMAIN Line' : \A k \in DOMAIN Line'[i] : Line'[i][k] <= b
        BY <2>2, <2>3, <2>5
    <2> QED
        BY <2>1, <2>4, <2>6 DEF LineIsOf
<1>18. Kept(b)'
    <2>1. ASSUME NEW w, InPool(w) PROVE Has(Line, w)'
        <3>1. PICK k \in DOMAIN Pool : Pool[k] = w
            BY <2>1 DEF InPool
        <3>2. 1 \in DOMAIN P /\ Words(P[1]) = Pool
            BY <1>6, <3>1
        <3>3. DOMAIN P[1] = DOMAIN Pool
            BY <3>2 DEF Words
        <3> QED
            BY <1>10, <3>1, <3>2, <3>3
    <2> QED
        BY <1>1, <1>8, <1>10, <2>1 DEF Kept, WithFlush
<1> QED
    BY <1>1, <1>8, <1>10, <1>12, <1>14, <1>15, <1>16, <1>17, <1>18 DEF AInv, UpTo

\* The words after b join rising words up to b.
LEMMA RunJoins ==
    ASSUME NEW s \in Seq(Nat), NEW b \in Nat, NEW n \in Nat,
           Rising(s), \A k \in DOMAIN s : s[k] \in 1 .. b
    PROVE  LET M == s \o Run(b, n) IN
           /\ M \in Seq(Nat) /\ Len(M) = Len(s) + n /\ DOMAIN M = 1 .. Len(s) + n
           /\ Rising(M)
           /\ \A i \in 1 .. Len(s) : M[i] = s[i]
           /\ \A i \in 1 .. n : M[Len(s) + i] = b + i
           /\ \A i \in 1 .. Len(s) + n : i \in 1 .. Len(s) \/ \E j \in 1 .. n : i = Len(s) + j
           /\ \A i \in DOMAIN M : M[i] \in 1 .. b + n
           /\ \A w \in 1 .. b + n : w > b => \E i \in DOMAIN M : M[i] = w
<1> DEFINE r == Run(b, n)
           M == s \o r
           p == Len(s)
<1>1. r \in Seq(Nat) /\ Len(r) = n /\ \A i \in 1 .. n : r[i] = b + i
    <2>1. b \in Int
        OBVIOUS
    <2>2. Len(Run(b, n)) = n /\ (\A i \in 1 .. n : Run(b, n)[i] = b + i) /\ Run(b, n) \in Seq(Nat)
        BY <2>1, RunOf
    <2> QED
        BY <2>2
<1> HIDE DEF r
<1>2. /\ M \in Seq(Nat) /\ Len(M) = p + n /\ DOMAIN M = 1 .. p + n
      /\ p \in Nat /\ DOMAIN s = 1 .. p
      /\ \A i \in 1 .. p : M[i] = s[i]
      /\ \A i \in 1 .. n : M[p + i] = r[i]
      /\ \A i \in 1 .. p + n : i \in 1 .. p \/ \E j \in 1 .. n : i = p + j
    BY <1>1, WordsJoin
<1> HIDE DEF M, p
<1>3. \A i \in 1 .. n : M[p + i] = b + i
    BY <1>1, <1>2
<1>4. \A k \in 1 .. p : s[k] \in Nat /\ s[k] >= 1 /\ s[k] <= b
    BY <1>2
<1>5. ASSUME NEW i \in 1 .. p + n PROVE M[i] \in 1 .. b + n
    <2>1. CASE i \in 1 .. p
        BY <1>2, <1>4, <2>1
    <2>2. ASSUME NEW j \in 1 .. n, i = p + j PROVE M[i] \in 1 .. b + n
        BY <1>3, <2>2
    <2> QED
        BY <1>2, <2>1, <2>2
<1>6. ASSUME NEW i \in 1 .. p + n, NEW k \in 1 .. p + n, i < k PROVE M[i] < M[k]
    <2>1. CASE k \in 1 .. p
        <3>1. i \in 1 .. p
            BY <1>2, <1>6, <2>1
        <3> QED
            BY <1>2, <1>6, <2>1, <3>1 DEF Rising
    <2>2. ASSUME NEW j \in 1 .. n, k = p + j PROVE M[i] < M[k]
        <3>1. CASE i \in 1 .. p
            <4>1. M[i] = s[i] /\ s[i] <= b /\ s[i] \in Nat /\ M[k] = b + j
                BY <1>2, <1>3, <1>4, <2>2, <3>1
            <4> QED
                BY <4>1
        <3>2. ASSUME NEW h \in 1 .. n, i = p + h PROVE M[i] < M[k]
            <4>1. h < j
                BY <1>2, <1>6, <2>2, <3>2
            <4>2. M[i] = b + h /\ M[k] = b + j
                BY <1>3, <2>2, <3>2
            <4> QED
                BY <4>1, <4>2
        <3> QED
            BY <1>2, <3>1, <3>2
    <2> QED
        BY <1>2, <2>1, <2>2
<1>7. ASSUME NEW w \in 1 .. b + n, w > b PROVE \E i \in 1 .. p + n : M[i] = w
    <2>1. w - b \in 1 .. n /\ b + (w - b) = w
        BY <1>7
    <2>2. PICK j \in 1 .. n : b + j = w
        BY <2>1
    <2>3. M[p + j] = w /\ p + j \in 1 .. p + n
        <3>1. M[p + j] = b + j
            BY <1>3
        <3>2. p + j \in 1 .. p + n
            BY <1>2
        <3> QED
            BY <2>2, <3>1, <3>2
    <2> QED
        BY <2>3
<1> QED
    BY <1>2, <1>3, <1>5, <1>6, <1>7 DEF M, p, r, Rising

\* The first words of a run that joins others are a shorter one that does.
LEMMA RunPrefix ==
    ASSUME NEW s \in Seq(Nat), NEW b \in Nat, NEW n \in Nat, NEW q \in 0 .. n
    PROVE  LET M == s \o Run(b, n)
               c == Len(s) + q
           IN  /\ c \in 0 .. Len(M)
               /\ SubSeq(M, 1, c) = s \o Run(b, q)
               /\ IsPrefix(s \o Run(b, q), M)
               /\ Len(s \o Run(b, q)) = c
               /\ After(M, c) = Run(b + q, n - q)
<1> DEFINE r == Run(b, n)
           t == Run(b, q)
           u == Run(b + q, n - q)
           p == Len(s)
           M == s \o r
           N == s \o t
           c == p + q
<1>0. q \in Nat /\ q <= n /\ n - q \in Nat /\ b + q \in Nat /\ b + q \in Int /\ b \in Int
    OBVIOUS
<1>1. r \in Seq(Nat) /\ Len(r) = n /\ \A i \in 1 .. n : r[i] = b + i
    BY <1>0, RunOf
<1>2. t \in Seq(Nat) /\ Len(t) = q /\ \A i \in 1 .. q : t[i] = b + i
    BY <1>0, RunOf
<1>3. u \in Seq(Nat) /\ Len(u) = n - q /\ \A i \in 1 .. n - q : u[i] = b + q + i
    BY <1>0, RunOf
<1> HIDE DEF r, t, u
<1>4. /\ M \in Seq(Nat) /\ Len(M) = p + n /\ p \in Nat
      /\ \A i \in 1 .. p : M[i] = s[i]
      /\ \A i \in 1 .. n : M[p + i] = r[i]
    BY <1>1, WordsJoin
<1>5. /\ N \in Seq(Nat) /\ Len(N) = p + q
      /\ \A i \in 1 .. p : N[i] = s[i]
      /\ \A i \in 1 .. q : N[p + i] = t[i]
      /\ \A i \in 1 .. p + q : i \in 1 .. p \/ \E j \in 1 .. q : i = p + j
    BY <1>2, WordsJoin
<1> HIDE DEF M, N, p
<1>6. c \in Nat /\ c <= Len(M) /\ c \in 0 .. Len(M) /\ Len(N) = c
    BY <1>0, <1>4, <1>5
<1>7. ASSUME NEW i \in 1 .. c PROVE M[i] = N[i]
    <2>1. CASE i \in 1 .. p
        BY <1>4, <1>5, <2>1
    <2>2. ASSUME NEW j \in 1 .. q, i = p + j PROVE M[i] = N[i]
        <3>1. j \in 1 .. n
            BY <1>0
        <3>2. M[p + j] = r[j] /\ N[p + j] = t[j]
            BY <1>4, <1>5, <3>1
        <3>3. r[j] = b + j /\ t[j] = b + j
            BY <1>1, <1>2, <3>1
        <3> QED
            BY <2>2, <3>2, <3>3
    <2> QED
        BY <1>5, <2>1, <2>2
<1> DEFINE S == SubSeq(M, 1, c)
<1> HIDE DEF c
<1>8. S \in Seq(Nat) /\ Len(S) = c /\ \A i \in 1 .. c : S[i] = M[i]
    BY <1>4, <1>6
<1> HIDE DEF S
<1>9. S = N
    BY <1>5, <1>6, <1>7, <1>8, SeqEqual
<1>10. IsPrefix(N, M)
    <2>1. SubSeq(N, 1, Len(N)) = N
        BY <1>5, SubSeqFull
    <2> QED
        BY <1>6, <1>9, <2>1 DEF IsPrefix, S
<1> DEFINE a == After(M, c)
<1>11. a \in Seq(Nat) /\ Len(a) = Len(M) - c /\ \A i \in 1 .. Len(M) - c : a[i] = M[c + i]
    <2>1. M \in Seq(Nat) /\ c \in 0 .. Len(M)
        BY <1>4, <1>6
    <2> QED
        BY <2>1, RestOfSequence, Zenon
<1> HIDE DEF a
<1>12. Len(M) - c = n - q
    BY <1>0, <1>4 DEF c
<1>13. ASSUME NEW i \in 1 .. n - q PROVE a[i] = u[i]
    <2>1. q + i \in 1 .. n /\ c + i = p + (q + i) /\ b + (q + i) = b + q + i
        BY <1>0, <1>4 DEF c
    <2>2. M[p + (q + i)] = r[q + i]
        BY <1>4, <2>1
    <2>3. r[q + i] = b + (q + i) /\ u[i] = b + q + i
        BY <1>1, <1>3, <2>1
    <2>4. a[i] = M[c + i]
        BY <1>11, <1>12
    <2> QED
        BY <2>1, <2>2, <2>3, <2>4
<1>14. a = u
    BY <1>3, <1>11, <1>12, <1>13, SeqEqual
<1> QED
    BY <1>6, <1>9, <1>10, <1>14 DEF M, N, S, a, c, p, r, t, u

\* The pool with a final in it: what is known of X.pool as words.
LEMMA ChunkWords ==
    ASSUME Types, NEW b \in Nat, NEW e \in 0 .. b, b < said, Repeats(b, e)
    PROVE  FinalChunk \in Texts /\ Words(FinalChunk) = Run(b - e, said - b + e)
<1>1. result.text \in Texts /\ result.ended \in BOOLEAN /\ said \in Nat
    BY StateTypes
<1>2. result.text # <<>>
    <2>1. Words(result.text) = Run(b - e, said - b + e) /\ b - e \in Int /\ said - b + e \in Nat /\ said - b + e # 0
        BY <1>1 DEF Repeats
    <2>2. Len(Words(result.text)) # 0
        BY <2>1, RunOf
    <2> QED
        BY <1>1, <2>2, TextWords
<1>3. ASSUME NEW c \in BOOLEAN
      PROVE  /\ Restore(result.text, result.ended, c) \in Texts
             /\ Words(Restore(result.text, result.ended, c)) = Words(result.text)
    BY <1>1, <1>2, SameWords
<1> DEFINE c == IsEmpty(extractor) \/ Stopped(extractor.pool)
<1>4. FinalChunk = Restore(result.text, result.ended, c) /\ c \in BOOLEAN
    BY DEF FinalChunk
<1> HIDE DEF c
<1> QED
    BY <1>3, <1>4 DEF Repeats

\* What StripLeadingOverlap is to take off: the e words the chunk repeats.
RepeatOf(chunk, recent, b, d, e, n) ==
    /\ chunk \in Texts /\ recent \in Seq(Nat)
    /\ b \in Nat /\ d \in Nat /\ b <= d /\ e \in 0 .. b /\ n \in Nat
    /\ Words(chunk) = Run(d - e, n + e)
    /\ \A k \in DOMAIN recent : recent[k] <= b
    /\ e # 0 => d = b /\ e \in MinOverlapWords .. OverlapWords /\ recent = LastWords(b)

LEMMA Stripped ==
    ASSUME NEW chunk, NEW recent, NEW b, NEW d, NEW e, NEW n, RepeatOf(chunk, recent, b, d, e, n)
    PROVE  /\ StripLeadingOverlap(chunk, recent) \in Texts
           /\ Words(StripLeadingOverlap(chunk, recent)) = Run(d, n)
<1>1. /\ chunk \in Texts /\ recent \in Seq(Nat)
      /\ b \in Nat /\ d \in Nat /\ b <= d /\ e \in 0 .. b /\ n \in Nat
      /\ Words(chunk) = Run(d - e, n + e)
      /\ \A k \in DOMAIN recent : recent[k] <= b
      /\ e # 0 => d = b /\ e \in MinOverlapWords .. OverlapWords /\ recent = LastWords(b)
    BY DEF RepeatOf
<1> QED
    BY <1>1, Repeated

\* What the pool is with a final in it: it goes on from the line, and holds
\* what is neither captioned nor with a flush, with all of the final.
GoesOn(X) ==
    LET N == Words(X.pool)
    IN  /\ X \in [pool : Texts, recent : Seq(Nat)]
        /\ N \in Seq(Nat) /\ Rising(N)
        /\ \A k \in DOMAIN N : N[k] \in 1 .. said
        /\ \A k \in DOMAIN X.recent : X.recent[k] \in 1 .. said
        /\ ~setup.partials => X.recent = LastWords(said)
        /\ \A i \in DOMAIN Line : Before(Line[i], N) /\ \A k \in DOMAIN Line[i] : Line[i][k] <= said
        /\ Before(lastFinal, N) /\ \A k \in DOMAIN lastFinal : lastFinal[k] <= said
        /\ \A w \in 1 .. said : \/ w \in retracted \/ w \in lost \/ Has(Line, w) \/ WithFlush(w)
                                \/ \E k \in DOMAIN N : N[k] = w

\* A text of words up to d, with a run of the words after d behind it.
LEMMA TextThenRun ==
    ASSUME NEW s \in Texts, NEW T \in Texts, NEW d \in Nat, NEW n \in Nat,
           Words(T) = Run(d, n), Rising(Words(s)),
           \A k \in DOMAIN Words(s) : Words(s)[k] \in 1 .. d
    PROVE  LET N == Words(s \o T)
           IN  /\ s \o T \in Texts
               /\ N \in Seq(Nat) /\ Rising(N)
               /\ \A i \in DOMAIN N : N[i] \in 1 .. d + n
               /\ \A k \in DOMAIN Words(s) : \E i \in DOMAIN N : N[i] = Words(s)[k]
               /\ \A w \in 1 .. d + n : w > d => \E i \in DOMAIN N : N[i] = w
               /\ \A w \in Nat : w <= d /\ (\A k \in DOMAIN Words(s) : w < Words(s)[k])
                                   => \A i \in DOMAIN N : w < N[i]
<1> DEFINE W == Words(s)
           N == Words(s \o T)
<1>1. W \in Seq(Nat) /\ DOMAIN W = 1 .. Len(W)
    BY TextWords
<1>2. s \o T \in Texts /\ N = W \o Run(d, n)
    BY TextConcat
<1> HIDE DEF W, N
<1>3. Rising(W) /\ \A k \in DOMAIN W : W[k] \in 1 .. d
    BY DEF W
<1>4. /\ N \in Seq(Nat) /\ Len(N) = Len(W) + n /\ DOMAIN N = 1 .. Len(W) + n
      /\ Rising(N)
      /\ \A i \in 1 .. Len(W) : N[i] = W[i]
      /\ \A i \in 1 .. n : N[Len(W) + i] = d + i
      /\ \A i \in 1 .. Len(W) + n : i \in 1 .. Len(W) \/ \E j \in 1 .. n : i = Len(W) + j
      /\ \A i \in DOMAIN N : N[i] \in 1 .. d + n
      /\ \A w \in 1 .. d + n : w > d => \E i \in DOMAIN N : N[i] = w
    <2> DEFINE M == W \o Run(d, n)
    <2>1. W \in Seq(Nat) /\ Rising(W) /\ \A k \in DOMAIN W : W[k] \in 1 .. d
        BY <1>1, <1>3
    <2>2. /\ M \in Seq(Nat) /\ Len(M) = Len(W) + n /\ DOMAIN M = 1 .. Len(W) + n
          /\ Rising(M)
          /\ \A i \in 1 .. Len(W) : M[i] = W[i]
          /\ \A i \in 1 .. n : M[Len(W) + i] = d + i
          /\ \A i \in 1 .. Len(W) + n : i \in 1 .. Len(W) \/ \E j \in 1 .. n : i = Len(W) + j
          /\ \A i \in DOMAIN M : M[i] \in 1 .. d + n
          /\ \A w \in 1 .. d + n : w > d => \E i \in DOMAIN M : M[i] = w
        BY <2>1, RunJoins, Zenon
    <2>3. N = M
        BY <1>2
    <2> HIDE DEF M
    <2> QED
        BY <2>2, <2>3
<1>5. ASSUME NEW k \in DOMAIN W PROVE \E i \in DOMAIN N : N[i] = W[k]
    <2>1. k \in 1 .. Len(W) /\ k \in DOMAIN N
        BY <1>1, <1>4
    <2> QED
        BY <1>4, <2>1
<1>6. ASSUME NEW w \in Nat, w <= d, \A k \in DOMAIN W : w < W[k], NEW i \in DOMAIN N
      PROVE  w < N[i]
    <2>1. CASE i \in 1 .. Len(W)
        BY <1>1, <1>4, <1>6, <2>1
    <2>2. ASSUME NEW j \in 1 .. n, i = Len(W) + j PROVE w < N[i]
        <3>1. N[i] = d + j
            BY <1>4, <2>2
        <3> QED
            BY <1>6, <3>1
    <2> QED
        BY <1>4, <2>1, <2>2
<1> QED
    BY <1>2, <1>4, <1>5, <1>6 DEF W, N

LEMMA Gathered ==
    ASSUME Types, NEW s \in Texts, NEW T \in Texts,
           NEW b \in Nat, NEW d \in Nat, NEW n \in Nat, b <= d, said = d + n,
           Words(T) = Run(d, n), Rising(Words(s)),
           \A k \in DOMAIN Words(s) : Words(s)[k] \in 1 .. d,
           \A k \in DOMAIN extractor.recent : extractor.recent[k] \in 1 .. b,
           ~setup.partials => d = b /\ extractor.recent = LastWords(b),
           \A i \in DOMAIN Line : \A k \in DOMAIN Line[i] :
                Line[i][k] <= d /\ \A j \in DOMAIN Words(s) : Line[i][k] < Words(s)[j],
           \A k \in DOMAIN lastFinal :
                lastFinal[k] <= d /\ \A j \in DOMAIN Words(s) : lastFinal[k] < Words(s)[j],
           \A w \in 1 .. d : \/ w \in retracted \/ w \in lost \/ Has(Line, w) \/ WithFlush(w)
                             \/ \E k \in DOMAIN Words(s) : Words(s)[k] = w
    PROVE  GoesOn([pool |-> s \o T, recent |-> RememberTail(extractor.recent, T)])
<1> DEFINE N == Words(s \o T)
           R == RememberTail(extractor.recent, T)
           X == [pool |-> s \o T, recent |-> R]
<1>1. /\ s \o T \in Texts
      /\ N \in Seq(Nat) /\ Rising(N)
      /\ \A i \in DOMAIN N : N[i] \in 1 .. d + n
      /\ \A k \in DOMAIN Words(s) : \E i \in DOMAIN N : N[i] = Words(s)[k]
      /\ \A w \in 1 .. d + n : w > d => \E i \in DOMAIN N : N[i] = w
      /\ \A w \in Nat : w <= d /\ (\A k \in DOMAIN Words(s) : w < Words(s)[k])
                          => \A i \in DOMAIN N : w < N[i]
    BY TextThenRun
<1>2. /\ extractor.recent \in Seq(Nat) /\ lastFinal \in Seq(Nat)
      /\ Line \in Seq(Seq(Nat))
    BY StateTypes, LineTypes
<1>3. /\ R \in Seq(Nat)
      /\ \A i \in DOMAIN R : \/ \E k \in DOMAIN extractor.recent : R[i] = extractor.recent[k]
                             \/ \E k \in DOMAIN Words(T) : R[i] = Words(T)[k]
    BY <1>2, Remembered
<1>4. \A k \in DOMAIN Words(T) : Words(T)[k] \in 1 .. said
    <2>1. d \in Int
        OBVIOUS
    <2>2. DOMAIN Run(d, n) = 1 .. n /\ \A i \in 1 .. n : Run(d, n)[i] = d + i
        BY <2>1, RunOf
    <2> QED
        BY <2>2
<1>5. ~setup.partials => R = LastWords(said)
    BY RememberedRun
<1> HIDE DEF R, N
<1>6. \A i \in DOMAIN R : R[i] \in 1 .. said
    <2> TAKE i \in DOMAIN R
    <2>1. CASE \E k \in DOMAIN extractor.recent : R[i] = extractor.recent[k]
        BY <2>1
    <2>2. CASE \E k \in DOMAIN Words(T) : R[i] = Words(T)[k]
        BY <1>4, <2>2
    <2> QED
        BY <1>3, <2>1, <2>2
<1>7. ASSUME NEW w \in Nat, w <= d, \A j \in DOMAIN Words(s) : w < Words(s)[j]
      PROVE  w <= said /\ \A i \in DOMAIN N : w < N[i]
    BY <1>1, <1>7
<1>8. ASSUME NEW i \in DOMAIN Line
      PROVE  Before(Line[i], N) /\ \A k \in DOMAIN Line[i] : Line[i][k] <= said
    <2>1. \A k \in DOMAIN Line[i] : Line[i][k] \in Nat
        <3>1. Line[i] \in Seq(Nat)
            BY <1>2
        <3> QED
            BY <3>1
    <2> QED
        BY <1>7, <2>1 DEF Before
<1>9. Before(lastFinal, N) /\ \A k \in DOMAIN lastFinal : lastFinal[k] <= said
    <2>1. \A k \in DOMAIN lastFinal : lastFinal[k] \in Nat
        BY <1>2
    <2> QED
        BY <1>7, <2>1 DEF Before
<1>10. ASSUME NEW w \in 1 .. said
       PROVE  \/ w \in retracted \/ w \in lost \/ Has(Line, w) \/ WithFlush(w)
              \/ \E k \in DOMAIN N : N[k] = w
    <2>1. CASE w > d
        <3>1. w \in 1 .. d + n
            OBVIOUS
        <3> QED
            BY <1>1, <2>1, <3>1
    <2>2. CASE w <= d
        <3>1. w \in 1 .. d
            BY <2>2
        <3>2. CASE \E k \in DOMAIN Words(s) : Words(s)[k] = w
            BY <1>1, <3>2
        <3> QED
            BY <3>1, <3>2
    <2> QED
        BY <2>1, <2>2
<1>11. X.pool = s \o T /\ X.recent = R /\ X \in [pool : Texts, recent : Seq(Nat)]
    BY <1>1, <1>3
<1>12. GoesOn(X)
    <2> HIDE DEF X
    <2>1. N = Words(X.pool)
        BY <1>11 DEF N
    <2>2. \A k \in DOMAIN N : N[k] \in 1 .. said
        BY <1>1
    <2> QED
        BY <1>1, <1>5, <1>6, <1>8, <1>9, <1>10, <1>11, <2>1, <2>2 DEF GoesOn
<1> QED
    BY <1>12 DEF R

LEMMA PooledGoesOn ==
    ASSUME Steady, Types, AInv, pc = "assemble", NEW b \in Nat, UpTo(b)
    PROVE  GoesOn(Pooled(FinalChunk))
<1>1. /\ b < said /\ heard = said
      /\ PoolIsOf(b) /\ CommittedIsOf(b) /\ LineIsOf(b) /\ Kept(b)
    BY DEF AInv, Idle, UpTo
<1>2. PICK e \in 0 .. b : Repeats(b, e)
    BY DEF UpTo
<1>3. /\ said \in Nat /\ extractor.pool \in Texts /\ extractor.recent \in Seq(Nat)
      /\ Pool \in Seq(Nat) /\ Len(Pool) \in Nat /\ DOMAIN Pool = 1 .. Len(Pool)
      /\ Committed \in Seq(Nat) /\ Len(Committed) \in Nat
      /\ Line \in Seq(Seq(Nat))
    BY StateTypes, LineTypes
<1>4. FinalChunk \in Texts /\ Words(FinalChunk) = Run(b - e, said - b + e)
    BY <1>1, <1>2, ChunkWords
<1>5. /\ Rising(Pool) /\ (\A k \in DOMAIN Pool : Pool[k] \in 1 .. b)
      /\ \A k \in DOMAIN extractor.recent : extractor.recent[k] \in 1 .. b
      /\ ~setup.partials => extractor.recent = LastWords(b)
    BY <1>1 DEF PoolIsOf
<1>6. e # 0 => ~setup.partials /\ e \in MinOverlapWords .. OverlapWords
    BY <1>2 DEF Repeats
<1>7. \A k \in DOMAIN extractor.recent : extractor.recent[k] <= b
    BY <1>3, <1>5
<1>8. extractor.pool \in Texts /\ Words(extractor.pool) = Pool
    BY <1>3 DEF Pool
<1>9. CASE Committed = <<>>
    <2> DEFINE T == StripLeadingOverlap(FinalChunk, extractor.recent)
               n == said - b
    <2>1. n \in Nat /\ said = b + n /\ said - b + e = n + e
        BY <1>1, <1>3
    <2>2. Words(FinalChunk) = Run(b - e, n + e)
        BY <1>4, <2>1
    <2> HIDE DEF n
    <2>3. e # 0 => b = b /\ e \in MinOverlapWords .. OverlapWords /\ extractor.recent = LastWords(b)
        BY <1>5, <1>6
    <2>4. T \in Texts /\ Words(T) = Run(b, n)
        <3> DEFINE d == b
        <3>1. b <= d /\ d \in Nat /\ n \in Nat /\ d = b /\ e \in 0 .. b
            BY <1>2, <2>1
        <3>2. e # 0 => d = b /\ e \in MinOverlapWords .. OverlapWords /\ extractor.recent = LastWords(b)
            BY <2>3
        <3>3. Words(FinalChunk) = Run(d - e, n + e)
            BY <2>2
        <3> HIDE DEF d
        <3>4. T \in Texts /\ Words(T) = Run(d, n)
            <4>1. RepeatOf(FinalChunk, extractor.recent, b, d, e, n)
                BY <1>3, <1>4, <1>7, <3>1, <3>2, <3>3 DEF RepeatOf
            <4> QED
                BY <4>1, Stripped
        <3> QED
            BY <3>1, <3>4
    <2> HIDE DEF T
    <2>5. Pooled(FinalChunk) = [pool |-> extractor.pool \o T, recent |-> RememberTail(extractor.recent, T)]
        BY <1>9 DEF Pooled, AppendChunk, T, Committed
    <2>6. \A w : Passed(b, w) => w <= b /\ \A k \in DOMAIN Pool : w < Pool[k]
        BY <1>9 DEF Passed
    <2>7. \A i \in DOMAIN Line : \A k \in DOMAIN Line[i] :
              Line[i][k] <= b /\ \A j \in DOMAIN Pool : Line[i][k] < Pool[j]
        BY <1>1, <2>6 DEF LineIsOf
    <2>8. \A k \in DOMAIN lastFinal : lastFinal[k] <= b /\ \A j \in DOMAIN Pool : lastFinal[k] < Pool[j]
        BY <1>1, <2>6 DEF LineIsOf
    <2>9. \A w \in 1 .. b : \/ w \in retracted \/ w \in lost \/ Has(Line, w) \/ WithFlush(w)
                            \/ \E k \in DOMAIN Pool : Pool[k] = w
        BY <1>1 DEF Kept, InPool
    <2>10. ~setup.partials => b = b /\ extractor.recent = LastWords(b)
        BY <1>5
    <2>11. b <= b
        OBVIOUS
    <2>12. GoesOn([pool |-> extractor.pool \o T, recent |-> RememberTail(extractor.recent, T)])
        BY <1>5, <1>8, <2>1, <2>4, <2>7, <2>8, <2>9, <2>10, <2>11, Gathered
    <2> QED
        BY <2>5, <2>12
<1>10. CASE Committed # <<>>
    <2> DEFINE q == Len(Committed) - Len(Pool)
               n == said - b
               d == b + q
    <2>1. /\ Len(Pool) < Len(Committed) /\ q <= n
          /\ Committed = Pool \o Run(b, q)
          /\ \A k \in DOMAIN Committed : Has(Line, Committed[k])
        BY <1>1, <1>10 DEF CommittedIsOf
    <2>2. setup.partials /\ e = 0
        BY <1>2, <1>6, <1>10 DEF AInv, Calm
    <2>3. /\ n \in Nat /\ q \in 0 .. n /\ q \in Nat /\ n - q \in Nat /\ d \in Nat /\ b <= d
          /\ said = d + (n - q) /\ b - e = b /\ said - b + e = n /\ Len(Committed) = Len(Pool) + q
        BY <1>1, <1>3, <2>1, <2>2
    <2>4. Words(FinalChunk) = Run(b, n)
        BY <1>4, <2>3
    <2> HIDE DEF n, q
    <2> DEFINE text == extractor.pool \o FinalChunk
               M == Pool \o Run(b, n)
               c == Len(Pool) + q
    <2>5. text \in Texts /\ Words(text) = M
        BY <1>4, <1>8, <2>4, TextConcat
    <2>6. /\ c \in 0 .. Len(M) /\ IsPrefix(Committed, M) /\ Len(Committed) = c
          /\ After(M, c) = Run(b + q, n - q)
        <3>1. /\ c \in 0 .. Len(M)
              /\ IsPrefix(Pool \o Run(b, q), M)
              /\ After(M, c) = Run(b + q, n - q)
            <4>1. Pool \in Seq(Nat) /\ n \in Nat /\ q \in 0 .. n
                BY <1>3, <2>3
            <4> QED
                BY <4>1, RunPrefix, Zenon
        <3> QED
            BY <2>1, <2>3, <3>1
    <2> HIDE DEF text, M, c
    <2> DEFINE U == Uncommitted(committer, text)
    <2>7. U = After(text, c)
        BY <2>5, <2>6 DEF Uncommitted, StartsWith, Committed
    <2>8. U \in Texts /\ Words(U) = Run(d, n - q)
        <3>1. c \in 0 .. Len(text)
            BY <2>5, <2>6, TextWords
        <3>2. After(text, c) \in Texts /\ Words(After(text, c)) = After(Words(text), c)
            BY <2>5, <3>1, TextAfter
        <3> QED
            BY <2>5, <2>6, <2>7, <3>2
    <2> HIDE DEF U, d
    <2> DEFINE T == StripLeadingOverlap(U, extractor.recent)
    <2>9. T \in Texts /\ Words(T) = Run(d, n - q)
        <3> DEFINE z == 0
                   m == n - q
        <3>1. z \in 0 .. b /\ d - z = d /\ m + z = m /\ m \in Nat /\ z = 0
            BY <2>3
        <3>2. Words(U) = Run(d - z, m + z)
            BY <2>8, <3>1
        <3> HIDE DEF z, m
        <3>3. T \in Texts /\ Words(T) = Run(d, m)
            <4>1. z # 0 => d = b /\ z \in MinOverlapWords .. OverlapWords /\ extractor.recent = LastWords(b)
                BY <3>1
            <4>2. U \in Texts /\ z \in 0 .. b /\ d \in Nat /\ b <= d /\ m \in Nat
                BY <2>3, <2>8, <3>1
            <4>3. RepeatOf(U, extractor.recent, b, d, z, m)
                BY <1>3, <1>7, <3>2, <4>1, <4>2 DEF RepeatOf
            <4> QED
                BY <4>3, Stripped
        <3> QED
            BY <3>3 DEF m
    <2> HIDE DEF T
    <2>10. Pooled(FinalChunk) = [pool |-> <<>> \o T, recent |-> RememberTail(extractor.recent, T)]
        <3>1. Drain(extractor).pool = <<>> /\ Drain(extractor).recent = extractor.recent
            BY Drained
        <3>2. Pooled(FinalChunk) = AppendChunk(Drain(extractor), U)
            BY <1>10 DEF Pooled, Committed, U, text
        <3> QED
            BY <3>1, <3>2 DEF AppendChunk, T
    <2>11. <<>> \in Texts /\ DOMAIN Words(<<>>) = {} /\ Rising(Words(<<>>))
        BY DEF Words, Texts, Rising
    <2>12. \A w : Passed(b, w) => w <= d
        BY <1>10 DEF Passed, d, q
    <2>13. \A i \in DOMAIN Line : \A k \in DOMAIN Line[i] :
              Line[i][k] <= d /\ \A j \in DOMAIN Words(<<>>) : Line[i][k] < Words(<<>>)[j]
        BY <1>1, <2>11, <2>12 DEF LineIsOf
    <2>14. \A k \in DOMAIN lastFinal : lastFinal[k] <= d /\ \A j \in DOMAIN Words(<<>>) : lastFinal[k] < Words(<<>>)[j]
        BY <1>1, <2>11, <2>12 DEF LineIsOf
    <2>15. ASSUME NEW w \in 1 .. d
           PROVE  \/ w \in retracted \/ w \in lost \/ Has(Line, w) \/ WithFlush(w)
                  \/ \E k \in DOMAIN Words(<<>>) : Words(<<>>)[k] = w
        <3>1. /\ \A i \in 1 .. Len(Pool) : Committed[i] = Pool[i]
              /\ \A i \in 1 .. q : Committed[Len(Pool) + i] = b + i
              /\ DOMAIN Committed = 1 .. Len(Pool) + q
            <4> DEFINE C == Pool \o Run(b, q)
            <4>1. /\ C \in Seq(Nat) /\ Len(C) = Len(Pool) + q /\ DOMAIN C = 1 .. Len(Pool) + q
                  /\ Rising(C)
                  /\ \A i \in 1 .. Len(Pool) : C[i] = Pool[i]
                  /\ \A i \in 1 .. q : C[Len(Pool) + i] = b + i
                  /\ \A i \in 1 .. Len(Pool) + q : i \in 1 .. Len(Pool) \/ \E j \in 1 .. q : i = Len(Pool) + j
                  /\ \A i \in DOMAIN C : C[i] \in 1 .. b + q
                  /\ \A x \in 1 .. b + q : x > b => \E i \in DOMAIN C : C[i] = x
                <5>1. Pool \in Seq(Nat) /\ q \in Nat /\ Rising(Pool) /\ \A k \in DOMAIN Pool : Pool[k] \in 1 .. b
                    BY <1>3, <1>5, <2>3
                <5> QED
                    BY <5>1, RunJoins, Zenon
            <4>2. Committed = C
                BY <2>1
            <4> HIDE DEF C
            <4> QED
                BY <4>1, <4>2
        <3>2. CASE w <= b
            <4>1. w \in 1 .. b
                BY <3>2
            <4>2. CASE InPool(w)
                <5>1. PICK k \in DOMAIN Pool : Pool[k] = w
                    BY <4>2 DEF InPool
                <5>2. k \in 1 .. Len(Pool) /\ k \in DOMAIN Committed
                    BY <1>3, <2>3, <3>1
                <5>3. Committed[k] = w
                    BY <3>1, <5>1, <5>2
                <5> QED
                    BY <2>1, <5>2, <5>3
            <4> QED
                BY <1>1, <4>1, <4>2 DEF Kept
        <3>3. CASE w > b
            <4>1. PICK j \in 1 .. q : w = b + j
                <5>1. w - b \in 1 .. q /\ w = b + (w - b)
                    BY <2>3, <3>3 DEF d
                <5> QED
                    BY <5>1
            <4>2. Len(Pool) + j \in DOMAIN Committed /\ Committed[Len(Pool) + j] = w
                BY <1>3, <2>3, <3>1, <4>1
            <4> QED
                BY <2>1, <4>2
        <3> QED
            BY <3>2, <3>3
    <2>16. ~setup.partials => d = b /\ extractor.recent = LastWords(b)
        BY <2>2
    <2> DEFINE m == n - q
    <2> DEFINE s == <<>>
    <2>17. /\ m \in Nat /\ d \in Nat /\ b <= d /\ said = d + m /\ Words(T) = Run(d, m) /\ T \in Texts
        BY <2>3, <2>9
    <2>18. /\ s \in Texts /\ Rising(Words(s))
           /\ \A k \in DOMAIN Words(s) : Words(s)[k] \in 1 .. d
        BY <2>11
    <2>19. /\ \A i \in DOMAIN Line : \A k \in DOMAIN Line[i] :
                Line[i][k] <= d /\ \A j \in DOMAIN Words(s) : Line[i][k] < Words(s)[j]
           /\ \A k \in DOMAIN lastFinal :
                lastFinal[k] <= d /\ \A j \in DOMAIN Words(s) : lastFinal[k] < Words(s)[j]
        BY <2>13, <2>14
    <2>20. \A w \in 1 .. d : \/ w \in retracted \/ w \in lost \/ Has(Line, w) \/ WithFlush(w)
                             \/ \E k \in DOMAIN Words(s) : Words(s)[k] = w
        BY <2>15
    <2>21. GoesOn([pool |-> s \o T, recent |-> RememberTail(extractor.recent, T)])
        <3> HIDE DEF m, s
        <3> QED
            BY <1>5, <2>16, <2>17, <2>18, <2>19, <2>20, Gathered
    <2> QED
        BY <2>10, <2>21
<1> QED
    BY <1>9, <1>10

\* extractCompleted splits the pool: the words of the sentences it returns come
\* before those of the rest, which holds no terminator.
LEMMA Split ==
    ASSUME NEW X \in [pool : Texts, recent : Seq(Nat)], Rising(Words(X.pool))
    PROVE  LET N == Words(X.pool)
               P == Completed(X)
               S == Rest(X).pool
           IN  /\ P \in Seq(Texts)
               /\ \A k \in DOMAIN P : Rising(Words(P[k]))
               /\ \A j, k \in DOMAIN P : j < k => Before(Words(P[j]), Words(P[k]))
               /\ \A k \in DOMAIN P : \A i \in DOMAIN P[k] : \E q \in DOMAIN N : Words(P[k])[i] = N[q]
               /\ Rest(X) \in [pool : Texts, recent : Seq(Nat)] /\ Rest(X).recent = X.recent
               /\ Rising(Words(S))
               /\ \A i \in DOMAIN Words(S) : \E q \in DOMAIN N : Words(S)[i] = N[q]
               /\ \A k \in DOMAIN P : Before(Words(P[k]), Words(S))
               /\ \A i \in DOMAIN S : ~S[i].stop
               /\ \A q \in DOMAIN N : \/ \E k \in DOMAIN P : \E i \in DOMAIN P[k] : Words(P[k])[i] = N[q]
                                      \/ \E i \in DOMAIN Words(S) : Words(S)[i] = N[q]
<1> DEFINE text == X.pool
           cuts == Cuts(text)
           last == LastOrZero(cuts)
           N == Words(text)
           P == Completed(X)
           S == Rest(X).pool
           W == Words(S)
<1>1. /\ text \in Texts /\ N \in Seq(Nat) /\ Len(text) \in Nat
      /\ DOMAIN N = 1 .. Len(text) /\ DOMAIN text = 1 .. Len(text) /\ Rising(N)
      /\ \A i \in 1 .. Len(text) : N[i] \in Nat
    BY TextWords
<1>2. cuts \in SUBSET (1 .. Len(text)) /\ Stops(text) \subseteq cuts
    BY <1>1 DEF Cuts, Stops
<1> DEFINE Q == Pieces(text, cuts)
<1>3. P = Q
    BY DEF Completed
<1>4. X.recent \in Seq(Nat) /\ Rest(X) = [pool |-> After(text, last), recent |-> X.recent]
    BY DEF Rest
<1> HIDE DEF text, cuts, P
<1>5. /\ P \in Seq(Texts)
      /\ \A k \in DOMAIN P : Rising(Words(P[k]))
      /\ \A j, k \in DOMAIN P : j < k => Before(Words(P[j]), Words(P[k]))
      /\ \A k \in DOMAIN P : \A i \in DOMAIN P[k] : \E q \in 1 .. last : Words(P[k])[i] = N[q]
      /\ \A q \in 1 .. last : \E k \in DOMAIN P : \E i \in DOMAIN P[k] : Words(P[k])[i] = N[q]
      /\ last \in 0 .. Len(text)
    <2>1. /\ Q \in Seq(Texts)
          /\ \A k \in DOMAIN Q : Rising(Words(Q[k]))
          /\ \A j, k \in DOMAIN Q : j < k => Before(Words(Q[j]), Words(Q[k]))
          /\ \A k \in DOMAIN Q : \A i \in DOMAIN Q[k] : \E q \in 1 .. last : Words(Q[k])[i] = Words(text)[q]
          /\ \A q \in 1 .. last : \E k \in DOMAIN Q : \E i \in DOMAIN Q[k] : Words(Q[k])[i] = Words(text)[q]
          /\ last \in 0 .. Len(text)
        BY <1>1, <1>2, Sentences, Zenon
    <2> HIDE DEF Q, last
    <2> QED
        BY <1>3, <2>1
<1>6. \A p \in cuts : p <= last
    BY <1>1, <1>2, TheLast
<1> HIDE DEF last, N
<1>7. S = After(text, last)
    BY <1>4
<1>8. /\ S \in Texts /\ Len(S) = Len(text) - last
      /\ \A i \in 1 .. Len(text) - last : S[i] = text[last + i]
    <2> DEFINE A == After(text, last)
    <2>1. text \in Texts /\ last \in 0 .. Len(text)
        BY <1>1, <1>5
    <2>2. A \in Texts /\ Len(A) = Len(text) - last /\ \A i \in 1 .. Len(text) - last : A[i] = text[last + i]
        BY <2>1, TextAfter, Zenon
    <2> HIDE DEF A
    <2> QED
        BY <1>7, <2>2 DEF A
<1>9. Rest(X) \in [pool : Texts, recent : Seq(Nat)] /\ Rest(X).recent = X.recent
    <2> DEFINE A == After(text, last)
    <2>1. A \in Texts
        BY <1>7, <1>8
    <2> HIDE DEF A
    <2>2. Rest(X) = [pool |-> A, recent |-> X.recent]
        BY <1>4 DEF A
    <2> QED
        BY <1>4, <2>1, <2>2
<1> HIDE DEF S
<1>10. /\ DOMAIN W = 1 .. Len(text) - last /\ DOMAIN S = 1 .. Len(text) - last
       /\ \A i \in 1 .. Len(text) - last : W[i] = N[last + i] /\ last + i \in 1 .. Len(text) /\ last + i > last
    <2>1. /\ DOMAIN S = 1 .. Len(S) /\ DOMAIN W = 1 .. Len(S)
          /\ \A i \in 1 .. Len(S) : W[i] = S[i].word
        BY <1>8, TextWords
    <2>2. \A i \in 1 .. Len(text) : N[i] = text[i].word
        BY <1>1, TextWords DEF N
    <2>3. ASSUME NEW i \in 1 .. Len(text) - last
          PROVE  W[i] = N[last + i] /\ last + i \in 1 .. Len(text) /\ last + i > last
        <3>1. last + i \in 1 .. Len(text) /\ last + i > last
            BY <1>1, <1>5
        <3>2. i \in 1 .. Len(S)
            BY <1>8
        <3> QED
            BY <1>8, <2>1, <2>2, <3>1, <3>2
    <2> QED
        BY <1>8, <2>1, <2>3
<1> HIDE DEF W
<1>11. Rising(W)
    <2> SUFFICES ASSUME NEW i \in DOMAIN W, NEW j \in DOMAIN W, i < j PROVE W[i] < W[j]
        BY DEF Rising
    <2>1. last + i < last + j
        BY <1>1, <1>5, <1>10
    <2>2. N[last + i] < N[last + j]
        BY <1>1, <1>10, <2>1 DEF Rising
    <2> QED
        BY <1>10, <2>2
<1>12. ASSUME NEW i \in DOMAIN W PROVE \E q \in DOMAIN N : W[i] = N[q]
    BY <1>1, <1>10
<1>13. ASSUME NEW k \in DOMAIN P PROVE Before(Words(P[k]), W)
    <2> SUFFICES ASSUME NEW i \in DOMAIN Words(P[k]), NEW j \in DOMAIN W PROVE Words(P[k])[i] < W[j]
        BY DEF Before
    <2>1. i \in DOMAIN P[k]
        BY DEF Words
    <2>2. PICK q \in 1 .. last : Words(P[k])[i] = N[q]
        BY <1>5, <2>1
    <2>3. q \in 1 .. Len(text) /\ last + j \in 1 .. Len(text) /\ q < last + j /\ W[j] = N[last + j]
        <3>1. j \in 1 .. Len(text) - last
            BY <1>10
        <3>2. W[j] = N[last + j] /\ last + j \in 1 .. Len(text) /\ last + j > last
            BY <1>10, <3>1
        <3>3. q <= last /\ q \in Nat /\ last \in Nat /\ last <= Len(text) /\ q >= 1
            BY <1>1, <1>5, <2>2
        <3> QED
            BY <1>1, <3>2, <3>3
    <2>4. N[q] < N[last + j]
        BY <1>1, <2>3 DEF Rising
    <2> QED
        BY <2>2, <2>3, <2>4
<1>14. ASSUME NEW i \in DOMAIN S PROVE ~S[i].stop
    <2>1. last + i \in 1 .. Len(text) /\ last + i > last /\ S[i] = text[last + i]
        BY <1>8, <1>10
    <2>2. last + i \notin cuts
        BY <1>1, <1>2, <1>5, <1>6, <2>1
    <2>3. last + i \notin Stops(text) /\ last + i \in DOMAIN text
        BY <1>1, <1>2, <2>1, <2>2
    <2> QED
        BY <2>1, <2>3 DEF Stops
<1>15. ASSUME NEW q \in DOMAIN N
       PROVE  \/ \E k \in DOMAIN P : \E i \in DOMAIN P[k] : Words(P[k])[i] = N[q]
              \/ \E i \in DOMAIN W : W[i] = N[q]
    <2>1. CASE q <= last
        <3>1. q \in 1 .. last
            BY <1>1, <1>5, <2>1
        <3> QED
            BY <1>5, <3>1
    <2>2. CASE q > last
        <3>1. q - last \in 1 .. Len(text) - last /\ last + (q - last) = q
            BY <1>1, <1>5, <2>2
        <3> QED
            BY <1>10, <3>1
    <2> QED
        BY <1>1, <1>5, <2>1, <2>2
<1>16. \A k \in DOMAIN P : \A i \in DOMAIN P[k] : \E q \in DOMAIN N : Words(P[k])[i] = N[q]
    <2>1. \A q \in 1 .. last : q \in DOMAIN N
        BY <1>1, <1>5
    <2> QED
        BY <1>5, <2>1
<1> QED
    BY <1>5, <1>9, <1>11, <1>12, <1>13, <1>14, <1>15, <1>16 DEF N, W, S, text, P

LEMMA AssembleKeeps ==
    ASSUME Steady, Types, AInv, Assemble
    PROVE  Types' /\ AInv'
<1> DEFINE X0 == Pooled(FinalChunk)
<1>1. /\ pc = "assemble" /\ pc' = "launch" /\ agenda = <<>>
      /\ extractor' = Rest(X0) /\ agenda' = Agenda(Completed(X0), "final")
      /\ committer' = NewCommitter
      /\ UNCHANGED <<setup, ends, retracted, said, heard, partials, result, lastFinal,
                     flushes, finished, captions, lost, strayed>>
    BY DEF Assemble, speech
<1>2. PICK b \in Nat : UpTo(b)
    BY DEF AInv
<1>3. GoesOn(X0)
    BY <1>1, <1>2, PooledGoesOn
<1> HIDE DEF X0
<1>4. PICK X : X = X0
    OBVIOUS
<1>5. PICK P : P = Completed(X)
    OBVIOUS
<1>6. PICK N : N = Words(X.pool)
    OBVIOUS
<1>7. PICK R : R = Rest(X)
    OBVIOUS
<1>8. PICK W : W = Words(R.pool)
    OBVIOUS
<1>9. PICK n \in Nat : n = said
    BY StateTypes
<1>10. /\ X \in [pool : Texts, recent : Seq(Nat)]
       /\ N \in Seq(Nat) /\ Rising(N)
       /\ \A k \in DOMAIN N : N[k] \in 1 .. n
       /\ \A k \in DOMAIN X.recent : X.recent[k] \in 1 .. n
       /\ ~setup.partials => X.recent = LastWords(n)
       /\ \A i \in DOMAIN Line : Before(Line[i], N) /\ \A k \in DOMAIN Line[i] : Line[i][k] <= n
       /\ Before(lastFinal, N) /\ \A k \in DOMAIN lastFinal : lastFinal[k] <= n
       /\ \A w \in 1 .. n : \/ w \in retracted \/ w \in lost \/ Has(Line, w) \/ WithFlush(w)
                            \/ \E k \in DOMAIN N : N[k] = w
    BY <1>3, <1>4, <1>6, <1>9 DEF GoesOn
<1>11. /\ P \in Seq(Texts)
       /\ \A k \in DOMAIN P : Rising(Words(P[k]))
       /\ \A j, k \in DOMAIN P : j < k => Before(Words(P[j]), Words(P[k]))
       /\ \A k \in DOMAIN P : \A i \in DOMAIN P[k] : \E q \in DOMAIN N : Words(P[k])[i] = N[q]
       /\ R \in [pool : Texts, recent : Seq(Nat)] /\ R.recent = X.recent
       /\ Rising(W)
       /\ \A i \in DOMAIN W : \E q \in DOMAIN N : W[i] = N[q]
       /\ \A k \in DOMAIN P : Before(Words(P[k]), W)
       /\ \A i \in DOMAIN R.pool : ~R.pool[i].stop
       /\ \A q \in DOMAIN N : \/ \E k \in DOMAIN P : \E i \in DOMAIN P[k] : Words(P[k])[i] = N[q]
                              \/ \E i \in DOMAIN W : W[i] = N[q]
    <2>1. Rising(Words(X.pool))
        BY <1>6, <1>10
    <2> DEFINE M == Words(X.pool)
               C == Completed(X)
               S == Rest(X).pool
    <2>2. /\ C \in Seq(Texts)
          /\ \A k \in DOMAIN C : Rising(Words(C[k]))
          /\ \A j, k \in DOMAIN C : j < k => Before(Words(C[j]), Words(C[k]))
          /\ \A k \in DOMAIN C : \A i \in DOMAIN C[k] : \E q \in DOMAIN M : Words(C[k])[i] = M[q]
          /\ Rest(X) \in [pool : Texts, recent : Seq(Nat)] /\ Rest(X).recent = X.recent
          /\ Rising(Words(S))
          /\ \A i \in DOMAIN Words(S) : \E q \in DOMAIN M : Words(S)[i] = M[q]
          /\ \A k \in DOMAIN C : Before(Words(C[k]), Words(S))
          /\ \A i \in DOMAIN S : ~S[i].stop
          /\ \A q \in DOMAIN M : \/ \E k \in DOMAIN C : \E i \in DOMAIN C[k] : Words(C[k])[i] = M[q]
                                 \/ \E i \in DOMAIN Words(S) : Words(S)[i] = M[q]
        BY <1>10, <2>1, Split, Zenon
    <2>3. M = N /\ C = P /\ Rest(X) = R /\ S = R.pool /\ Words(S) = W
        BY <1>5, <1>6, <1>7, <1>8
    <2> HIDE DEF M, C, S
    <2> QED
        BY <2>2, <2>3
<1>12. \A k \in DOMAIN P : \A i \in DOMAIN Words(P[k]) : \E q \in DOMAIN N : Words(P[k])[i] = N[q]
    BY <1>11 DEF Words
<1>13. /\ agenda' \in Seq([text : Texts, kind : Handings])
       /\ LineInOrder'
       /\ \A w : Has(Line, w) => Has(Line, w)'
       /\ \A k \in DOMAIN P : \A i \in DOMAIN P[k] : Has(Line, Words(P[k])[i])'
       /\ \A i \in DOMAIN Line' : \/ \E j \in DOMAIN Line : Line'[i] = Line[j]
                                  \/ \E k \in DOMAIN P : Line'[i] = Words(P[k])
    <2>1. "final" \in Handings /\ agenda' = Agenda(P, "final")
        BY <1>1, <1>4, <1>5 DEF Handings
    <2>2. ASSUME NEW s, Before(s, N), NEW k \in DOMAIN P PROVE Before(s, Words(P[k]))
        BY <1>12, <2>2 DEF Before
    <2>3. /\ \A i \in DOMAIN Line, k \in DOMAIN P : Before(Line[i], Words(P[k]))
          /\ \A k \in DOMAIN P : Before(lastFinal, Words(P[k]))
        BY <1>10, <2>2
    <2> QED
        BY <1>1, <1>11, <2>1, <2>3, HandIn
<1>14. extractor' = R
    BY <1>1, <1>4, <1>7
<1>15. Pool' = W /\ Committed' = <<>> /\ ~committer'.diverged
    BY <1>1, <1>8, <1>14 DEF Pool, Committed, NewCommitter
<1>16. Types'
    <2>1. NewCommitter \in [committed : Seq(Nat), candidate : Texts, seen : Nat, diverged : BOOLEAN]
        BY DEF NewCommitter, Texts
    <2> QED
        BY <1>1, <1>11, <1>13, <1>14, <2>1 DEF Types
<1>17. Idle'
    <2>1. heard = said /\ partials = 0 /\ ~finished
        BY <1>1 DEF AInv, Idle
    <2> QED
        BY <1>1, <1>15, <2>1 DEF Idle
<1>18. Calm'
    <2>1. \A i \in DOMAIN extractor'.pool : ~extractor'.pool[i].stop
        BY <1>11, <1>14
    <2>2. ~setup.partials => partials = 0
        BY DEF AInv, Calm
    <2> QED
        BY <1>1, <1>15, <2>1, <2>2 DEF Calm
<1>19. Flushing'
    BY <1>1, CancelledStay DEF AInv
<1>20. \A i \in DOMAIN W : W[i] \in 1 .. n
    BY <1>10, <1>11
<1>21. PoolIsOf(n)' /\ CommittedIsOf(n)'
    <2>1. extractor'.recent = X.recent
        BY <1>11, <1>14
    <2> QED
        BY <1>1, <1>10, <1>11, <1>15, <1>20, <2>1 DEF PoolIsOf, CommittedIsOf
<1>22. LineIsOf(n)'
    <2>1. ASSUME NEW w PROVE Passed(n, w)' <=> w <= n /\ \A k \in DOMAIN W : w < W[k]
        BY <1>15 DEF Passed
    <2>2. ASSUME NEW s, Before(s, N), NEW k \in DOMAIN s PROVE \A i \in DOMAIN W : s[k] < W[i]
        BY <1>11, <2>2 DEF Before
    <2>3. ASSUME NEW j \in DOMAIN P, NEW k \in DOMAIN Words(P[j])
          PROVE  Words(P[j])[k] <= n /\ \A i \in DOMAIN W : Words(P[j])[k] < W[i]
        <3>1. Words(P[j])[k] <= n
            <4>1. PICK q \in DOMAIN N : Words(P[j])[k] = N[q]
                BY <1>12
            <4>2. N[q] \in 1 .. n
                BY <1>10
            <4> QED
                BY <4>1, <4>2
        <3>2. \A i \in DOMAIN W : Words(P[j])[k] < W[i]
            BY <1>11 DEF Before
        <3> QED
            BY <3>1, <3>2
    <2>4. \A i \in DOMAIN Line' : \A k \in DOMAIN Line'[i] :
              Line'[i][k] <= n /\ \A q \in DOMAIN W : Line'[i][k] < W[q]
        <3> TAKE i \in DOMAIN Line'
        <3>1. CASE \E j \in DOMAIN Line : Line'[i] = Line[j]
            BY <1>10, <2>2, <3>1
        <3>2. CASE \E j \in DOMAIN P : Line'[i] = Words(P[j])
            BY <2>3, <3>2
        <3> QED
            BY <1>13, <3>1, <3>2
    <2>5. \A k \in DOMAIN lastFinal' : lastFinal'[k] <= n /\ \A q \in DOMAIN W : lastFinal'[k] < W[q]
        <3>1. lastFinal' = lastFinal
            BY <1>1
        <3> QED
            BY <1>10, <2>2, <3>1
    <2> QED
        BY <2>1, <2>4, <2>5 DEF LineIsOf
<1>23. Kept(n)'
    <2> SUFFICES ASSUME NEW w \in 1 .. n
                 PROVE  (w \in retracted \/ w \in lost \/ Has(Line, w) \/ InPool(w) \/ WithFlush(w))'
        BY DEF Kept
    <2>1. WithFlush(w) => WithFlush(w)'
        BY <1>1 DEF WithFlush
    <2>2. ASSUME NEW q \in DOMAIN N, N[q] = w PROVE Has(Line, w)' \/ InPool(w)'
        <3>1. CASE \E k \in DOMAIN P : \E i \in DOMAIN P[k] : Words(P[k])[i] = N[q]
            BY <1>13, <2>2, <3>1
        <3>2. CASE \E i \in DOMAIN W : W[i] = N[q]
            BY <1>15, <2>2, <3>2 DEF InPool
        <3> QED
            BY <1>11, <3>1, <3>2
    <2> QED
        BY <1>1, <1>10, <1>13, <2>1, <2>2
<1>24. UpTo(n)'
    <2>1. said' = n /\ n <= said' /\ said' <= heard' /\ pc' = "launch"
        <3>1. heard = said
            BY <1>1 DEF AInv, Idle
        <3> QED
            BY <1>1, <1>9, <3>1
    <2> QED
        BY <1>21, <1>22, <1>23, <2>1 DEF UpTo
<1> QED
    BY <1>13, <1>16, <1>17, <1>18, <1>19, <1>24 DEF AInv

\* A stretch of a text in the order of the speech, and its sentences.
LEMMA Slice ==
    ASSUME NEW H \in Texts, Rising(Words(H)), NEW c \in Nat, NEW e \in Nat, c < e, e <= Len(H)
    PROVE  LET K == SubSeq(H, c + 1, e)
               M == Words(H)
               P == SplitSentences(K)
           IN  /\ K \in Texts /\ K # <<>>
               /\ SubSeq(M, 1, c) \o Words(K) = SubSeq(M, 1, e)
               /\ P \in Seq(Texts)
               /\ \A k \in DOMAIN P : Rising(Words(P[k]))
               /\ \A j, k \in DOMAIN P : j < k => Before(Words(P[j]), Words(P[k]))
               /\ \A k \in DOMAIN P : \A i \in DOMAIN P[k] :
                    \E q \in 1 .. e - c : Words(P[k])[i] = M[c + q]
               /\ \A q \in 1 .. e - c :
                    \E k \in DOMAIN P : \E i \in DOMAIN P[k] : Words(P[k])[i] = M[c + q]
<1> DEFINE K == SubSeq(H, c + 1, e)
           M == Words(H)
           W == Words(K)
           P == SplitSentences(K)
           n == e - c
<1>0. n \in Nat /\ n > 0 /\ c + n = e
    OBVIOUS
<1>1. M \in Seq(Nat) /\ Len(M) = Len(H) /\ Len(H) \in Nat /\ DOMAIN M = 1 .. Len(H)
      /\ (\A i \in 1 .. Len(H) : M[i] = H[i].word /\ M[i] \in Nat) /\ H \in Seq(Tokens)
    BY TextWords DEF Texts
<1>2. K \in Seq(Tokens) /\ Len(K) = n /\ \A i \in 1 .. n : K[i] = H[c + i]
    <2>1. \A i \in c + 1 .. e : H[i] \in Tokens
        BY <1>1
    <2>2. Len(K) = n /\ DOMAIN K = 1 .. n /\ \A i \in 1 .. n : K[i] = H[c + i]
        BY <1>1
    <2>3. \A i \in 1 .. n : c + i \in c + 1 .. e
        BY <1>0
    <2>4. K = [i \in 1 .. n |-> H[c + i]]
        BY <1>0
    <2> QED
        BY <1>0, <2>1, <2>2, <2>3, <2>4
<1>3. K \in Texts /\ K # <<>>
    BY <1>0, <1>2 DEF Texts
<1> HIDE DEF K, M, n
<1>4. /\ W \in Seq(Nat) /\ Len(W) = n /\ DOMAIN W = 1 .. n /\ DOMAIN K = 1 .. n
      /\ \A i \in 1 .. n : W[i] = M[c + i] /\ c + i \in 1 .. Len(H) /\ W[i] \in Nat
    <2>1. /\ W \in Seq(Nat) /\ Len(W) = n /\ DOMAIN W = 1 .. n /\ DOMAIN K = 1 .. n
          /\ \A i \in 1 .. n : W[i] = K[i].word
        BY <1>2, <1>3, TextWords
    <2>2. \A i \in 1 .. n : c + i \in 1 .. Len(H)
        BY <1>0, <1>1
    <2> QED
        BY <1>1, <1>2, <2>1, <2>2
<1> HIDE DEF W
<1>5. Rising(W)
    <2> SUFFICES ASSUME NEW i \in DOMAIN W, NEW j \in DOMAIN W, i < j PROVE W[i] < W[j]
        BY DEF Rising
    <2>1. i \in 1 .. n /\ j \in 1 .. n /\ c + i < c + j
        BY <1>0, <1>4
    <2>2. c + i \in DOMAIN M /\ c + j \in DOMAIN M
        BY <1>1, <1>4, <2>1
    <2>3. M[c + i] < M[c + j]
        BY <2>1, <2>2 DEF Rising, M
    <2> QED
        BY <1>4, <2>1, <2>3
<1> DEFINE cuts == Stops(K) \cup ({Len(K)} \ {0})
           Q == Pieces(K, cuts)
<1>6. cuts \in SUBSET (1 .. Len(K)) /\ Len(K) \in cuts
    BY <1>0, <1>2, <1>4 DEF Stops
<1>7. P = Q
    BY DEF SplitSentences
<1> HIDE DEF cuts, P
<1>8. LastOrZero(cuts) = n
    <2>1. /\ LastOrZero(cuts) \in 0 .. n
          /\ \A p \in cuts : p <= LastOrZero(cuts)
        BY <1>0, <1>2, <1>6, TheLast
    <2> QED
        BY <1>0, <1>2, <1>6, <2>1
<1>9. /\ Q \in Seq(Texts)
      /\ \A k \in DOMAIN Q : Rising(Words(Q[k]))
      /\ \A j, k \in DOMAIN Q : j < k => Before(Words(Q[j]), Words(Q[k]))
      /\ \A k \in DOMAIN Q : \A i \in DOMAIN Q[k] : \E q \in 1 .. LastOrZero(cuts) : Words(Q[k])[i] = Words(K)[q]
      /\ \A q \in 1 .. LastOrZero(cuts) : \E k \in DOMAIN Q : \E i \in DOMAIN Q[k] : Words(Q[k])[i] = Words(K)[q]
      /\ LastOrZero(cuts) \in 0 .. Len(K)
    <2>1. Rising(Words(K))
        BY <1>5 DEF W
    <2> QED
        BY <1>3, <1>6, <2>1, Sentences, Zenon
<1> HIDE DEF Q
<1>10. /\ \A k \in DOMAIN P : \A i \in DOMAIN P[k] : \E q \in 1 .. n : Words(P[k])[i] = M[c + q]
       /\ \A q \in 1 .. n : \E k \in DOMAIN P : \E i \in DOMAIN P[k] : Words(P[k])[i] = M[c + q]
    <2>1. W = Words(K)
        BY DEF W
    <2>2. /\ \A k \in DOMAIN P : \A i \in DOMAIN P[k] : \E q \in 1 .. n : Words(P[k])[i] = W[q]
          /\ \A q \in 1 .. n : \E k \in DOMAIN P : \E i \in DOMAIN P[k] : Words(P[k])[i] = W[q]
        BY <1>7, <1>8, <1>9, <2>1
    <2>3. \A q \in 1 .. n : W[q] = M[c + q]
        BY <1>4
    <2>4. ASSUME NEW k \in DOMAIN P, NEW i \in DOMAIN P[k] PROVE \E q \in 1 .. n : Words(P[k])[i] = M[c + q]
        <3>1. PICK q \in 1 .. n : Words(P[k])[i] = W[q]
            BY <2>2
        <3> QED
            BY <2>3, <3>1
    <2>5. ASSUME NEW q \in 1 .. n PROVE \E k \in DOMAIN P : \E i \in DOMAIN P[k] : Words(P[k])[i] = M[c + q]
        <3>1. PICK k \in DOMAIN P : \E i \in DOMAIN P[k] : Words(P[k])[i] = W[q]
            BY <2>2
        <3>2. W[q] = M[c + q]
            BY <2>3
        <3> QED
            BY <3>1, <3>2
    <2> QED
        BY <2>4, <2>5
<1>11. SubSeq(M, 1, c) \o W = SubSeq(M, 1, e)
    <2> DEFINE A == SubSeq(M, 1, c)
               B == SubSeq(M, 1, e)
    <2>1. A \in Seq(Nat) /\ Len(A) = c /\ \A i \in 1 .. c : A[i] = M[i]
        BY <1>1
    <2>2. B \in Seq(Nat) /\ Len(B) = e /\ \A i \in 1 .. e : B[i] = M[i]
        BY <1>1
    <2> HIDE DEF A, B
    <2> DEFINE J == A \o W
    <2>3. /\ J \in Seq(Nat) /\ Len(J) = c + n
          /\ \A i \in 1 .. c : J[i] = A[i]
          /\ \A i \in 1 .. n : J[c + i] = W[i]
          /\ \A i \in 1 .. c + n : i \in 1 .. c \/ \E j \in 1 .. n : i = c + j
        <3>1. A \in Seq(Nat) /\ W \in Seq(Nat)
            BY <1>4, <2>1
        <3>2. /\ J \in Seq(Nat) /\ Len(J) = Len(A) + Len(W)
              /\ Len(A) \in Nat /\ Len(W) \in Nat
              /\ DOMAIN A = 1 .. Len(A) /\ DOMAIN W = 1 .. Len(W)
              /\ DOMAIN J = 1 .. Len(A) + Len(W)
              /\ \A i \in 1 .. Len(A) : J[i] = A[i]
              /\ \A i \in 1 .. Len(W) : J[Len(A) + i] = W[i]
              /\ \A i \in 1 .. Len(A) + Len(W) : i \in 1 .. Len(A) \/ \E j \in 1 .. Len(W) : i = Len(A) + j
            BY <3>1, WordsJoin, Zenon
        <3> HIDE DEF J
        <3> QED
            BY <1>4, <2>1, <3>2
    <2> HIDE DEF J
    <2>4. ASSUME NEW i \in 1 .. e PROVE J[i] = B[i]
        <3>1. CASE i \in 1 .. c
            BY <2>1, <2>2, <2>3, <3>1
        <3>2. ASSUME NEW j \in 1 .. n, i = c + j PROVE J[i] = B[i]
            BY <1>4, <2>2, <2>3, <3>2
        <3> QED
            BY <1>0, <2>3, <3>1, <3>2
    <2>5. J = B
        BY <1>0, <2>2, <2>3, <2>4, SeqEqual
    <2> QED
        BY <2>5 DEF J, A, B
<1> QED
    BY <1>3, <1>7, <1>9, <1>10, <1>11 DEF K, M, W, P, n

\* The texts a partial is weighed as: the pool, then the partial.
LEMMA Hypothesis ==
    ASSUME Types, AInv, pc = "partial", NEW b \in Nat, UpTo(b)
    PROVE  LET H == extractor.pool \o result.text
               M == Words(H)
               c == Len(Committed)
           IN  /\ b = said /\ heard - b \in Nat
               /\ H \in Texts /\ M = Pool \o Run(b, heard - b) /\ Rising(M)
               /\ Len(H) = Len(Pool) + (heard - b)
               /\ c \in 0 .. Len(H) /\ IsPrefix(Committed, M)
               /\ Committed = SubSeq(M, 1, c)
               /\ \A w \in Nat : Passed(b, w) =>
                    /\ w <= b + (Len(H) - Len(Pool))
                    /\ \A i \in 1 .. Len(H) - c : w < M[c + i]
               /\ \A i \in Stops(H) : i > Len(Pool) /\ setup.stops # "never"
<1> DEFINE H == extractor.pool \o result.text
           M == Words(H)
           c == Len(Committed)
           p == Len(Pool)
           m == heard - b
<1>1. /\ b = said /\ said <= heard /\ PoolIsOf(b) /\ CommittedIsOf(b)
    BY DEF UpTo
<1>2. /\ said \in Nat /\ heard \in Nat /\ extractor.pool \in Texts /\ result.text \in Texts
      /\ Pool \in Seq(Nat) /\ p \in Nat /\ DOMAIN Pool = 1 .. p /\ p = Len(extractor.pool)
      /\ Committed \in Seq(Nat) /\ c \in Nat
    BY StateTypes
<1>3. m \in Nat
    BY <1>1, <1>2
<1>4. /\ Words(result.text) = Run(b, m)
      /\ setup.stops = "never" => \A i \in DOMAIN result.text : ~result.text[i].stop
      /\ \A i \in DOMAIN extractor.pool : ~extractor.pool[i].stop
    BY <1>1 DEF AInv, Calm
<1> HIDE DEF m
<1>5. b \in Int /\ Len(Run(b, m)) = m /\ \A i \in 1 .. m : Run(b, m)[i] = b + i
    <2>1. b \in Int
        OBVIOUS
    <2> QED
        BY <1>3, <2>1, RunOf
<1>6. /\ H \in Texts /\ M = Pool \o Run(b, m) /\ Len(H) = p + m
      /\ Len(result.text) = m /\ DOMAIN result.text = 1 .. m /\ DOMAIN extractor.pool = 1 .. p
      /\ DOMAIN H = 1 .. p + m
      /\ \A i \in 1 .. p : H[i] = extractor.pool[i]
      /\ \A i \in 1 .. m : H[p + i] = result.text[i]
    <2>1. Len(result.text) = m /\ DOMAIN result.text = 1 .. m /\ DOMAIN extractor.pool = 1 .. p
        BY <1>2, <1>4, <1>5, TextWords
    <2>2. /\ H \in Texts /\ Len(H) = Len(extractor.pool) + Len(result.text)
          /\ M = Words(extractor.pool) \o Words(result.text)
          /\ \A i \in 1 .. Len(extractor.pool) : H[i] = extractor.pool[i]
          /\ \A i \in 1 .. Len(result.text) : H[Len(extractor.pool) + i] = result.text[i]
        BY <1>2, TextConcat
    <2>3. DOMAIN H = 1 .. Len(H)
        BY <2>2, TextWords
    <2> HIDE DEF H, M
    <2> QED
        BY <1>2, <1>4, <2>1, <2>2, <2>3 DEF Pool
<1> HIDE DEF H, M, p, c
<1>7. /\ Rising(Pool) /\ \A k \in DOMAIN Pool : Pool[k] \in 1 .. b
    BY <1>1 DEF PoolIsOf
<1> DEFINE J == Pool \o Run(b, m)
<1>8. /\ J \in Seq(Nat) /\ Len(J) = p + m /\ DOMAIN J = 1 .. p + m /\ Rising(J)
      /\ \A i \in 1 .. p : J[i] = Pool[i]
      /\ \A i \in 1 .. m : J[p + i] = b + i
      /\ \A i \in 1 .. p + m : i \in 1 .. p \/ \E j \in 1 .. m : i = p + j
    <2>1. Pool \in Seq(Nat) /\ m \in Nat /\ Rising(Pool) /\ \A k \in DOMAIN Pool : Pool[k] \in 1 .. b
        BY <1>2, <1>3, <1>7
    <2>2. /\ J \in Seq(Nat) /\ Len(J) = Len(Pool) + m /\ DOMAIN J = 1 .. Len(Pool) + m
          /\ Rising(J)
          /\ \A i \in 1 .. Len(Pool) : J[i] = Pool[i]
          /\ \A i \in 1 .. m : J[Len(Pool) + i] = b + i
          /\ \A i \in 1 .. Len(Pool) + m : i \in 1 .. Len(Pool) \/ \E j \in 1 .. m : i = Len(Pool) + j
          /\ \A i \in DOMAIN J : J[i] \in 1 .. b + m
          /\ \A w \in 1 .. b + m : w > b => \E i \in DOMAIN J : J[i] = w
        BY <2>1, RunJoins, Zenon
    <2> HIDE DEF J
    <2> QED
        BY <2>2 DEF p
<1> HIDE DEF J
<1>9. M = J
    BY <1>6 DEF J
<1>10. c \in 0 .. Len(H) /\ IsPrefix(Committed, M) /\ Committed = SubSeq(M, 1, c)
    <2>1. CASE Committed = <<>>
        <3>1. c = 0
            BY <2>1 DEF c
        <3>2. SubSeq(M, 1, 0) = <<>>
            BY <1>8, <1>9
        <3>3. IsPrefix(<<>>, M)
            BY <1>8, <1>9 DEF IsPrefix
        <3> QED
            BY <1>2, <1>3, <1>6, <2>1, <3>1, <3>2, <3>3
    <2>2. CASE Committed # <<>>
        <3> DEFINE q == c - p
        <3>1. p < c /\ q <= m /\ Committed = Pool \o Run(b, q)
            BY <1>1, <2>2 DEF CommittedIsOf, c, p, m
        <3>2. q \in 0 .. m /\ p + q = c
            BY <1>2, <1>3, <3>1
        <3> HIDE DEF q
        <3>3. /\ p + q \in 0 .. Len(J)
              /\ SubSeq(J, 1, p + q) = Pool \o Run(b, q)
              /\ IsPrefix(Pool \o Run(b, q), J)
            <4>1. Pool \in Seq(Nat) /\ m \in Nat
                BY <1>2, <1>3
            <4>2. /\ Len(Pool) + q \in 0 .. Len(Pool \o Run(b, m))
                  /\ SubSeq(Pool \o Run(b, m), 1, Len(Pool) + q) = Pool \o Run(b, q)
                  /\ IsPrefix(Pool \o Run(b, q), Pool \o Run(b, m))
                BY <3>2, <4>1, RunPrefix, Zenon
            <4> QED
                BY <4>2 DEF J, p
        <3> QED
            BY <1>6, <1>8, <1>9, <3>1, <3>2, <3>3
    <2> QED
        BY <2>1, <2>2
<1>11. ASSUME NEW w \in Nat, Passed(b, w)
       PROVE  w <= b + (Len(H) - p) /\ \A i \in 1 .. Len(H) - c : w < M[c + i]
    <2>1. CASE Committed = <<>>
        <3>1. c = 0 /\ w <= b /\ \A k \in DOMAIN Pool : w < Pool[k]
            BY <1>11, <2>1 DEF Passed, c
        <3>2. \A i \in 1 .. p : w < M[i]
            BY <1>2, <1>8, <1>9, <3>1
        <3>3. \A j \in 1 .. m : w < M[p + j]
            BY <1>8, <1>9, <3>1
        <3>4. \A i \in 1 .. p + m : w < M[i]
            BY <1>8, <3>2, <3>3
        <3>5. ASSUME NEW i \in 1 .. Len(H) - c PROVE w < M[c + i]
            <4>1. c + i = i /\ i \in 1 .. p + m
                BY <1>2, <1>3, <1>6, <3>1
            <4> QED
                BY <3>4, <4>1
        <3>6. w <= b + (Len(H) - p)
            <4>1. Len(H) - p = m /\ m \in Nat
                BY <1>2, <1>3, <1>6
            <4> QED
                BY <3>1, <4>1
        <3> QED
            BY <3>5, <3>6
    <2>2. CASE Committed # <<>>
        <3>1. w <= b + (c - p) /\ p < c /\ c - p <= m
            BY <1>1, <1>11, <2>2 DEF Passed, CommittedIsOf, c, p, m
        <3>2. ASSUME NEW i \in 1 .. Len(H) - c PROVE w < M[c + i]
            <4> DEFINE j == (c - p) + i
            <4>1. Len(H) - c = p + m - c /\ i \in Int /\ i >= 1 /\ i <= Len(H) - c
                BY <1>2, <1>3, <1>6
            <4>2. j \in 1 .. m /\ p + j = c + i /\ j > c - p /\ j \in Int
                <5>1. c \in Int /\ p \in Int /\ m \in Int
                    BY <1>2, <1>3
                <5>2. j \in Int /\ j > c - p /\ p + j = c + i
                    BY <4>1, <5>1
                <5>3. i <= p + m - c /\ p < c
                    BY <3>1, <4>1
                <5> QED
                    BY <4>1, <5>1, <5>2, <5>3
            <4> HIDE DEF j
            <4>3. M[p + j] = b + j
                BY <1>8, <1>9, <4>2
            <4>4. w < b + j
                BY <1>2, <3>1, <4>2
            <4> QED
                BY <4>2, <4>3, <4>4
        <3>3. w <= b + (Len(H) - p)
            <4>1. Len(H) - p = m /\ m \in Nat /\ c \in Nat /\ p \in Nat
                BY <1>2, <1>3, <1>6
            <4> QED
                BY <3>1, <4>1
        <3> QED
            BY <3>2, <3>3
    <2> QED
        BY <2>1, <2>2
<1>12. ASSUME NEW i \in Stops(H) PROVE i > p /\ setup.stops # "never"
    <2>1. i \in 1 .. p + m /\ H[i].stop
        BY <1>6 DEF Stops
    <2>2. i \notin 1 .. p
        BY <1>4, <1>6, <2>1
    <2>3. i - p \in 1 .. m /\ p + (i - p) = i
        BY <1>2, <1>3, <2>1, <2>2
    <2>4. H[i] = result.text[i - p]
        BY <1>6, <2>3
    <2>5. i > p
        BY <1>2, <1>3, <2>1, <2>2
    <2>6. result.text[i - p].stop /\ i - p \in DOMAIN result.text
        BY <1>6, <2>1, <2>3, <2>4
    <2>7. setup.stops # "never"
        BY <1>4, <2>6
    <2> QED
        BY <2>5, <2>7
<1>13. Rising(M) /\ Len(H) = p + (heard - b) /\ M = Pool \o Run(b, heard - b)
    BY <1>6, <1>8, <1>9 DEF m
<1> QED
    BY <1>1, <1>3, <1>6, <1>10, <1>11, <1>12, <1>13 DEF H, M, c, p, m

\* The text a partial is weighed as.
Hypothetical(text) == text = extractor.pool \o result.text

\* A partial either leaves what is committed, or commits the words up to a
\* sentence's end past them.
LEMMA Outcomes ==
    ASSUME Types, AInv, CommitEarly, NEW b \in Nat, UpTo(b), NEW H, Hypothetical(H)
    PROVE  /\ committer' \in [committed : Seq(Nat), candidate : Texts, seen : Nat, diverged : BOOLEAN]
           /\ ~committer'.diverged
           /\ \/ committer'.committed = Committed /\ agenda' = <<>>
              \/ \E end \in Nat :
                    LET K == SubSeq(H, Len(Committed) + 1, end) IN
                    /\ Len(Committed) < end /\ end \in Stops(H) /\ end <= Len(H)
                    /\ committer'.committed = Committed \o Words(K)
                    /\ agenda' = Agenda(SplitSentences(K), "early")
<1> DEFINE c == Len(Committed)
           end == LastCompleteSentenceEnd(H, c)
           K == SubSeq(H, c + 1, end)
           outcome == CommitOnPartial(committer, H)
           CT == [committed : Seq(Nat), candidate : Texts, seen : Nat, diverged : BOOLEAN]
<1>1. pc = "partial" /\ committer' = outcome.committer /\ agenda' = Agenda(outcome.sentences, "early")
    BY DEF CommitEarly, Hypothetical
<1>2. H \in Texts /\ IsPrefix(Committed, Words(H))
    BY <1>1, Hypothesis DEF Hypothetical
<1>3. committer \in CT /\ ~committer.diverged /\ Committed \in Seq(Nat) /\ c \in Nat /\ Len(H) \in Nat /\ DOMAIN H = 1 .. Len(H)
    BY <1>2, StateTypes, TextWords DEF Types, AInv, Calm
<1>4. end \in 0 .. Len(H) /\ end \in Nat /\ (end # 0 => end \in Stops(H) /\ c < end)
    <2> DEFINE S == {i \in Stops(H) : i > c /\ Len(H) - i >= MinFollowing}
    <2>1. S \in SUBSET (1 .. Len(H)) /\ end = LastOrZero(S)
        BY <1>3 DEF Stops, LastCompleteSentenceEnd
    <2>2. \A i \in S : i \in Stops(H) /\ i > c /\ i \in Nat
        BY <2>1
    <2> HIDE DEF end, S
    <2>3. end \in 0 .. Len(H) /\ (S = {} => end = 0) /\ (S # {} => end \in S)
        BY <1>3, <2>1, TheLast
    <2>4. end \in Nat
        BY <1>3, <2>3
    <2>5. end # 0 => end \in S
        BY <2>3
    <2>6. end # 0 => end \in Stops(H) /\ c < end
        BY <1>3, <2>2, <2>4, <2>5
    <2> QED
        BY <2>3, <2>4, <2>6
<1> HIDE DEF end, c
<1>5. K \in Texts
    <2> DEFINE l == Len(H)
    <2>1. H \in Seq(Tokens) /\ c \in Nat /\ l \in Nat /\ end \in Nat /\ end <= l
        BY <1>2, <1>3, <1>4 DEF Texts
    <2>2. \A i \in 1 .. l : H[i] \in Tokens
        BY <2>1
    <2> HIDE DEF l
    <2>3. \A i \in c + 1 .. end : i \in 1 .. l
        BY <2>1
    <2>4. \A i \in c + 1 .. end : H[i] \in Tokens
        BY <2>2, <2>3
    <2>5. K \in Seq(Tokens)
        BY <2>1, <2>4
    <2> QED
        BY <2>5 DEF Texts
<1>6. \/ outcome = Held(committer)
      \/ outcome = Waits(committer, K, 1)
      \/ outcome = Waits(committer, K, committer.seen + 1)
      \/ end # 0 /\ outcome = Commits(committer, K)
    <2>1. StartsWith(H, committer.committed)
        BY <1>2 DEF StartsWith, Committed
    <2> QED
        BY <1>3, <2>1 DEF CommitOnPartial, end, c, Committed
<1> HIDE DEF K
<1>7. ASSUME NEW C \in CT, C.committed = Committed, ~C.diverged, committer' = C, outcome.sentences = <<>>
      PROVE  committer' \in CT /\ ~committer'.diverged /\ committer'.committed = Committed /\ agenda' = <<>>
    <2>1. Agenda(<<>>, "early") = <<>>
        BY DEF Agenda
    <2> QED
        BY <1>1, <1>7, <2>1
<1>8. CASE outcome = Held(committer)
    <2> DEFINE C == [committer EXCEPT !.candidate = <<>>]
    <2>1. C \in CT /\ C.committed = Committed /\ ~C.diverged
        <3>1. <<>> \in Texts
            BY DEF Texts
        <3> HIDE DEF Texts
        <3> QED
            BY <1>3, <3>1 DEF Committed
    <2>2. committer' = C /\ outcome.sentences = <<>>
        BY <1>1, <1>8 DEF Held
    <2> HIDE DEF C, outcome
    <2> QED
        BY <1>7, <2>1, <2>2
<1>9. ASSUME NEW s \in Nat, outcome = Waits(committer, K, s)
      PROVE  committer' \in CT /\ ~committer'.diverged /\ committer'.committed = Committed /\ agenda' = <<>>
    <2> DEFINE C == [committer EXCEPT !.candidate = K, !.seen = s]
    <2>1. C \in CT /\ C.committed = Committed /\ ~C.diverged
        BY <1>3, <1>5 DEF Committed
    <2>2. committer' = C /\ outcome.sentences = <<>>
        BY <1>1, <1>9 DEF Waits
    <2> HIDE DEF C, outcome
    <2> QED
        BY <1>7, <2>1, <2>2
<1>10. CASE end # 0 /\ outcome = Commits(committer, K)
    <2> DEFINE C == [committer EXCEPT !.committed = @ \o Words(K), !.candidate = <<>>, !.seen = 0]
               all == Committed \o Words(K)
    <2>1. all \in Seq(Nat)
        <3>1. Words(K) \in Seq(Nat)
            BY <1>5, TextWords
        <3> QED
            BY <1>3, <3>1
    <2>2. C = [committer EXCEPT !.committed = all, !.candidate = <<>>, !.seen = 0]
        BY <1>3 DEF Committed
    <2> HIDE DEF all, C
    <2>3. C \in CT /\ C.committed = all /\ ~C.diverged
        <3>1. <<>> \in Texts
            BY DEF Texts
        <3> HIDE DEF Texts
        <3> QED
            BY <1>3, <2>1, <2>2, <3>1
    <2>4. committer' = C /\ outcome.sentences = SplitSentences(K)
        BY <1>1, <1>10 DEF Commits, C
    <2>5. end \in Nat /\ c < end /\ end \in Stops(H) /\ end <= Len(H)
        <3>1. end # 0 /\ Len(H) \in Nat
            BY <1>3, <1>10
        <3> QED
            BY <1>4, <3>1
    <2> QED
        BY <1>1, <2>3, <2>4, <2>5 DEF K, all, c
<1> QED
    <2>1. committer.seen + 1 \in Nat /\ 1 \in Nat
        BY <1>3
    <2> QED
        BY <1>6, <1>8, <1>9, <1>10, <2>1

LEMMA CommitEarlyKeeps ==
    ASSUME Steady, Types, AInv, CommitEarly
    PROVE  Types' /\ AInv'
<1>1. /\ pc = "partial" /\ pc' = "collect" /\ result' = NoResult
      /\ UNCHANGED <<setup, ends, retracted, said, heard, partials, extractor, lastFinal,
                     flushes, finished, captions, lost, strayed>>
    BY DEF CommitEarly, speech
<1>2. PICK b \in Nat : UpTo(b)
    BY DEF AInv
<1>3. PICK H : Hypothetical(H)
    BY DEF Hypothetical
<1>4. PICK c : c = Len(Committed)
    OBVIOUS
<1>5. PICK p : p = Len(Pool)
    OBVIOUS
<1>6. PICK M : M = Words(H)
    OBVIOUS
<1>7. /\ said \in Nat /\ heard \in Nat /\ c \in Nat /\ p \in Nat
      /\ Pool \in Seq(Nat) /\ Committed \in Seq(Nat) /\ lastFinal \in Seq(Nat)
      /\ DOMAIN Committed = 1 .. c
      /\ Line \in Seq(Seq(Nat))
      /\ \A i \in DOMAIN Line : \A k \in DOMAIN Line[i] : Line[i][k] \in Nat
    <2>1. Line \in Seq(Seq(Nat))
        BY LineTypes
    <2>2. \A i \in DOMAIN Line : Line[i] \in Seq(Nat)
        BY <2>1
    <2> QED
        BY <1>4, <1>5, <2>1, <2>2, StateTypes
<1>8. /\ b = said /\ heard - b \in Nat
      /\ H \in Texts /\ M = Pool \o Run(b, heard - b) /\ Rising(M)
      /\ Len(H) = p + (heard - b)
      /\ c \in 0 .. Len(H) /\ Committed = SubSeq(M, 1, c)
      /\ \A w \in Nat : Passed(b, w) =>
            w <= b + (Len(H) - p) /\ \A i \in 1 .. Len(H) - c : w < M[c + i]
      /\ \A i \in Stops(H) : i > p /\ setup.stops # "never"
    BY <1>1, <1>2, <1>3, <1>4, <1>5, <1>6, Hypothesis DEF Hypothetical
<1>9. /\ agenda = <<>> /\ partials > 0 /\ ~finished
      /\ setup.partials /\ (setup.retracts => Committed = <<>>)
      /\ \A i \in DOMAIN extractor.pool : ~extractor.pool[i].stop
      /\ PoolIsOf(b) /\ CommittedIsOf(b) /\ LineIsOf(b) /\ Kept(b) /\ said <= heard
    <2>1. agenda = <<>> /\ partials > 0 /\ ~finished
        BY <1>1 DEF AInv, Idle
    <2>2. setup.partials
        BY <2>1 DEF AInv, Calm
    <2> QED
        BY <1>1, <1>2, <2>1, <2>2 DEF AInv, Calm, UpTo
<1>10. /\ committer' \in [committed : Seq(Nat), candidate : Texts, seen : Nat, diverged : BOOLEAN]
       /\ ~committer'.diverged
       /\ \/ committer'.committed = Committed /\ agenda' = <<>>
          \/ \E end \in Nat :
                LET K == SubSeq(H, Len(Committed) + 1, end) IN
                /\ Len(Committed) < end /\ end \in Stops(H) /\ end <= Len(H)
                /\ committer'.committed = Committed \o Words(K)
                /\ agenda' = Agenda(SplitSentences(K), "early")
    BY <1>2, <1>3, Outcomes
<1>11. NoResult \in [text : Texts, ended : BOOLEAN]
    BY DEF NoResult, Texts
<1>12. Flushing'
    BY <1>1, CancelledStay DEF AInv
<1>13. Pool' = Pool /\ Committed' = committer'.committed
    BY <1>1 DEF Pool, Committed
<1>14. PoolIsOf(b)'
    BY <1>1, <1>9, <1>13 DEF PoolIsOf
\* What is left to show, once the sentences are handed in.
<1>15. ASSUME agenda' \in Seq([text : Texts, kind : Handings]), LineInOrder',
              setup.retracts => Committed' = <<>>,
              \A w : Has(Line, w) => Has(Line, w)',
              CommittedIsOf(b)', LineIsOf(b)'
       PROVE  Types' /\ AInv'
    <2>1. Types'
        BY <1>1, <1>10, <1>11, <1>15 DEF Types
    <2>2. Idle'
        BY <1>1, <1>9 DEF Idle
    <2>3. Calm'
        BY <1>1, <1>9, <1>10, <1>15 DEF Calm
    <2>4. Kept(b)'
        <3> SUFFICES ASSUME NEW w \in 1 .. b
                     PROVE  (w \in retracted \/ w \in lost \/ Has(Line, w) \/ InPool(w) \/ WithFlush(w))'
            BY DEF Kept
        <3>1. (WithFlush(w) => WithFlush(w)') /\ (InPool(w) => InPool(w)')
            BY <1>1, <1>13 DEF WithFlush, InPool
        <3>2. w \in retracted \/ w \in lost \/ Has(Line, w) \/ InPool(w) \/ WithFlush(w)
            BY <1>9 DEF Kept
        <3> QED
            BY <1>1, <1>15, <3>1, <3>2
    <2>5. UpTo(b)'
        BY <1>1, <1>8, <1>9, <1>14, <1>15, <2>4 DEF UpTo
    <2> QED
        BY <1>12, <1>15, <2>1, <2>2, <2>3, <2>5 DEF AInv
<1>16. CASE committer'.committed = Committed /\ agenda' = <<>>
    <2>1. Line' = Line /\ Committed' = Committed /\ agenda' = agenda
        BY <1>1, <1>9, <1>13, <1>16 DEF Line
    <2>2. LineInOrder'
        BY <1>1, <2>1 DEF AInv, LineInOrder
    <2>3. CommittedIsOf(b)' /\ LineIsOf(b)'
        BY <1>1, <1>9, <1>13, <2>1 DEF CommittedIsOf, LineIsOf, Passed
    <2>4. \A w : Has(Line, w) => Has(Line, w)'
        BY <2>1
    <2>5. agenda' \in Seq([text : Texts, kind : Handings])
        BY <2>1 DEF Types
    <2> QED
        BY <1>9, <1>15, <2>1, <2>2, <2>3, <2>4, <2>5
<1>17. ASSUME NEW end \in Nat, NEW K, K = SubSeq(H, c + 1, end),
              c < end, end \in Stops(H), end <= Len(H),
              committer'.committed = Committed \o Words(K),
              agenda' = Agenda(SplitSentences(K), "early")
       PROVE  Types' /\ AInv'
    <2>1. PICK P : P = SplitSentences(K)
        OBVIOUS
    <2>2. end > p /\ setup.stops # "never"
        BY <1>8, <1>17
    <2>3. /\ SubSeq(M, 1, c) \o Words(K) = SubSeq(M, 1, end)
          /\ P \in Seq(Texts)
          /\ \A k \in DOMAIN P : Rising(Words(P[k]))
          /\ \A j, k \in DOMAIN P : j < k => Before(Words(P[j]), Words(P[k]))
          /\ \A k \in DOMAIN P : \A i \in DOMAIN P[k] : \E q \in 1 .. end - c : Words(P[k])[i] = M[c + q]
          /\ \A q \in 1 .. end - c : \E k \in DOMAIN P : \E i \in DOMAIN P[k] : Words(P[k])[i] = M[c + q]
        <3>1. H \in Texts /\ Rising(Words(H))
            BY <1>6, <1>8
        <3> DEFINE S == SubSeq(H, c + 1, end)
                   N == Words(H)
                   Q == SplitSentences(S)
        <3>2. /\ S \in Texts /\ S # <<>>
              /\ SubSeq(N, 1, c) \o Words(S) = SubSeq(N, 1, end)
              /\ Q \in Seq(Texts)
              /\ \A k \in DOMAIN Q : Rising(Words(Q[k]))
              /\ \A j, k \in DOMAIN Q : j < k => Before(Words(Q[j]), Words(Q[k]))
              /\ \A k \in DOMAIN Q : \A i \in DOMAIN Q[k] : \E q \in 1 .. end - c : Words(Q[k])[i] = N[c + q]
              /\ \A q \in 1 .. end - c : \E k \in DOMAIN Q : \E i \in DOMAIN Q[k] : Words(Q[k])[i] = N[c + q]
            BY <1>7, <1>17, <3>1, Slice, Zenon
        <3>3. K = S /\ M = N /\ P = Q
            BY <1>6, <1>17, <2>1
        <3> HIDE DEF S, N, Q
        <3> QED
            BY <3>2, <3>3
    <2>4. PICK q : q = end - p
        OBVIOUS
    <2>5. q \in Nat /\ q > 0 /\ q <= heard - b /\ p + q = end /\ q \in 0 .. heard - b
        <3>1. PICK n \in Nat : n = heard - b
            BY <1>8
        <3>2. end <= p + n /\ p < end
            BY <1>8, <1>17, <2>2, <3>1
        <3>3. q \in Nat /\ q > 0 /\ q <= n /\ p + q = end /\ q \in 0 .. n
            BY <1>7, <2>4, <3>2
        <3> QED
            BY <3>1, <3>3
    <2>6. Committed' = Pool \o Run(b, q)
        <3>1. Committed' = SubSeq(M, 1, end)
            BY <1>8, <1>13, <1>17, <2>3
        <3> DEFINE n == heard - b
        <3>2. n \in Nat /\ q \in 0 .. n
            BY <1>8, <2>5
        <3> HIDE DEF n
        <3>3. /\ Len(Pool) + q \in 0 .. Len(Pool \o Run(b, n))
              /\ SubSeq(Pool \o Run(b, n), 1, Len(Pool) + q) = Pool \o Run(b, q)
              /\ IsPrefix(Pool \o Run(b, q), Pool \o Run(b, n))
            <4>1. Pool \in Seq(Nat)
                BY <1>7
            <4> QED
                BY <3>2, <4>1, RunPrefix, Zenon
        <3> QED
            BY <1>5, <1>8, <2>5, <3>1, <3>3 DEF n
    <2>7. /\ DOMAIN Committed' = 1 .. end /\ Len(Committed') = end /\ Committed' # <<>>
          /\ \A i \in 1 .. c : Committed'[i] = Committed[i]
          /\ \A i \in 1 .. end - c : Committed'[c + i] = M[c + i]
        <3>1. PICK l \in Nat : M \in Seq(Nat) /\ Len(M) = l /\ end <= l /\ c <= l
            <4>1. M \in Seq(Nat) /\ Len(M) = Len(H) /\ Len(H) \in Nat
                BY <1>6, <1>8, TextWords
            <4>2. c <= Len(H)
                BY <1>7, <1>8, <4>1
            <4> QED
                BY <1>17, <4>1, <4>2
        <3>2. Committed' = SubSeq(M, 1, end) /\ Committed = SubSeq(M, 1, c)
            BY <1>8, <1>13, <1>17, <2>3
        <3>3. Len(Committed') = end /\ DOMAIN Committed' = 1 .. end /\ \A i \in 1 .. end : Committed'[i] = M[i]
            <4>1. PICK C : C = SubSeq(M, 1, end)
                OBVIOUS
            <4>2. Len(C) = end /\ DOMAIN C = 1 .. end /\ \A i \in 1 .. end : C[i] = M[i]
                BY <3>1, <4>1
            <4> QED
                BY <3>2, <4>1, <4>2
        <3>4. \A i \in 1 .. c : Committed[i] = M[i]
            <4>1. PICK C : C = SubSeq(M, 1, c)
                OBVIOUS
            <4>2. \A i \in 1 .. c : C[i] = M[i]
                BY <1>7, <3>1, <4>1
            <4> QED
                BY <3>2, <4>1, <4>2
        <3>5. \A i \in 1 .. c : i \in 1 .. end
            BY <1>7, <1>17
        <3>6. \A i \in 1 .. end - c : c + i \in 1 .. end
            BY <1>7, <1>17
        <3>7. Committed' # <<>>
            BY <1>7, <1>17, <3>3
        <3> QED
            BY <3>3, <3>4, <3>5, <3>6, <3>7
    <2>8. \A i \in 1 .. end - c : i \in 1 .. Len(H) - c
        BY <1>7, <1>8, <1>17
    <2>9. ASSUME NEW w \in Nat, Passed(b, w), NEW k \in DOMAIN P, NEW i \in DOMAIN P[k]
          PROVE  w < Words(P[k])[i]
        <3>1. PICK j \in 1 .. end - c : Words(P[k])[i] = M[c + j]
            BY <2>3
        <3> QED
            BY <1>8, <2>8, <2>9, <3>1
    <2>10. /\ \A i \in DOMAIN Line, k \in DOMAIN P : Before(Line[i], Words(P[k]))
           /\ \A k \in DOMAIN P : Before(lastFinal, Words(P[k]))
        <3>1. \A k \in DOMAIN P : DOMAIN Words(P[k]) = DOMAIN P[k]
            BY DEF Words
        <3>2. \A k \in DOMAIN lastFinal : lastFinal[k] \in Nat
            BY <1>7
        <3> QED
            BY <1>7, <1>9, <2>9, <3>1, <3>2 DEF LineIsOf, Before
    <2>11. /\ agenda' \in Seq([text : Texts, kind : Handings])
           /\ LineInOrder'
           /\ \A w : Has(Line, w) => Has(Line, w)'
           /\ \A k \in DOMAIN P : \A i \in DOMAIN P[k] : Has(Line, Words(P[k])[i])'
           /\ \A i \in DOMAIN Line' : \/ \E j \in DOMAIN Line : Line'[i] = Line[j]
                                      \/ \E k \in DOMAIN P : Line'[i] = Words(P[k])
        <3>1. "early" \in Handings /\ agenda' = Agenda(P, "early")
            BY <1>17, <2>1 DEF Handings
        <3> QED
            BY <1>1, <1>9, <2>3, <2>10, <3>1, HandIn
    <2>12. CommittedIsOf(b)'
        <3>1. \A k \in DOMAIN Committed' : Has(Line', Committed'[k])
            <4> TAKE k \in DOMAIN Committed'
            <4>1. CASE k \in 1 .. c
                <5>1. Committed # <<>> /\ k \in DOMAIN Committed /\ Committed'[k] = Committed[k]
                    BY <1>7, <2>7, <4>1
                <5>2. PICK w : w = Committed[k]
                    OBVIOUS
                <5>3. Has(Line, w)
                    BY <1>9, <5>1, <5>2 DEF CommittedIsOf
                <5>4. Has(Line', w)
                    BY <2>11, <5>3
                <5> QED
                    BY <5>1, <5>2, <5>4
            <4>2. CASE k \notin 1 .. c
                <5>1. PICK j \in 1 .. end - c : k = c + j
                    <6>1. k - c \in 1 .. end - c /\ k = c + (k - c)
                        BY <1>7, <2>7, <4>2
                    <6> QED
                        BY <6>1
                <5>2. Committed'[k] = M[c + j]
                    BY <2>7, <5>1
                <5>3. PICK i \in DOMAIN P : \E x \in DOMAIN P[i] : Words(P[i])[x] = M[c + j]
                    BY <2>3
                <5> QED
                    BY <2>11, <5>2, <5>3
            <4> QED
                BY <4>1, <4>2
        <3>2. Len(Pool') < Len(Committed') /\ Len(Committed') - Len(Pool') = q /\ q <= heard' - b
            BY <1>1, <1>5, <1>7, <1>13, <1>17, <2>2, <2>4, <2>5, <2>7
        <3> QED
            BY <1>13, <2>6, <3>1, <3>2 DEF CommittedIsOf
    <2>13. LineIsOf(b)'
        <3>1. ASSUME NEW w PROVE Passed(b, w)' <=> w <= b + q
            BY <1>5, <1>13, <2>4, <2>7 DEF Passed
        <3>2. ASSUME NEW w \in Nat, Passed(b, w) PROVE w <= b + q
            <4>1. CASE Committed = <<>>
                BY <2>5, <3>2, <4>1 DEF Passed
            <4>2. CASE Committed # <<>>
                <5>1. w <= b + (c - p)
                    BY <1>4, <1>5, <3>2, <4>2 DEF Passed
                <5>2. c - p < q
                    BY <1>7, <1>17, <2>4
                <5> QED
                    BY <1>7, <2>5, <5>1, <5>2
            <4> QED
                BY <4>1, <4>2
        <3>3. ASSUME NEW k \in DOMAIN P, NEW i \in DOMAIN Words(P[k]) PROVE Words(P[k])[i] <= b + q
            <4>1. i \in DOMAIN P[k]
                BY DEF Words
            <4>2. PICK j \in 1 .. end - c : Words(P[k])[i] = M[c + j]
                BY <2>3, <4>1
            <4>3. c + j \in DOMAIN Committed' /\ M[c + j] = Committed'[c + j]
                <5>1. c + j \in 1 .. end
                    BY <1>7, <1>17
                <5> QED
                    BY <2>7, <5>1
            <4>4. PICK C : C = Pool \o Run(b, q)
                OBVIOUS
            <4>5. \A x \in DOMAIN C : C[x] \in 1 .. b + q
                <5>1. Rising(Pool) /\ \A x \in DOMAIN Pool : Pool[x] \in 1 .. b
                    BY <1>9 DEF PoolIsOf
                <5> DEFINE J == Pool \o Run(b, q)
                <5>2. /\ J \in Seq(Nat) /\ Len(J) = Len(Pool) + q /\ DOMAIN J = 1 .. Len(Pool) + q
                      /\ Rising(J)
                      /\ \A x \in 1 .. Len(Pool) : J[x] = Pool[x]
                      /\ \A x \in 1 .. q : J[Len(Pool) + x] = b + x
                      /\ \A x \in 1 .. Len(Pool) + q : x \in 1 .. Len(Pool) \/ \E y \in 1 .. q : x = Len(Pool) + y
                      /\ \A x \in DOMAIN J : J[x] \in 1 .. b + q
                      /\ \A w \in 1 .. b + q : w > b => \E x \in DOMAIN J : J[x] = w
                    <6>1. Pool \in Seq(Nat) /\ q \in Nat
                        BY <1>7, <2>5
                    <6> QED
                        BY <5>1, <6>1, RunJoins, Zenon
                <5> HIDE DEF J
                <5>3. C = J
                    BY <4>4 DEF J
                <5> QED
                    BY <5>2, <5>3
            <4>6. M[c + j] \in 1 .. b + q
                BY <2>6, <4>3, <4>4, <4>5
            <4> QED
                BY <2>5, <4>2, <4>6
        <3>4. \A i \in DOMAIN Line' : \A k \in DOMAIN Line'[i] : Line'[i][k] <= b + q
            <4> TAKE i \in DOMAIN Line'
            <4>1. CASE \E j \in DOMAIN Line : Line'[i] = Line[j]
                BY <1>7, <1>9, <3>2, <4>1 DEF LineIsOf
            <4>2. CASE \E k \in DOMAIN P : Line'[i] = Words(P[k])
                BY <3>3, <4>2
            <4> QED
                BY <2>11, <4>1, <4>2
        <3>5. \A k \in DOMAIN lastFinal' : lastFinal'[k] <= b + q
            <4>1. \A k \in DOMAIN lastFinal : lastFinal[k] \in Nat /\ Passed(b, lastFinal[k])
                BY <1>7, <1>9 DEF LineIsOf
            <4> QED
                BY <1>1, <3>2, <4>1
        <3> QED
            BY <3>1, <3>4, <3>5 DEF LineIsOf
    <2>14. setup.retracts => Committed' = <<>>
        BY <2>2 DEF Steady
    <2> QED
        BY <1>15, <2>11, <2>12, <2>13, <2>14
<1>18. CASE \E end \in Nat :
                LET K == SubSeq(H, Len(Committed) + 1, end) IN
                /\ Len(Committed) < end /\ end \in Stops(H) /\ end <= Len(H)
                /\ committer'.committed = Committed \o Words(K)
                /\ agenda' = Agenda(SplitSentences(K), "early")
    BY <1>4, <1>17, <1>18
<1> QED
    BY <1>10, <1>16, <1>18

-----------------------------------------------------------------------------
(* The invariant.                                                          *)

LEMMA InitIInv ==
    ASSUME Init
    PROVE  Types /\ AInv
<1>1. /\ setup \in Setups /\ said = 0 /\ heard = 0 /\ partials = 0 /\ retracted = {}
      /\ pc = "collect" /\ result = NoResult /\ agenda = <<>> /\ extractor = NewExtractor
      /\ committer = NewCommitter /\ lastFinal = <<>> /\ flushes = {} /\ finished = FALSE
      /\ captions = <<>> /\ lost = {} /\ strayed = FALSE
    BY DEF Init
<1>2. Types
    <2>1. result \in [text : Texts, ended : BOOLEAN]
        BY <1>1 DEF NoResult, Texts
    <2>2. extractor \in [pool : Texts, recent : Seq(Nat)]
        BY <1>1 DEF NewExtractor, Texts
    <2>3. committer \in [committed : Seq(Nat), candidate : Texts, seen : Nat, diverged : BOOLEAN]
        BY <1>1 DEF NewCommitter, Texts
    <2>4. agenda \in Seq([text : Texts, kind : Handings]) /\ captions \in Seq([words : Seq(Nat), kind : Handings])
        BY <1>1
    <2>5. /\ setup \in Setups /\ said \in Nat /\ heard \in Nat /\ partials \in Nat
          /\ pc \in {"collect", "partial", "final", "assemble", "launch", "tail", "finish", "done", "failed"}
          /\ lastFinal \in Seq(Nat)
        BY <1>1
    <2>6. /\ flushes \subseteq [at : {"delay", "awake", "drained", "translating"}, text : Texts, cancelled : BOOLEAN]
          /\ finished \in BOOLEAN /\ strayed \in BOOLEAN /\ lost \subseteq Nat
        BY <1>1
    <2> QED
        BY <2>1, <2>2, <2>3, <2>4, <2>5, <2>6 DEF Types
<1>3. extractor.pool = <<>> /\ extractor.recent = <<>> /\ Pool = <<>> /\ Committed = <<>> /\ ~committer.diverged
    BY <1>1 DEF NewExtractor, NewCommitter, Pool, Committed, Words
<1>4. DOMAIN Line = {}
    <2>1. Len(captions) = 0 /\ Len(agenda) = 0
        BY <1>1
    <2>2. DOMAIN Line = 1 .. Len(captions) + Len(agenda)
        BY <1>2, LineTypes
    <2> QED
        BY <2>1, <2>2
<1>5. Idle /\ Calm /\ Flushing
    BY <1>1, <1>3 DEF Idle, Calm, Flushing
<1>6. LineInOrder
    BY <1>1, <1>4 DEF LineInOrder, InOrderOfSpeech
<1>7. LastWords(0) = <<>>
    <2>1. Window(0) = 0
        BY WindowOf
    <2>2. Run(0, 0) = <<>>
        BY DEF Run
    <2> QED
        BY <2>1, <2>2 DEF LastWords
<1>8. UpTo(0)
    <2>1. PoolIsOf(0) /\ CommittedIsOf(0)
        BY <1>3, <1>7 DEF PoolIsOf, CommittedIsOf, Rising
    <2>2. LineIsOf(0)
        BY <1>1, <1>4 DEF LineIsOf
    <2>3. Kept(0)
        BY DEF Kept
    <2> QED
        BY <1>1, <2>1, <2>2, <2>3 DEF UpTo
<1> QED
    BY <1>2, <1>5, <1>6, <1>8 DEF AInv

\* The pipeline stays what it is, and that a flush strayed is not forgotten.
LEMMA SetupStays ==
    ASSUME Next
    PROVE  setup' = setup /\ (strayed => strayed')
<1>1. CASE Collect
    <2>1. CASE CommitEarly \/ ClosePool \/ Assemble
        BY <2>1 DEF CommitEarly, ClosePool, Assemble, speech
    <2>2. CASE LaunchFlush \/ DrainTail \/ FinishStage
        BY <2>2 DEF LaunchFlush, DrainTail, FinishStage, speech
    <2>3. CASE Emit
        BY <2>3 DEF Emit, speech
    <2> QED
        BY <1>1, <2>1, <2>2, <2>3 DEF Collect
<1>2. CASE Flush
    <2>1. PICK f \in flushes : FlushWakes(f) \/ FlushDrains(f) \/ FlushHandsIn(f) \/ FlushSends(f) \/ FlushDies(f)
        BY <1>2 DEF Flush
    <2>2. CASE FlushWakes(f) \/ FlushDies(f)
        BY <2>2 DEF FlushWakes, FlushDies, speech
    <2>3. CASE FlushDrains(f)
        BY <2>3 DEF FlushDrains, speech
    <2>4. CASE FlushHandsIn(f)
        BY <2>4 DEF FlushHandsIn, Goes, speech
    <2>5. CASE FlushSends(f)
        BY <2>5 DEF FlushSends, Goes, speech
    <2> QED
        BY <2>1, <2>2, <2>3, <2>4, <2>5
<1>3. CASE Recognise
    BY <1>3 DEF Recognise, Final, ReceivePartial, ReceiveFinal, RetractUtterance, EndOfAudio, speech
<1>4. CASE TranslationFails
    BY <1>4 DEF TranslationFails, speech
<1> QED
    BY <1>1, <1>2, <1>3, <1>4 DEF Next

LEMMA StepKeeps ==
    ASSUME Steady, Types, AInv, Next, ~strayed'
    PROVE  Types' /\ AInv'
<1>1. CASE Collect
    BY <1>1, CommitEarlyKeeps, ClosePoolKeeps, AssembleKeeps, LaunchFlushKeeps, EmitKeeps, DrainTailKeeps,
       FinishStageKeeps DEF Collect
<1>2. CASE Flush
    BY <1>2, FlushWakesKeeps, FlushDrainsKeeps, FlushHandsInKeeps, FlushSendsKeeps, FlushDiesKeeps DEF Flush
<1>3. CASE Recognise
    BY <1>3, ReceivePartialKeeps, ReceiveFinalKeeps, RetractUtteranceKeeps, EndOfAudioKeeps DEF Recognise, Final
<1>4. CASE TranslationFails
    BY <1>4, TranslationFailsKeeps
<1> QED
    BY <1>1, <1>2, <1>3, <1>4 DEF Next

\* Nothing changes.
LEMMA StutterKeeps ==
    ASSUME IInv, UNCHANGED vars
    PROVE  IInv'
<1>1. /\ UNCHANGED <<setup, ends, retracted, said, heard, partials, pc, result, agenda, extractor, committer>>
      /\ UNCHANGED <<lastFinal, flushes, finished, captions, lost, strayed>>
    BY DEF vars, speech, collector
<1> SUFFICES ASSUME Steady', ~strayed' PROVE Types' /\ AInv'
    BY DEF IInv
<1>2. Types /\ AInv
    BY <1>1 DEF IInv, Steady
<1>3. Types'
    BY <1>1, <1>2 DEF Types
<1>4. Line' = Line /\ Pool' = Pool /\ Committed' = Committed
    BY <1>1 DEF Line, Pool, Committed
<1>5. Idle' /\ Calm' /\ LineInOrder'
    BY <1>1, <1>2, <1>4 DEF AInv, Idle, Calm, LineInOrder
<1>6. Flushing'
    BY <1>1, <1>2, <1>4 DEF AInv, Flushing, Flows, Untouched
<1>7. PICK b \in Nat : UpTo(b)
    BY <1>2 DEF AInv
<1>8. PoolIsOf(b)' /\ CommittedIsOf(b)' /\ LineIsOf(b)'
    BY <1>1, <1>4, <1>7 DEF UpTo, PoolIsOf, CommittedIsOf, LineIsOf, Passed
<1>9. pc # "failed" => Kept(b)'
    BY <1>1, <1>4, <1>7 DEF UpTo, Kept, InPool, WithFlush
<1>10. UpTo(b)'
    BY <1>1, <1>7, <1>8, <1>9 DEF UpTo, Repeats
<1> QED
    BY <1>3, <1>5, <1>6, <1>10 DEF AInv

\* The invariant the three properties are read off.
THEOREM Invariance == Spec => []IInv
<1>1. Init => IInv
    BY InitIInv DEF IInv
<1>2. IInv /\ [Next]_vars => IInv'
    <2> SUFFICES ASSUME IInv, [Next]_vars PROVE IInv'
        OBVIOUS
    <2>1. CASE UNCHANGED vars
        BY <2>1, StutterKeeps
    <2>2. CASE Next
        <3> SUFFICES ASSUME Steady', ~strayed' PROVE Types' /\ AInv'
            BY DEF IInv
        <3>1. Steady /\ ~strayed
            BY <2>2, SetupStays DEF Steady
        <3> QED
            BY <2>2, <3>1, StepKeeps DEF IInv
    <2> QED
        BY <2>1, <2>2
<1> QED
    BY <1>1, <1>2, PTL DEF Spec

-----------------------------------------------------------------------------
(* What follows from it.                                                   *)

\* The words of a place, by their positions in the speech.
LEMMA Positioned ==
    ASSUME NEW s \in Seq(Nat)
    PROVE  \A w : w \in Positions(s) <=> \E k \in DOMAIN s : w = s[k]
<1>1. \A w \in Nat : Position(w) = w
    BY DEF Position
<1>2. \A k \in DOMAIN s : s[k] \in Nat
    OBVIOUS
<1> QED
    BY <1>1, <1>2 DEF Positions, Range

\* Rising words are as many as the sequence is long.
LEMMA RisingCounts ==
    ASSUME NEW s \in Seq(Nat), Rising(s)
    PROVE  Cardinality(Range(s)) = Len(s)
<1> DEFINE n == Len(s)
           R == Range(s)
<1>1. n \in Nat /\ DOMAIN s = 1 .. n /\ s = [i \in 1 .. n |-> s[i]] /\ \A i \in 1 .. n : s[i] \in Nat
    OBVIOUS
<1>2. IsFiniteSet(1 .. n) /\ Cardinality(1 .. n) = n
    <2>1. n \in Nat
        BY <1>1
    <2> HIDE DEF n
    <2> QED
        BY <2>1, FS_Interval
<1> HIDE DEF n
<1>3. s \in [1 .. n -> R] /\ \A t \in R : \E i \in 1 .. n : s[i] = t
    BY <1>1 DEF Range
<1> HIDE DEF R
<1>4. s \in Surjection(1 .. n, R)
    BY <1>3 DEF Surjection
<1>5. \A i, j \in 1 .. n : s[i] = s[j] => i = j
    <2> SUFFICES ASSUME NEW i \in 1 .. n, NEW j \in 1 .. n, s[i] = s[j], i # j PROVE FALSE
        OBVIOUS
    <2>1. i < j \/ j < i
        BY <1>1
    <2>2. s[i] < s[j] \/ s[j] < s[i]
        BY <1>1, <2>1 DEF Rising
    <2> QED
        BY <1>1, <2>2
<1>6. s \in Injection(1 .. n, R)
    BY <1>3, <1>5 DEF Injection, IsInjective
<1>7. Cardinality(R) = Cardinality(1 .. n)
    BY <1>2, <1>4, <1>6, FS_Surjection
<1> QED
    BY <1>2, <1>7 DEF n, R

\* The captions are the beginning of the line.
LEMMA CaptionsInLine ==
    ASSUME Types
    PROVE  /\ captions \in Seq([words : Seq(Nat), kind : Handings])
           /\ \A i \in DOMAIN captions : i \in DOMAIN Line /\ captions[i].words = Line[i] /\ Line[i] \in Seq(Nat)
<1>1. /\ captions \in Captions /\ Line \in Seq(Seq(Nat))
      /\ Len(captions) \in Nat /\ Len(agenda) \in Nat
      /\ DOMAIN Line = 1 .. Len(captions) + Len(agenda)
      /\ \A i \in 1 .. Len(captions) : Line[i] = captions[i].words
    BY LineTypes
<1>2. DOMAIN captions = 1 .. Len(captions)
    BY <1>1 DEF Captions
<1>3. ASSUME NEW i \in DOMAIN captions
      PROVE  i \in DOMAIN Line /\ captions[i].words = Line[i] /\ Line[i] \in Seq(Nat)
    <2>1. i \in DOMAIN Line /\ captions[i].words = Line[i]
        BY <1>1, <1>2
    <2> QED
        BY <1>1, <2>1
<1> QED
    BY <1>1, <1>3 DEF Captions

\* Every word a final brought is captioned or on its way, unless a flush was
\* cancelled while it held it, or its utterance came out blank.
THEOREM WordsAreKept == Spec => []NoWordIsLost
<1>1. IInv => NoWordIsLost
    <2> SUFFICES ASSUME IInv, Steady, ~strayed, pc # "failed", NEW w \in 1 .. said, w \notin retracted
                 PROVE  w \in (UNION {Positions(place) : place \in Places}) \cup {Position(x) : x \in lost}
        BY DEF NoWordIsLost
    <2>1. Types /\ AInv
        BY DEF IInv
    <2>2. PICK b \in Nat : UpTo(b)
        BY <2>1 DEF AInv
    <2>3. /\ said \in Nat /\ w \in Nat
          /\ extractor.pool \in Texts /\ result.text \in Texts /\ Pool \in Seq(Nat)
          /\ \A f \in flushes : f.text \in Texts
        BY <2>1, StateTypes
    <2>4. ASSUME NEW s \in Seq(Nat), s \in Places, NEW k \in DOMAIN s, s[k] = w
          PROVE  w \in UNION {Positions(place) : place \in Places}
        <3>1. w \in Positions(s)
            BY <2>4, Positioned
        <3> QED
            BY <2>4, <3>1
    <2>5. CASE w \in lost
        <3>1. Position(w) = w
            BY <2>3 DEF Position
        <3> QED
            BY <2>5, <3>1
    <2>6. CASE Has(Line, w)
        <3>1. PICK i \in DOMAIN Line : \E k \in DOMAIN Line[i] : Line[i][k] = w
            BY <2>6 DEF Has
        <3>2. /\ captions \in Captions /\ agenda \in Agendas /\ Line[i] \in Seq(Nat)
              /\ \/ i \in DOMAIN captions /\ Line[i] = captions[i].words
                 \/ \E j \in DOMAIN agenda : Line[i] = Words(agenda[j].text)
            <4>1. /\ captions \in Captions /\ agenda \in Agendas
                  /\ Line \in Seq(Seq(Nat))
                  /\ Len(captions) \in Nat /\ Len(agenda) \in Nat
                  /\ DOMAIN Line = 1 .. Len(captions) + Len(agenda)
                  /\ \A q \in 1 .. Len(captions) : Line[q] = captions[q].words
                  /\ \A q \in 1 .. Len(agenda) : Line[Len(captions) + q] = Words(agenda[q].text)
                BY <2>1, LineTypes
            <4>2. DOMAIN captions = 1 .. Len(captions) /\ DOMAIN agenda = 1 .. Len(agenda)
                BY <4>1 DEF Captions, Agendas
            <4>3. CASE i \in 1 .. Len(captions)
                BY <4>1, <4>2, <4>3
            <4>4. CASE i \notin 1 .. Len(captions)
                <5>1. i - Len(captions) \in 1 .. Len(agenda) /\ Len(captions) + (i - Len(captions)) = i
                    BY <4>1, <4>4
                <5> QED
                    BY <4>1, <4>2, <5>1
            <4> QED
                BY <4>3, <4>4
        <3>3. Line[i] \in Places
            BY <3>2 DEF Places, Range
        <3> QED
            BY <2>4, <3>1, <3>2, <3>3
    <2>7. CASE InPool(w)
        <3>1. PICK k \in DOMAIN Pool : Pool[k] = w
            BY <2>7 DEF InPool
        <3>2. pc # "done"
            <4>1. pc = "done" => extractor.pool = <<>>
                BY <2>1 DEF AInv, Idle
            <4>2. extractor.pool = <<>> => DOMAIN Pool = {}
                BY DEF Pool, Words
            <4> QED
                BY <3>1, <4>1, <4>2
        <3>3. Pool \in Places
            BY <3>2 DEF Places, Pool
        <3> QED
            BY <2>3, <2>4, <3>1, <3>3
    <2>8. CASE WithFlush(w)
        <3>1. PICK f \in flushes : \E k \in DOMAIN f.text : f.text[k].word = w
            BY <2>8 DEF WithFlush
        <3>2. PICK s : s = Words(f.text)
            OBVIOUS
        <3>3. s \in Places
            BY <3>2 DEF Places
        <3>4. s \in Seq(Nat)
            BY <2>3, <3>2, TextWords
        <3>5. \E k \in DOMAIN s : s[k] = w
            BY <3>1, <3>2 DEF Words
        <3> QED
            BY <2>4, <3>3, <3>4, <3>5
    <2>9. CASE w <= b
        <3>1. w \in 1 .. b /\ Kept(b)
            BY <2>2, <2>3, <2>9 DEF UpTo
        <3> QED
            BY <2>5, <2>6, <2>7, <2>8, <3>1 DEF Kept
    <2>10. CASE w > b
        <3>1. pc \in {"final", "assemble"} /\ b < said
            BY <2>2, <2>3, <2>10 DEF UpTo
        <3>2. PICK e \in 0 .. b : Repeats(b, e)
            BY <2>2, <3>1 DEF UpTo
        <3>3. PICK s : s = Words(result.text)
            OBVIOUS
        <3>4. s \in Places /\ s \in Seq(Nat)
            BY <2>3, <3>1, <3>3, TextWords DEF Places
        <3>5. PICK d \in Int, n \in Nat : d = b - e /\ n = said - b + e
            BY <2>3, <3>1, <3>2
        <3>6. s = Run(d, n)
            BY <3>2, <3>3, <3>5 DEF Repeats
        <3>7. w - d \in 1 .. n /\ d + (w - d) = w
            BY <2>3, <2>10, <3>1, <3>2, <3>5
        <3>8. w - d \in DOMAIN s /\ s[w - d] = w
            BY <3>5, <3>6, <3>7, RunOf
        <3> QED
            BY <2>4, <3>4, <3>8
    <2>11. w <= b \/ w > b
        BY <2>2, <2>3
    <2> QED
        BY <2>9, <2>10, <2>11, Zenon
<1> QED
    BY <1>1, Invariance, PTL

\* No word is in two captions, or twice in one.
THEOREM WordsAreCaptionedOnce == Spec => []EachWordIsCaptionedOnce
<1>1. IInv => EachWordIsCaptionedOnce
    <2> SUFFICES ASSUME IInv, Steady, ~strayed, NEW i \in DOMAIN captions, NEW j \in DOMAIN captions
                 PROVE  /\ i # j => Range(captions[i].words) \cap Range(captions[j].words) = {}
                        /\ Cardinality(Range(captions[i].words)) = Len(captions[i].words)
        BY DEF EachWordIsCaptionedOnce
    <2>1. Types /\ AInv
        BY DEF IInv
    <2>2. PICK s \in Seq(Nat), t \in Seq(Nat) : s = captions[i].words /\ t = captions[j].words /\ s = Line[i] /\ t = Line[j]
        BY <2>1, CaptionsInLine
    <2>3. /\ i \in DOMAIN Line /\ j \in DOMAIN Line /\ i \in Nat /\ j \in Nat
        <3>1. captions \in Seq([words : Seq(Nat), kind : Handings])
            BY <2>1, CaptionsInLine
        <3>2. DOMAIN captions = 1 .. Len(captions) /\ Len(captions) \in Nat
            BY <3>1
        <3> QED
            BY <2>1, <3>2, CaptionsInLine
    <2>4. Rising(s) /\ (i < j => Before(s, t)) /\ (j < i => Before(t, s))
        BY <2>1, <2>2, <2>3 DEF AInv, LineInOrder, InOrderOfSpeech
    <2>5. ASSUME i # j PROVE Range(s) \cap Range(t) = {}
        <3> SUFFICES ASSUME NEW k \in DOMAIN s, NEW l \in DOMAIN t, s[k] = t[l] PROVE FALSE
            BY DEF Range
        <3>1. s[k] < t[l] \/ t[l] < s[k]
            BY <2>3, <2>4, <2>5 DEF Before
        <3>2. s[k] \in Nat /\ t[l] \in Nat
            OBVIOUS
        <3> QED
            BY <3>1, <3>2
    <2> QED
        BY <2>2, <2>4, <2>5, RisingCounts
<1> QED
    BY <1>1, Invariance, PTL

\* The captions are in the order of the speech.
THEOREM CaptionsAreInOrder == Spec => []CaptionsFollowTheSpeech
<1>1. IInv => CaptionsFollowTheSpeech
    <2> SUFFICES ASSUME IInv, Steady, ~strayed, NEW i \in DOMAIN captions, NEW j \in DOMAIN captions, i < j,
                        NEW v \in Positions(captions[i].words), NEW w \in Positions(captions[j].words)
                 PROVE  v < w
        BY DEF CaptionsFollowTheSpeech
    <2>1. Types /\ AInv
        BY DEF IInv
    <2>2. PICK s \in Seq(Nat), t \in Seq(Nat) : s = captions[i].words /\ t = captions[j].words /\ s = Line[i] /\ t = Line[j]
        BY <2>1, CaptionsInLine
    <2>3. i \in DOMAIN Line /\ j \in DOMAIN Line
        BY <2>1, CaptionsInLine
    <2>4. Before(s, t)
        BY <2>1, <2>2, <2>3 DEF AInv, LineInOrder, InOrderOfSpeech
    <2>5. (\E k \in DOMAIN s : v = s[k]) /\ (\E k \in DOMAIN t : w = t[k])
        BY <2>2, Positioned
    <2> QED
        BY <2>4, <2>5 DEF Before
<1> QED
    BY <1>1, Invariance, PTL
=============================================================================
