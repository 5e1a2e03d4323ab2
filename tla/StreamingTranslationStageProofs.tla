-------------------- MODULE StreamingTranslationStageProofs --------------------
(***************************************************************************)
(* What the translation stage keeps, for every number of callers and of    *)
(* sentences, every length of a sentence and every merge limit: no native  *)
(* segment leaks, the captions cover the finals, a translation translates  *)
(* its sentence, what is shown as current is current, partials never go    *)
(* back, and every step is a step of CaptionLog.                           *)
(*                                                                         *)
(* The texts are sequences put end to end, so the module begins with what  *)
(* FlattenSeq does; it is proved by induction, from a principle that is    *)
(* stated for sets.                                                        *)
(***************************************************************************)
EXTENDS StreamingTranslationStage, FiniteSetTheorems, SequenceTheorems, TLAPS

\* Induction over the natural numbers, for a set: by the pigeonhole principle,
\* as the numbers up to one outside the set would go down for ever.
LEMMA Induction ==
  ASSUME NEW S, 0 \in S, \A n \in Nat : n \in S => n + 1 \in S
  PROVE  Nat \subseteq S
<1> SUFFICES ASSUME NEW x \in Nat, x \notin S PROVE FALSE
  OBVIOUS
<1> DEFINE T == {k \in 0 .. x : k \notin S}
           f == [k \in T |-> k - 1]
<1>1. x \in T /\ IsFiniteSet(T)
  <2>1. IsFiniteSet(0 .. x) /\ T \in SUBSET (0 .. x) /\ x \in T
    BY FS_Interval
  <2> HIDE DEF T
  <2> QED
    BY <2>1, FS_Subset
<1>2. IsFiniteSet(T \ {x}) /\ Cardinality(T \ {x}) = Cardinality(T) - 1
      /\ Cardinality(T) \in Nat /\ Cardinality(T \ {x}) < Cardinality(T)
  <2> HIDE DEF T
  <2>1. Cardinality(T) \in Nat
    BY <1>1, FS_CardinalityType
  <2>2. IsFiniteSet(T \ {x}) /\ Cardinality(T \ {x}) = Cardinality(T) - 1
    BY <1>1, FS_RemoveElement, Zenon
  <2> QED
    BY <2>1, <2>2
<1>3. ASSUME NEW k \in T PROVE k - 1 \in T \ {x}
  <2>1. k # 0 /\ k \in Nat /\ k <= x
    OBVIOUS
  <2>2. k - 1 \in Nat /\ (k - 1) + 1 = k
    BY <2>1
  <2>3. k - 1 \notin S
    BY <2>2
  <2> QED
    BY <2>1, <2>2, <2>3
<1>4. f \in [T -> T \ {x}]
  BY <1>3
<1>5. PICK j \in T, k \in T : j # k /\ f[j] = f[k]
  <2> HIDE DEF T, f
  <2> QED
    BY <1>1, <1>2, <1>4, FS_PigeonHole
<1> QED
  BY <1>5

-----------------------------------------------------------------------------
(* FlattenSeq, which is defined by recursion on the length.                *)

\* g[1], .., g[n] are the running concatenations of s.
Builds(g, s, n) ==
  \A i \in 1 .. n : g[i] = IF i = 1 THEN s[i] ELSE g[i - 1] \o s[i]

\* The running concatenations go on for as long as the sequence does.
LEMMA FlattenFurther ==
  ASSUME NEW S, NEW s \in Seq(Seq(S)), NEW n \in Nat, n + 1 <= Len(s),
         NEW g \in [1 .. n -> Seq(S)], Builds(g, s, n)
  PROVE  \E h \in [1 .. n + 1 -> Seq(S)] : Builds(h, s, n + 1)
<1> DEFINE last == IF n = 0 THEN s[1] ELSE g[n] \o s[n + 1]
           h == [i \in 1 .. n + 1 |-> IF i = n + 1 THEN last ELSE g[i]]
<1>1. last \in Seq(S)
  <2>1. s[n + 1] \in Seq(S)
    BY ElementOfSeq
  <2>2. CASE n = 0
    BY <2>1, <2>2
  <2>3. CASE n # 0
    <3>1. g[n] \in Seq(S)
      BY <2>3
    <3> QED
      BY <2>1, <2>3, <3>1, ConcatProperties
  <2> QED
    BY <2>2, <2>3
<1>2. h \in [1 .. n + 1 -> Seq(S)]
  <2> HIDE DEF last
  <2>1. ASSUME NEW i \in 1 .. n + 1, i # n + 1 PROVE g[i] \in Seq(S)
    BY <2>1
  <2> QED
    BY <1>1, <2>1
<1>3. ASSUME NEW i \in 1 .. n + 1
      PROVE  h[i] = IF i = 1 THEN s[i] ELSE h[i - 1] \o s[i]
  <2>1. CASE i = n + 1
    <3>1. h[i] = last
      BY <2>1
    <3>2. CASE n # 0
      <4>1. h[n] = g[n]
        BY <3>2
      <4>2. last = g[n] \o s[n + 1]
        BY <3>2, Zenon
      <4>3. i - 1 = n /\ i # 1
        BY <2>1, <3>2
      <4> HIDE DEF h, last
      <4> QED
        BY <2>1, <3>1, <4>1, <4>2, <4>3, Zenon
    <3> QED
      BY <2>1, <3>1, <3>2
  <2>2. CASE i # n + 1
    <3>1. i \in 1 .. n /\ h[i] = g[i]
      BY <2>2
    <3>2. i # 1 => h[i - 1] = g[i - 1]
      BY <2>2
    <3> HIDE DEF h
    <3> QED
      BY <3>1, <3>2 DEF Builds
  <2> QED
    BY <2>1, <2>2
<1> HIDE DEF h
<1> QED
  BY <1>2, <1>3 DEF Builds

\* The recursion of FlattenSeq defines a function.
LEMMA Flattening ==
  ASSUME NEW S, NEW s \in Seq(Seq(S))
  PROVE  \E g \in [1 .. Len(s) -> Seq(S)] :
            g = [i \in 1 .. Len(s) |-> IF i = 1 THEN s[i] ELSE g[i - 1] \o s[i]]
<1> DEFINE N == {n \in Nat : n <= Len(s) => \E g \in [1 .. n -> Seq(S)] : Builds(g, s, n)}
<1>l. Len(s) \in Nat
  BY LenProperties
<1>1. 0 \in N
  <2>1. [i \in 1 .. 0 |-> <<>>] \in [1 .. 0 -> Seq(S)]
    OBVIOUS
  <2>2. Builds([i \in 1 .. 0 |-> <<>>], s, 0)
    BY DEF Builds
  <2> QED
    BY <2>1, <2>2
<1>2. ASSUME NEW n \in Nat, n \in N PROVE n + 1 \in N
  <2> SUFFICES ASSUME n + 1 <= Len(s)
               PROVE  \E g \in [1 .. n + 1 -> Seq(S)] : Builds(g, s, n + 1)
    OBVIOUS
  <2>1. PICK g \in [1 .. n -> Seq(S)] : Builds(g, s, n)
    BY <1>l, <1>2
  <2> QED
    BY <2>1, FlattenFurther
<1>3. Len(s) \in N
  <2> HIDE DEF N
  <2> QED
    BY <1>l, <1>1, <1>2, Induction
<1>4. PICK g \in [1 .. Len(s) -> Seq(S)] : Builds(g, s, Len(s))
  BY <1>l, <1>3
<1>5. g = [i \in 1 .. Len(s) |-> IF i = 1 THEN s[i] ELSE g[i - 1] \o s[i]]
  BY <1>4 DEF Builds
<1> QED
  BY <1>5

\* FlattenSeq is the last of the running concatenations, whatever they are.
LEMMA FlattenIs ==
  ASSUME NEW S, NEW s \in Seq(Seq(S)), Len(s) # 0
  PROVE  \E g \in [1 .. Len(s) -> Seq(S)] : Builds(g, s, Len(s)) /\ FlattenSeq(s) = g[Len(s)]
<1> DEFINE f == CHOOSE g : g = [i \in 1 .. Len(s) |-> IF i = 1 THEN s[i] ELSE g[i - 1] \o s[i]]
<1>1. FlattenSeq(s) = f[Len(s)]
  BY DEF FlattenSeq
<1>2. f = [i \in 1 .. Len(s) |-> IF i = 1 THEN s[i] ELSE f[i - 1] \o s[i]]
  <2>1. PICK g \in [1 .. Len(s) -> Seq(S)] :
           g = [i \in 1 .. Len(s) |-> IF i = 1 THEN s[i] ELSE g[i - 1] \o s[i]]
    BY Flattening
  <2> QED
    BY <2>1, Zenon
<1>3. Len(s) \in Nat /\ \A i \in 1 .. Len(s) : s[i] \in Seq(S)
  BY LenProperties, ElementOfSeq
<1> HIDE DEF f
<1>4. Builds(f, s, Len(s))
  BY <1>2 DEF Builds
<1> DEFINE N == {n \in Nat : 1 <= n /\ n <= Len(s) => f[n] \in Seq(S)}
<1>5. 0 \in N
  OBVIOUS
<1>6. ASSUME NEW n \in Nat, n \in N PROVE n + 1 \in N
  <2> SUFFICES ASSUME n + 1 <= Len(s) PROVE f[n + 1] \in Seq(S)
    OBVIOUS
  <2>1. s[n + 1] \in Seq(S) /\ n + 1 \in 1 .. Len(s)
    BY <1>3
  <2>2. CASE n = 0
    BY <1>4, <2>1, <2>2 DEF Builds
  <2>3. CASE n # 0
    <3>1. f[n] \in Seq(S)
      BY <1>3, <1>6, <2>3
    <3>2. f[n + 1] = f[n] \o s[n + 1]
      <4>1. (n + 1) - 1 = n /\ n + 1 # 1
        BY <2>3
      <4> QED
        BY <1>4, <2>1, <4>1 DEF Builds
    <3> QED
      BY <2>1, <3>1, <3>2, ConcatProperties
  <2> QED
    BY <2>2, <2>3
<1>7. \A n \in 1 .. Len(s) : f[n] \in Seq(S)
  <2>1. Nat \subseteq N
    <3> HIDE DEF N
    <3> QED
      BY <1>5, <1>6, Induction
  <2> QED
    BY <1>3, <2>1
<1>8. f \in [1 .. Len(s) -> Seq(S)]
  BY <1>2, <1>7
<1> QED
  BY <1>1, <1>4, <1>8

\* A last element is put at the end.
LEMMA FlattenAppend ==
  ASSUME NEW S, NEW s \in Seq(Seq(S)), NEW t \in Seq(S)
  PROVE  FlattenSeq(Append(s, t)) = FlattenSeq(s) \o t /\ FlattenSeq(s) \in Seq(S)
<1> DEFINE u == Append(s, t)
           n == Len(s)
<1>1. /\ n \in Nat /\ u \in Seq(Seq(S)) /\ Len(u) = n + 1 /\ u[n + 1] = t
      /\ \A i \in 1 .. n : u[i] = s[i]
  BY AppendProperties, LenProperties
<1> HIDE DEF u, n
<1>2. PICK g \in [1 .. n + 1 -> Seq(S)] : Builds(g, u, n + 1) /\ FlattenSeq(u) = g[n + 1]
  <2>1. Len(u) # 0
    BY <1>1
  <2> QED
    BY <1>1, <2>1, FlattenIs, Zenon
<1>3. CASE n = 0
  <2>1. s = <<>> /\ FlattenSeq(s) = <<>>
    BY <1>3, EmptySeq DEF FlattenSeq, n
  <2>2. FlattenSeq(u) = t
    BY <1>1, <1>2, <1>3 DEF Builds
  <2> QED
    BY <2>1, <2>2, ConcatEmptySeq, EmptySeq DEF u
<1>4. CASE n # 0
  <2>1. PICK f \in [1 .. n -> Seq(S)] : Builds(f, s, n) /\ FlattenSeq(s) = f[n]
    BY <1>4, FlattenIs DEF n
  <2> DEFINE N == {k \in Nat : 1 <= k /\ k <= n => f[k] = g[k]}
  <2>2. 0 \in N
    OBVIOUS
  <2>3. ASSUME NEW k \in Nat, k \in N PROVE k + 1 \in N
    <3> SUFFICES ASSUME k + 1 <= n PROVE f[k + 1] = g[k + 1]
      OBVIOUS
    <3>1. k + 1 \in 1 .. n /\ k + 1 \in 1 .. n + 1 /\ (k + 1) - 1 = k
      BY <1>1
    <3>2. CASE k = 0
      <4>1. 1 \in 1 .. n /\ 1 \in 1 .. n + 1
        BY <3>1, <3>2
      <4>2. f[1] = s[1] /\ g[1] = u[1]
        BY <1>2, <2>1, <4>1 DEF Builds
      <4> QED
        BY <1>1, <3>2, <4>1, <4>2
    <3>3. CASE k # 0
      <4>1. k + 1 # 1 /\ f[k] = g[k]
        BY <1>1, <2>3, <3>3
      <4>2. f[k + 1] = f[k] \o s[k + 1] /\ g[k + 1] = g[k] \o u[k + 1]
        BY <1>2, <2>1, <3>1, <4>1 DEF Builds
      <4>3. u[k + 1] = s[k + 1]
        BY <1>1, <3>1
      <4> QED
        BY <4>1, <4>2, <4>3
    <3> QED
      BY <3>2, <3>3
  <2>4. f[n] = g[n]
    <3>1. Nat \subseteq N
      <4> HIDE DEF N
      <4> QED
        BY <2>2, <2>3, Induction
    <3> QED
      BY <1>1, <1>4, <3>1
  <2>5. g[n + 1] = g[n] \o t
    <3>1. n + 1 \in 1 .. n + 1 /\ (n + 1) - 1 = n /\ n + 1 # 1
      BY <1>1, <1>4
    <3> QED
      BY <1>1, <1>2, <3>1 DEF Builds
  <2> QED
    BY <1>1, <1>2, <1>4, <2>1, <2>4, <2>5 DEF u
<1> QED
  BY <1>3, <1>4

\* Nothing put end to end is nothing.
LEMMA FlattenEmpty ==
  FlattenSeq(<<>>) = <<>>
BY DEF FlattenSeq

\* Prefixes of a sequence, one after the other.
LEMMA PrefixGrows ==
  ASSUME NEW S, NEW s \in Seq(S), NEW k \in Nat, k + 1 <= Len(s)
  PROVE  /\ SubSeq(s, 1, k) \in Seq(S)
         /\ s[k + 1] \in S
         /\ SubSeq(s, 1, k + 1) = Append(SubSeq(s, 1, k), s[k + 1])
<1>1. Len(s) \in Nat /\ \A i \in 1 .. Len(s) : s[i] \in S
  BY LenProperties, ElementOfSeq
<1>2. SubSeq(s, 1, k) \in Seq(S)
  BY <1>1, SubSeqProperties
<1>3. s[k + 1] \in S
  BY <1>1
<1>4. SubSeq(s, 1, k + 1) = SubSeq(s, 1, k) \o <<s[k + 1]>>
  BY <1>1, SubSeqRecursiveSecond, (k + 1) - 1 = k, 1 \in 1 .. Len(s), k + 1 \in 1 .. Len(s)
<1> QED
  BY <1>2, <1>3, <1>4, AppendIsConcat

\* One more element at the end of the second of two sequences.
LEMMA FlattenConcatFurther ==
  ASSUME NEW S, NEW s \in Seq(Seq(S)), NEW p \in Seq(Seq(S)), NEW e \in Seq(S),
         FlattenSeq(s \o p) = FlattenSeq(s) \o FlattenSeq(p)
  PROVE  FlattenSeq(s \o Append(p, e)) = FlattenSeq(s) \o FlattenSeq(Append(p, e))
<1>1. <<e>> \in Seq(Seq(S)) /\ s \o p \in Seq(Seq(S))
  BY ConcatProperties
<1>2. s \o Append(p, e) = Append(s \o p, e)
  BY <1>1, AppendIsConcat, ConcatAssociative
<1>3. FlattenSeq(Append(s \o p, e)) = FlattenSeq(s \o p) \o e
  BY <1>1, FlattenAppend
<1>4. FlattenSeq(Append(p, e)) = FlattenSeq(p) \o e
      /\ FlattenSeq(p) \in Seq(S) /\ FlattenSeq(s) \in Seq(S)
  BY FlattenAppend
<1>5. (FlattenSeq(s) \o FlattenSeq(p)) \o e = FlattenSeq(s) \o (FlattenSeq(p) \o e)
  BY <1>4, ConcatAssociative
<1> QED
  BY <1>2, <1>3, <1>4, <1>5

\* Two sequences one after the other.
LEMMA FlattenConcat ==
  ASSUME NEW S, NEW s \in Seq(Seq(S)), NEW t \in Seq(Seq(S))
  PROVE  FlattenSeq(s \o t) = FlattenSeq(s) \o FlattenSeq(t)
<1> DEFINE P(k) == SubSeq(t, 1, k)
           N == {k \in Nat : k <= Len(t) => FlattenSeq(s \o P(k)) = FlattenSeq(s) \o FlattenSeq(P(k))}
<1>0. Len(t) \in Nat /\ FlattenSeq(s) \in Seq(S) /\ <<>> \in Seq(S)
  BY LenProperties, FlattenAppend, EmptySeq
<1>1. 0 \in N
  <2>1. P(0) = <<>>
    BY SubSeqEmpty
  <2> HIDE DEF P
  <2>2. s \o P(0) = s /\ FlattenSeq(s) \o FlattenSeq(P(0)) = FlattenSeq(s)
    BY <1>0, <2>1, ConcatEmptySeq, FlattenEmpty
  <2> QED
    BY <2>2
<1>2. ASSUME NEW k \in Nat, k \in N PROVE k + 1 \in N
  <2> SUFFICES ASSUME k + 1 <= Len(t)
               PROVE  FlattenSeq(s \o P(k + 1)) = FlattenSeq(s) \o FlattenSeq(P(k + 1))
    OBVIOUS
  <2>1. P(k) \in Seq(Seq(S)) /\ t[k + 1] \in Seq(S) /\ P(k + 1) = Append(P(k), t[k + 1])
    BY PrefixGrows
  <2>2. FlattenSeq(s \o P(k)) = FlattenSeq(s) \o FlattenSeq(P(k))
    BY <1>0, <1>2
  <2> HIDE DEF P
  <2> QED
    BY <2>1, <2>2, FlattenConcatFurther
<1>3. Len(t) \in N
  <2> HIDE DEF N
  <2> QED
    BY <1>0, <1>1, <1>2, Induction
<1>4. P(Len(t)) = t
  BY SubSeqFull
<1> HIDE DEF P
<1> QED
  BY <1>0, <1>3, <1>4

\* What ends with something is not empty.
LEMMA FlattenNotEmpty ==
  ASSUME NEW S, NEW s \in Seq(Seq(S)), s # <<>>, s[Len(s)] # <<>>
  PROVE  FlattenSeq(s) # <<>>
<1>1. Len(s) \in Nat \ {0}
  BY EmptySeq
<1>2. PICK k \in Nat : Len(s) = k + 1
  <2>1. Len(s) - 1 \in Nat /\ Len(s) = (Len(s) - 1) + 1
    BY <1>1
  <2> QED
    BY <2>1
<1>3. /\ SubSeq(s, 1, k) \in Seq(Seq(S)) /\ s[k + 1] \in Seq(S)
      /\ SubSeq(s, 1, Len(s)) = Append(SubSeq(s, 1, k), s[k + 1])
  <2>1. k + 1 <= Len(s)
    BY <1>2
  <2> QED
    BY <1>2, <2>1, PrefixGrows
<1>4. PICK a \in Seq(S), b \in Seq(S) : FlattenSeq(s) = a \o b /\ b = s[Len(s)]
  <2>1. SubSeq(s, 1, Len(s)) = s
    BY SubSeqFull
  <2>2. PICK u \in Seq(Seq(S)), b \in Seq(S) : u = SubSeq(s, 1, k) /\ b = s[k + 1] /\ s = Append(u, b)
    BY <1>2, <1>3, <2>1
  <2>3. FlattenSeq(s) = FlattenSeq(u) \o b /\ FlattenSeq(u) \in Seq(S)
    BY <2>2, FlattenAppend
  <2> QED
    BY <1>2, <2>2, <2>3
<1>5. Len(a \o b) = Len(a) + Len(b) /\ Len(b) # 0 /\ Len(a) \in Nat /\ Len(b) \in Nat
  BY <1>4, ConcatProperties, EmptySeq, LenProperties
<1> QED
  BY <1>4, <1>5, EmptySeq
-----------------------------------------------------------------------------
(* Words of a sentence.                                                    *)

Versions == {"heard", "revised"}
Word == (Nat \ {0}) \X Versions \X Nat

\* s is the words a .. b of a sentence.
AreWords(s, id, v, a, b) ==
  /\ s \in Seq(Word)
  /\ Len(s) = b + 1 - a
  /\ \A i \in 1 .. b + 1 - a : s[i] = <<id, v, a + i - 1>>

\* What Words gives, from a position to one that is at most one before it.
LEMMA WordsAre ==
  ASSUME NEW id \in Nat \ {0}, NEW v \in Versions, NEW a \in Nat \ {0}, NEW b \in Nat, a <= b + 1
  PROVE  AreWords(Words(id, v, a, b), id, v, a, b)
<1>1. b + 1 - a \in Nat
  OBVIOUS
<1>2. \A i \in 1 .. b + 1 - a : <<id, v, a + i - 1>> \in Word
  BY <1>1 DEF Word
<1>3. Words(id, v, a, b) \in [1 .. b + 1 - a -> Word]
  BY <1>2 DEF Words
<1>4. \A i \in 1 .. b + 1 - a : Words(id, v, a, b)[i] = <<id, v, a + i - 1>>
  BY DEF Words
<1> HIDE DEF Word
<1> QED
  BY <1>1, <1>3, <1>4 DEF AreWords

\* The words a .. m go on with the words n .. b.
Join(id, v, a, m, n, b) == Words(id, v, a, m) \o Words(id, v, n, b) = Words(id, v, a, b)

\* Words that follow each other.
LEMMA WordsJoin ==
  ASSUME NEW id \in Nat \ {0}, NEW v \in Versions, NEW a \in Nat \ {0}, NEW m \in Nat,
         NEW n \in Nat, NEW b \in Nat, a <= n, n = m + 1, m <= b
  PROVE  Join(id, v, a, m, n, b)
<1>1. PICK s : s = Words(id, v, a, m) /\ AreWords(s, id, v, a, m)
  BY WordsAre
<1>2. PICK t : t = Words(id, v, n, b) /\ AreWords(t, id, v, n, b)
  <2>1. n \in Nat \ {0} /\ n <= b + 1
    OBVIOUS
  <2> QED
    BY <2>1, WordsAre
<1>3. PICK u : u = Words(id, v, a, b) /\ AreWords(u, id, v, a, b)
  <2>1. a <= b + 1
    OBVIOUS
  <2> QED
    BY <2>1, WordsAre
<1>4. /\ s \in Seq(Word) /\ t \in Seq(Word) /\ u \in Seq(Word)
      /\ Len(s) = m + 1 - a /\ Len(t) = b - m /\ Len(u) = b + 1 - a /\ Len(s) + Len(t) = Len(u)
  <2>1. /\ s \in Seq(Word) /\ t \in Seq(Word) /\ u \in Seq(Word)
        /\ Len(s) = m + 1 - a /\ Len(t) = b + 1 - n /\ Len(u) = b + 1 - a
    BY <1>1, <1>2, <1>3, Zenon DEF AreWords
  <2>2. b + 1 - n = b - m /\ (m + 1 - a) + (b - m) = b + 1 - a
    OBVIOUS
  <2> QED
    BY <2>1, <2>2
<1>5. /\ s \o t \in Seq(Word) /\ Len(s \o t) = Len(u)
      /\ \A i \in 1 .. Len(u) : (s \o t)[i] = IF i <= Len(s) THEN s[i] ELSE t[i - Len(s)]
  BY <1>4, ConcatProperties
<1>6. ASSUME NEW i \in 1 .. Len(u) PROVE (s \o t)[i] = u[i]
  <2>1. u[i] = <<id, v, a + i - 1>>
    BY <1>3, <1>4 DEF AreWords
  <2>2. CASE i <= Len(s)
    <3>1. s[i] = <<id, v, a + i - 1>>
      BY <1>1, <1>4, <2>2 DEF AreWords
    <3> QED
      BY <1>5, <2>1, <2>2, <3>1
  <2>3. CASE ~(i <= Len(s))
    <3>1. i - Len(s) \in 1 .. b + 1 - n /\ n + (i - Len(s)) - 1 = a + i - 1
      BY <1>4, <2>3
    <3>2. t[i - Len(s)] = <<id, v, n + (i - Len(s)) - 1>>
      BY <1>2, <3>1 DEF AreWords
    <3> QED
      BY <1>5, <2>1, <2>3, <3>1, <3>2
  <2> QED
    BY <2>2, <2>3
<1>7. s \o t = u
  BY <1>4, <1>5, <1>6, SeqEqual
<1> QED
  BY <1>1, <1>2, <1>3, <1>7 DEF Join

\* No words.
LEMMA NoWords ==
  ASSUME NEW id \in Nat \ {0}, NEW v \in Versions, NEW a \in Nat
  PROVE  Words(id, v, a + 1, a) = <<>>
<1>1. AreWords(Words(id, v, a + 1, a), id, v, a + 1, a)
  <2>1. a + 1 \in Nat \ {0} /\ a + 1 <= a + 1
    OBVIOUS
  <2> QED
    BY <2>1, WordsAre
<1>2. a + 1 - (a + 1) = 0
  OBVIOUS
<1> QED
  BY <1>1, <1>2, EmptySeq DEF AreWords

\* Pieces that follow each other, put end to end.
LEMMA WordsChain ==
  ASSUME NEW id \in Nat \ {0}, NEW v \in Versions, NEW s \in Seq(Seq(Word)),
         NEW p \in [0 .. Len(s) -> Nat],
         \A k \in 1 .. Len(s) : p[k - 1] <= p[k] /\ s[k] = Words(id, v, p[k - 1] + 1, p[k])
  PROVE  /\ p[0] <= p[Len(s)]
         /\ FlattenSeq(s) = Words(id, v, p[0] + 1, p[Len(s)])
<1>0. Len(s) \in Nat /\ p[0] \in Nat /\ p[0] + 1 \in Nat \ {0}
  <2>1. Len(s) \in Nat
    BY LenProperties
  <2> QED
    BY <2>1
<1> DEFINE Chained(k) == p[0] <= p[k] /\ FlattenSeq(SubSeq(s, 1, k)) = Words(id, v, p[0] + 1, p[k])
           N == {k \in Nat : k <= Len(s) => Chained(k)}
<1>1. Chained(0)
  <2>1. SubSeq(s, 1, 0) = <<>>
    BY SubSeqEmpty
  <2>2. Words(id, v, p[0] + 1, p[0]) = <<>>
    BY <1>0, NoWords
  <2>3. p[0] <= p[0]
    BY <1>0
  <2> QED
    BY <2>1, <2>2, <2>3, FlattenEmpty, Zenon
<1>2. ASSUME NEW k \in Nat, k + 1 <= Len(s), Chained(k) PROVE Chained(k + 1)
  <2>1. PICK x \in Nat, y \in Nat, z \in Nat : x = p[0] /\ y = p[k] /\ z = p[k + 1]
    <3>1. k \in 0 .. Len(s) /\ k + 1 \in 0 .. Len(s)
      BY <1>0, <1>2
    <3> QED
      BY <1>0, <3>1
  <2>2. y <= z /\ s[k + 1] = Words(id, v, y + 1, z)
    <3>1. k + 1 \in 1 .. Len(s) /\ (k + 1) - 1 = k
      BY <1>0, <1>2
    <3> QED
      BY <2>1, <3>1
  <2>3. x <= y /\ FlattenSeq(SubSeq(s, 1, k)) = Words(id, v, x + 1, y)
    BY <1>2, <2>1
  <2>4. FlattenSeq(SubSeq(s, 1, k + 1)) = FlattenSeq(SubSeq(s, 1, k)) \o s[k + 1]
    <3>1. SubSeq(s, 1, k) \in Seq(Seq(Word)) /\ s[k + 1] \in Seq(Word)
          /\ SubSeq(s, 1, k + 1) = Append(SubSeq(s, 1, k), s[k + 1])
      BY <1>2, PrefixGrows
    <3> QED
      BY <3>1, FlattenAppend
  <2>5. Words(id, v, x + 1, y) \o Words(id, v, y + 1, z) = Words(id, v, x + 1, z)
    <3>1. PICK a \in Nat \ {0}, n \in Nat : a = x + 1 /\ n = y + 1 /\ a <= n
      BY <2>3
    <3>2. n = y + 1 /\ y <= z
      BY <2>2, <3>1
    <3>3. Join(id, v, a, y, n, z)
      BY <3>1, <3>2, WordsJoin
    <3> QED
      BY <3>1, <3>3 DEF Join
  <2>6. x <= z
    BY <2>2, <2>3
  <2> QED
    BY <2>1, <2>2, <2>3, <2>4, <2>5, <2>6
<1>3. Chained(Len(s))
  <2> HIDE DEF Chained
  <2>1. 0 \in N /\ \A k \in Nat : k \in N => k + 1 \in N
    BY <1>0, <1>1, <1>2
  <2>2. Len(s) \in N
    <3> HIDE DEF N
    <3> QED
      BY <1>0, <2>1, Induction
  <2> QED
    BY <1>0, <2>2
<1>4. SubSeq(s, 1, Len(s)) = s
  BY SubSeqFull
<1> QED
  BY <1>3, <1>4, Zenon

-----------------------------------------------------------------------------
(* The least and the greatest of a set.                                    *)

\* The lesser of two numbers is one.
LEMMA MinOfTwo ==
  ASSUME NEW a \in Nat, NEW b \in Nat
  PROVE  Min({a, b}) \in Nat
BY DEF Min

\* A set of numbers with a bound has a greatest.
LEMMA MaxIs ==
  ASSUME NEW n \in Nat, NEW S \in SUBSET (1 .. n), S # {}
  PROVE  Max(S) \in S /\ \A k \in S : k <= Max(S)
<1>1. \E m \in S : \A k \in S : k <= m
  <2> SUFFICES ASSUME \A m \in S : \E k \in S : k > m PROVE FALSE
    OBVIOUS
  <2> DEFINE N == {k \in Nat : \E m \in S : k <= m}
  <2>1. 0 \in N
    <3>1. PICK m \in S : TRUE
      OBVIOUS
    <3>2. m \in Nat /\ 0 <= m
      OBVIOUS
    <3> QED
      BY <3>2
  <2>2. ASSUME NEW k \in Nat, k \in N PROVE k + 1 \in N
    <3>1. PICK m \in S : k <= m
      BY <2>2
    <3>2. PICK l \in S : l > m
      BY <3>1
    <3> QED
      BY <3>1, <3>2
  <2>3. n + 1 \in N
    <3> HIDE DEF N
    <3> QED
      BY <2>1, <2>2, Induction
  <2> QED
    BY <2>3
<1>2. \E m \in S : \A k \in S : m >= k
  BY <1>1
<1>3. Max(S) \in S /\ \A k \in S : Max(S) >= k
  BY <1>2, Zenon DEF Max
<1> QED
  BY <1>3

-----------------------------------------------------------------------------
(* Types.                                                                  *)

Commits == [kind : {"Commit"}, id : Nat \ {0}, delta : Seq(Word) \ {<<>>}]
Finals == [kind : {"Final"}, id : Nat \ {0}, source : Seq(Word), delta : Seq(Word),
           diverged : BOOLEAN]
Events == Commits \cup Finals
Captions == [source : Seq(Word), ok : {FALSE}]
            \cup [source : Seq(Word), ok : {TRUE}, text : Seq(Word)]

\* Where the worker has no event in hand, where it has one, and where it is over.
Waiting == {"take", "empty", "idle", "wait", "preview", "join"}
Working == {"enter", "append", "show", "resolve", "reset"}
Over == {"ended", "crashed", "cancelled"}

\* The types, and what the worker has in hand at each of its steps.
Typed ==
  /\ setup \in [drafts : BOOLEAN, restructure : BOOLEAN, preview : BOOLEAN, throws : BOOLEAN]
  /\ inputSentenceId \in Nat \ {0} /\ liveSentenceId \in Nat \ {0} /\ workerSentenceId \in Nat \ {0}
  /\ committed \in Nat /\ previewSource \in Nat /\ previewSourceSentenceId \in Nat /\ resolved \in Nat
  /\ queue \in Seq(Events) /\ (~setup.drafts => queue \in Seq(Finals))
  /\ heard \in Seq(Seq(Word)) /\ captions \in Seq(Captions)
  /\ pc \in Waiting \cup Working \cup Over
  /\ work \in Events \cup {NoWork}
  /\ segment \in Seq(Word) \cup {NoSegment}
  /\ workerTranslation \in Seq(Word) /\ pieceFailed \in BOOLEAN
  /\ preview \in [at : {"off", "running", "publish"}, id : Nat, words : Nat]
  /\ shown \in [kind : {"Idle", "Partial", "Finalized", "Failed"}, id : Nat]
  /\ pc \in {"enter", "append", "show"} => work \in Events
  /\ pc \in {"resolve", "reset"} => work \in Finals
  /\ pc \in {"append", "show"} => segment # NoSegment

\* An event is a piece or a final, by its kind.
LEMMA Kinds ==
  ASSUME NEW e \in Events
  PROVE  /\ e.id \in Nat \ {0} /\ e.delta \in Seq(Word)
         /\ e.kind = "Commit" => e \in Commits
         /\ e.kind # "Commit" => e \in Finals /\ e.kind = "Final"
         /\ e.kind = "Final" => e \in Finals
BY DEF Events, Commits, Finals

\* No text is NoSegment: there is no sentence 0.
LEMMA NoSegmentIsNoText ==
  NoSegment \notin Seq(Word)
<1>1. SUFFICES ASSUME NoSegment \in Seq(Word) PROVE FALSE
  OBVIOUS
<1>2. Len(NoSegment) = 1 /\ NoSegment[1] = <<0, "none", 0>>
  BY DEF NoSegment, NoSentence
<1>3. NoSegment[1] \in Word
  BY <1>1, <1>2, ElementOfSeq, 1 \in 1 .. 1
<1> QED
  BY <1>2, <1>3 DEF Word

\* The sequences of the deltas and of the sources of a run of events.
LEMMA RunOf ==
  ASSUME NEW q \in Seq(Events), NEW t \in 0 .. Len(q)
  PROVE  /\ [k \in 1 .. t |-> q[k].delta] \in Seq(Seq(Word))
         /\ q \in Seq(Finals) => [k \in 1 .. t |-> q[k].source] \in Seq(Seq(Word))
<1>1. t \in Nat /\ \A k \in 1 .. t : k \in 1 .. Len(q)
  BY LenProperties
<1>2. \A k \in 1 .. t : q[k].delta \in Seq(Word)
  BY <1>1, ElementOfSeq, Kinds
<1>3. ASSUME q \in Seq(Finals), NEW k \in 1 .. t PROVE q[k].source \in Seq(Word)
  <2>1. q[k] \in Finals
    BY <1>1, <1>3, ElementOfSeq
  <2> QED
    BY <2>1 DEF Finals
<1>4. [k \in 1 .. t |-> q[k].delta] \in [1 .. t -> Seq(Word)]
  BY <1>2
<1>5. q \in Seq(Finals) => [k \in 1 .. t |-> q[k].source] \in [1 .. t -> Seq(Word)]
  BY <1>3
<1> QED
  BY <1>1, <1>4, <1>5

\* How much nextWork takes: the run of one sentence, or a final, or finals only.
LEMMA TakenIs ==
  ASSUME NEW q \in Seq(Events), q # <<>>
  PROVE  /\ Taken(q) \in 1 .. Len(q)
         /\ q[1].kind = "Commit" =>
               /\ q[Taken(q)].id = q[1].id
               /\ \A k \in 1 .. Len(q) : q[k].id = q[1].id => k <= Taken(q)
         /\ q[1].kind # "Commit" /\ setup.drafts => Taken(q) = 1
<1>1. Len(q) \in Nat \ {0} /\ 1 \in 1 .. Len(q)
  <2>1. Len(q) \in Nat \ {0}
    BY EmptySeq
  <2> QED
    BY <2>1
<1>2. /\ Max(SameSentence(q)) \in SameSentence(q)
      /\ \A k \in SameSentence(q) : k <= Max(SameSentence(q))
  <2>1. SameSentence(q) \in SUBSET (1 .. Len(q)) /\ SameSentence(q) # {}
    BY <1>1 DEF SameSentence
  <2> QED
    BY <1>1, <2>1, MaxIs
<1>3. Max(FitsOneCaption(q) \cup {1}) \in 1 .. Len(q)
  <2>1. FitsOneCaption(q) \cup {1} \in SUBSET (1 .. Len(q)) /\ FitsOneCaption(q) \cup {1} # {}
    BY <1>1 DEF FitsOneCaption
  <2> QED
    BY <1>1, <2>1, MaxIs
<1> QED
  BY <1>1, <1>2, <1>3 DEF Taken, SameSentence

\* The merged event is an event: a piece of the sentence, or its last final.
LEMMA MergedIs ==
  ASSUME NEW q \in Seq(Events), q # <<>>, setup.drafts \in BOOLEAN, ~setup.drafts => q \in Seq(Finals)
  PROVE  /\ Merged(q) \in Events
         /\ Merged(q).kind = q[Taken(q)].kind /\ Merged(q).id = q[Taken(q)].id
<1> DEFINE t == Taken(q)
           deltas == FlattenSeq([k \in 1 .. t |-> q[k].delta])
           sources == FlattenSeq([k \in 1 .. t |-> q[k].source])
<1>1. t \in 1 .. Len(q) /\ Len(q) \in Nat /\ (q[1].kind # "Commit" /\ setup.drafts => t = 1)
  BY TakenIs, LenProperties
<1>2. q[t] \in Events /\ q[1] \in Events
  BY <1>1, ElementOfSeq, 1 \in 1 .. Len(q)
<1>3. deltas \in Seq(Word)
  <2>1. [k \in 1 .. t |-> q[k].delta] \in Seq(Seq(Word)) /\ <<>> \in Seq(Word)
    BY <1>1, RunOf, EmptySeq
  <2> QED
    BY <2>1, FlattenAppend
<1>4. ~setup.drafts => sources \in Seq(Word) /\ q[t] \in Finals
  <2> SUFFICES ASSUME ~setup.drafts PROVE sources \in Seq(Word) /\ q[t] \in Finals
    OBVIOUS
  <2>1. t \in 0 .. Len(q) /\ q \in Seq(Finals)
    BY <1>1
  <2>2. [k \in 1 .. t |-> q[k].source] \in Seq(Seq(Word))
    BY <2>1, RunOf
  <2>3. <<>> \in Seq(Word)
    BY EmptySeq
  <2>4. q[t] \in Finals
    BY <1>1, <2>1, ElementOfSeq
  <2> QED
    BY <2>2, <2>3, <2>4, FlattenAppend
<1> HIDE DEF t, deltas, sources
<1>5. Merged(q) = IF q[t].kind = "Commit" THEN Commit(q[t].id, deltas)
                  ELSE IF q[1].kind = "Commit"
                  THEN [q[t] EXCEPT !.delta = IF q[t].diverged THEN <<>> ELSE deltas]
                  ELSE IF t = 1 THEN q[t]
                  ELSE Final(q[t].id, sources, sources, FALSE)
  BY DEF Merged, t, deltas, sources
<1>6. CASE q[t].kind = "Commit"
  <2>1. deltas # <<>>
    <3>1. [k \in 1 .. t |-> q[k].delta] \in Seq(Seq(Word))
      BY <1>1, RunOf DEF t
    <3>2. PICK s \in Seq(Seq(Word)) : s = [k \in 1 .. t |-> q[k].delta]
      BY <3>1
    <3>3. t \in Nat \ {0} /\ t \in 1 .. t
      BY <1>1
    <3>4. Len(s) = t /\ s[t] = q[t].delta
      BY <3>2, <3>3
    <3>5. q[t].delta # <<>>
      BY <1>2, <1>6, Kinds DEF Commits
    <3>6. s # <<>> /\ s[Len(s)] # <<>>
      BY <3>3, <3>4, <3>5, EmptySeq
    <3> QED
      BY <3>2, <3>6, FlattenNotEmpty DEF deltas, t
  <2>2. Commit(q[t].id, deltas) \in Commits
    BY <1>2, <1>3, <2>1, Kinds DEF Commit, Commits
  <2> QED
    BY <1>5, <1>6, <2>2 DEF Commit, Events, t
<1>7. CASE q[t].kind # "Commit" /\ q[1].kind = "Commit"
  <2>1. q[t] \in Finals /\ <<>> \in Seq(Word)
    BY <1>2, <1>7, Kinds, EmptySeq
  <2>2. PICK d \in Seq(Word) : d = IF q[t].diverged THEN <<>> ELSE deltas
    BY <1>3, <2>1
  <2>3. Merged(q) = [q[t] EXCEPT !.delta = d]
    BY <1>5, <1>7, <2>2
  <2> QED
    BY <2>1, <2>2, <2>3 DEF Finals, Events, t
<1>8. CASE q[t].kind # "Commit" /\ q[1].kind # "Commit" /\ t = 1
  BY <1>2, <1>5, <1>8 DEF t
<1>9. CASE q[t].kind # "Commit" /\ q[1].kind # "Commit" /\ t # 1
  <2>1. sources \in Seq(Word) /\ q[t] \in Finals
    BY <1>1, <1>4, <1>9
  <2>2. Merged(q) = Final(q[t].id, sources, sources, FALSE)
    BY <1>5, <1>9
  <2> QED
    BY <2>1, <2>2 DEF Final, Finals, Events, t
<1> QED
  BY <1>6, <1>7, <1>8, <1>9

\* The types at the start.
LEMMA InitTyped ==
  Init => Typed
<1> SUFFICES ASSUME Init PROVE Typed
  OBVIOUS
<1>1. setup \in [drafts : BOOLEAN, restructure : BOOLEAN, preview : BOOLEAN, throws : BOOLEAN]
  BY ConstantsAssumption DEF Init
<1>2. queue = <<>> /\ heard = <<>> /\ captions = <<>> /\ workerTranslation = <<>>
  BY DEF Init
<1>3. /\ queue \in Seq(Events) /\ queue \in Seq(Finals) /\ heard \in Seq(Seq(Word))
      /\ captions \in Seq(Captions) /\ workerTranslation \in Seq(Word)
  BY <1>2, EmptySeq
<1>4. /\ preview \in [at : {"off", "running", "publish"}, id : Nat, words : Nat]
      /\ shown \in [kind : {"Idle", "Partial", "Finalized", "Failed"}, id : Nat]
  BY DEF Init, NoSentence
<1>5. /\ inputSentenceId = 1 /\ liveSentenceId = 1 /\ workerSentenceId = 1 /\ committed = 0
      /\ previewSource = 0 /\ previewSourceSentenceId = 0 /\ resolved = 0 /\ pc = "take"
      /\ work = NoWork /\ segment = NoSegment /\ pieceFailed = FALSE
  BY DEF Init, NoSentence
<1>6. work \in Events \cup {NoWork} /\ segment \in Seq(Word) \cup {NoSegment}
  BY <1>5, Zenon
<1>7. pc \in Waiting /\ pc \notin Working
  BY <1>5 DEF Waiting, Working
<1>8. /\ inputSentenceId \in Nat \ {0} /\ liveSentenceId \in Nat \ {0} /\ workerSentenceId \in Nat \ {0}
      /\ committed \in Nat /\ previewSource \in Nat /\ previewSourceSentenceId \in Nat
      /\ resolved \in Nat
  BY <1>5
<1>9. pieceFailed \in BOOLEAN
  BY <1>5, Zenon
<1> QED
  BY <1>1, <1>3, <1>4, <1>6, <1>7, <1>8, <1>9, Zenon DEF Typed, Working

\* What onPartial queues: the words after the last committed one.
LEMMA CommitTyped ==
  ASSUME Typed, NEW c \in Nat, committed < c
  PROVE  Commit(inputSentenceId, Words(inputSentenceId, "heard", committed + 1, c)) \in Commits
<1>1. PICK a \in Nat \ {0} : a = committed + 1 /\ a <= c + 1
  BY DEF Typed
<1>2. AreWords(Words(inputSentenceId, "heard", a, c), inputSentenceId, "heard", a, c)
  BY <1>1, WordsAre DEF Typed, Versions
<1>3. PICK w : w = Words(inputSentenceId, "heard", a, c) /\ w \in Seq(Word) /\ Len(w) = c + 1 - a
  BY <1>2 DEF AreWords
<1>4. w # <<>>
  <2>1. c + 1 - a # 0
    BY <1>1 DEF Typed
  <2> QED
    BY <1>3, <2>1, EmptySeq
<1> QED
  BY <1>1, <1>3, <1>4 DEF Commit, Commits, Typed

\* What onFinal queues.
LEMMA FinalTyped ==
  ASSUME Typed, NEW n \in Nat \ {0}, NEW diverged \in BOOLEAN, ~diverged => committed <= n, NEW source,
         source = Words(inputSentenceId, IF diverged THEN "revised" ELSE "heard", 1, n)
  PROVE  /\ source \in Seq(Word) /\ Len(source) = n
         /\ ~diverged => SubSeq(source, committed + 1, n) = Words(inputSentenceId, "heard", committed + 1, n)
         /\ Final(inputSentenceId, source,
                  IF diverged THEN <<>> ELSE SubSeq(source, committed + 1, n), diverged) \in Finals
<1>1. PICK v \in Versions : v = IF diverged THEN "revised" ELSE "heard"
  BY DEF Versions
<1>2. AreWords(source, inputSentenceId, v, 1, n)
  BY <1>1, WordsAre, 1 <= n + 1 DEF Typed
<1>3. /\ source \in Seq(Word) /\ Len(source) = n
      /\ \A i \in 1 .. n : source[i] = <<inputSentenceId, v, i>>
  <2>1. n + 1 - 1 = n /\ \A i \in 1 .. n : 1 + i - 1 = i
    OBVIOUS
  <2> QED
    BY <1>2, <2>1 DEF AreWords
<1>4. ASSUME ~diverged
      PROVE  /\ SubSeq(source, committed + 1, n) \in Seq(Word)
             /\ SubSeq(source, committed + 1, n) = Words(inputSentenceId, "heard", committed + 1, n)
  <2>1. PICK a \in Nat \ {0} : a = committed + 1 /\ a <= n + 1
    BY <1>4 DEF Typed
  <2>2. \A i \in a .. n : source[i] \in Word
    BY <1>3, <2>1, ElementOfSeq
  <2>3. /\ SubSeq(source, a, n) \in Seq(Word)
        /\ Len(SubSeq(source, a, n)) = IF a <= n THEN n - a + 1 ELSE 0
        /\ \A i \in 1 .. n - a + 1 : SubSeq(source, a, n)[i] = source[a + i - 1]
    BY <2>1, <2>2, SubSeqProperties
  <2>4. AreWords(Words(inputSentenceId, "heard", a, n), inputSentenceId, "heard", a, n)
    BY <2>1, WordsAre DEF Typed, Versions
  <2>5. PICK t \in Seq(Word) : t = SubSeq(source, a, n) /\ Len(t) = n - a + 1
          /\ \A i \in 1 .. n - a + 1 : t[i] = <<inputSentenceId, "heard", a + i - 1>>
    <3>1. (IF a <= n THEN n - a + 1 ELSE 0) = n - a + 1
      BY <2>1
    <3>2. \A i \in 1 .. n - a + 1 : source[a + i - 1] = <<inputSentenceId, "heard", a + i - 1>>
      BY <1>1, <1>3, <1>4, <2>1
    <3> QED
      BY <2>3, <3>1, <3>2
  <2>6. PICK u \in Seq(Word) : u = Words(inputSentenceId, "heard", a, n) /\ Len(u) = n - a + 1
          /\ \A i \in 1 .. n - a + 1 : u[i] = <<inputSentenceId, "heard", a + i - 1>>
    <3>1. n + 1 - a = n - a + 1
      BY <2>1
    <3> QED
      BY <2>4, <3>1 DEF AreWords
  <2>7. t = u
    BY <2>5, <2>6, SeqEqual
  <2> QED
    BY <2>1, <2>3, <2>5, <2>6, <2>7
<1>5. PICK d \in Seq(Word) : d = IF diverged THEN <<>> ELSE SubSeq(source, committed + 1, n)
  BY <1>4, EmptySeq
<1> QED
  BY <1>3, <1>4, <1>5 DEF Final, Finals, Typed

\* The steps that leave the queue, the texts and the captions alone.
LEMMA QuietTyped ==
  ASSUME Typed,
         \/ \E c \in Callers : Signal(c)
         \/ Finish \/ CheckFinished \/ StartPreview \/ Receive \/ PreviewWoken \/ PreviewOver
         \/ ShowPartial \/ Preview \/ Cancel \/ UNCHANGED vars
  PROVE  Typed'
<1> USE DEF Typed, Waiting, Working, Over
<1>1. CASE (\E c \in Callers : Signal(c)) \/ Finish \/ Cancel
  BY <1>1 DEF Signal, Finish, Cancel, sentenceVars, previewVars, outputVars, inputVars
<1>2. CASE CheckFinished
  BY <1>2 DEF CheckFinished, CloseSegment, previewVars, outputVars, inputVars
<1>3. CASE Receive \/ PreviewWoken \/ PreviewOver
  BY <1>3 DEF Receive, PreviewWoken, PreviewOver, sentenceVars, previewVars, outputVars, inputVars
<1>7. CASE StartPreview
  <2>1. preview' \in [at : {"off", "running", "publish"}, id : Nat, words : Nat]
    BY <1>7 DEF StartPreview
  <2>2. pc' \in {"wait", "preview"}
    BY <1>7 DEF StartPreview
  <2> QED
    BY <1>7, <2>1, <2>2 DEF StartPreview, sentenceVars, outputVars, inputVars
<1>4. CASE ShowPartial
  <2>1. work.id \in Nat
    BY <1>4, Kinds DEF ShowPartial
  <2> QED
    BY <1>4, <2>1 DEF ShowPartial, sentenceVars, previewVars, inputVars
<1>5. CASE Preview
  <2>1. preview' \in [at : {"off", "running", "publish"}, id : Nat, words : Nat]
    <3>1. preview \in [at : {"off", "running", "publish"}, id : Nat, words : Nat]
      OBVIOUS
    <3>2. CASE preview' = [preview EXCEPT !.at = "publish"] \/ preview' = [preview EXCEPT !.at = "running"]
      BY ONLY <3>1, <3>2
    <3>3. CASE preview' = [at |-> "off", id |-> 0, words |-> 0]
      BY ONLY <3>3
    <3> QED
      BY <1>5, <3>2, <3>3 DEF Preview, PreviewToken, PublishPreview, PreviewEnds, NoSentence
  <2>2. shown' \in [kind : {"Idle", "Partial", "Finalized", "Failed"}, id : Nat]
    BY <1>5 DEF Preview, PreviewToken, PublishPreview, PreviewEnds, outputVars
  <2> QED
    BY <1>5, <2>1, <2>2, SMTT(30) DEF Preview, PreviewToken, PublishPreview, PreviewEnds, sentenceVars,
       outputVars, inputVars
<1>6. CASE UNCHANGED vars
  BY <1>6 DEF vars, sentenceVars, previewVars, outputVars, inputVars
<1> QED
  BY <1>1, <1>2, <1>3, <1>4, <1>5, <1>6, <1>7

\* onPartial.
LEMMA OnPartialTyped ==
  ASSUME Typed, NEW n \in 1 .. MaxWords, OnPartial(n)
  PROVE  Typed'
<1>1. n \in Nat /\ Min({n, previewSource}) \in Nat
  <2>1. n \in Nat /\ previewSource \in Nat
    BY ConstantsAssumption DEF Typed
  <2> QED
    BY <2>1, MinOfTwo
<1>2. CASE UNCHANGED <<committed, queue, signalling>>
  BY <1>1, <1>2 DEF OnPartial, Typed, sentenceVars, previewVars, outputVars
<1>3. CASE setup.drafts /\ \E c \in (committed + 1) .. Min({n, previewSource}) :
                /\ committed' = c
                /\ queue' = Append(queue, Commit(inputSentenceId,
                              Words(inputSentenceId, "heard", committed + 1, c)))
  <2>1. PICK c \in (committed + 1) .. Min({n, previewSource}) :
                /\ committed' = c
                /\ queue' = Append(queue, Commit(inputSentenceId,
                              Words(inputSentenceId, "heard", committed + 1, c)))
    BY <1>3
  <2>2. c \in Nat /\ committed < c
    BY <1>1, <2>1 DEF Typed
  <2>3. queue' \in Seq(Events)
    BY <2>1, <2>2, CommitTyped, AppendProperties DEF Events, Typed
  <2> QED
    BY <1>1, <1>3, <2>1, <2>2, <2>3 DEF OnPartial, Typed, sentenceVars, previewVars, outputVars
<1> QED
  BY <1>2, <1>3 DEF OnPartial

\* onFinal.
LEMMA OnFinalTyped ==
  ASSUME Typed, NEW c \in Callers, NEW n \in 1 .. MaxWords, OnFinal(c, n)
  PROVE  Typed'
<1>1. n \in Nat \ {0}
  BY ConstantsAssumption
<1>2. PICK diverged, source :
         /\ diverged \in BOOLEAN
         /\ source = Words(inputSentenceId, IF diverged THEN "revised" ELSE "heard", 1, n)
         /\ IF diverged THEN committed > 0 ELSE committed <= n
         /\ heard' = Append(heard, source)
         /\ queue' = Append(queue, Final(inputSentenceId, source,
                           IF diverged THEN <<>> ELSE SubSeq(source, committed + 1, n), diverged))
  BY DEF OnFinal
<1>3. /\ source \in Seq(Word)
      /\ Final(inputSentenceId, source,
               IF diverged THEN <<>> ELSE SubSeq(source, committed + 1, n), diverged) \in Finals
  BY <1>1, <1>2, FinalTyped
<1>4. heard' \in Seq(Seq(Word)) /\ queue' \in Seq(Events) /\ (~setup.drafts => queue' \in Seq(Finals))
  BY <1>2, <1>3, AppendProperties DEF Events, Typed
<1> QED
  BY <1>4 DEF OnFinal, Typed, sentenceVars, previewVars, outputVars

\* nextWork.
LEMMA TakeTyped ==
  ASSUME Typed, TakeWork
  PROVE  Typed'
<1>1. CASE queue = <<>>
  BY <1>1 DEF TakeWork, Typed, Waiting, sentenceVars, previewVars, outputVars, inputVars
<1>2. CASE queue # <<>>
  <2>1. work' \in Events
    BY <1>2, MergedIs DEF TakeWork, Typed
  <2>2. queue' \in Seq(Events) /\ (~setup'.drafts => queue' \in Seq(Finals))
    <3>1. Taken(queue) \in 1 .. Len(queue) /\ Len(queue) \in Nat
      BY <1>2, TakenIs, LenProperties DEF Typed
    <3>2. \A i \in Taken(queue) + 1 .. Len(queue) :
             queue[i] \in Events /\ (~setup.drafts => queue[i] \in Finals)
      BY <3>1, ElementOfSeq DEF Typed
    <3>3. PICK a \in Int : a = Taken(queue) + 1
      BY <3>1
    <3>4. queue' = SubSeq(queue, a, Len(queue))
      BY <1>2, <3>3 DEF TakeWork
    <3>5. queue' \in Seq(Events)
      BY <3>1, <3>2, <3>3, <3>4, SubSeqProperties DEF Typed
    <3>6. ~setup.drafts => queue' \in Seq(Finals)
      BY <3>1, <3>2, <3>3, <3>4, SubSeqProperties DEF Typed
    <3>7. setup' = setup
      BY DEF TakeWork, inputVars
    <3> QED
      BY <3>5, <3>6, <3>7
  <2> QED
    BY <1>2, <2>1, <2>2 DEF TakeWork, Typed, Working, sentenceVars, previewVars, outputVars, inputVars
<1> QED
  BY <1>1, <1>2

\* What Enter leaves: the final to translate again, or what is left to
\* translate, or nothing.
LEMMA EnterIs ==
  ASSUME Typed, Enter
  PROVE  /\ pc = "enter" /\ work \in Events /\ workerSentenceId' = work.id
         /\ pieceFailed' = (pieceFailed /\ work.id = workerSentenceId)
         /\ \/ /\ pc' = "append" /\ work.kind = "Final" /\ work' = [work EXCEPT !.delta = work.source]
               /\ workerTranslation' = <<>> /\ segment' = <<>>
            \/ /\ pc' = "append" /\ work.delta # <<>> /\ work' = work
               /\ work.kind = "Final" => ~work.diverged /\ ~(pieceFailed /\ work.id = workerSentenceId)
               /\ workerTranslation' = IF work.id # workerSentenceId THEN <<>> ELSE workerTranslation
               /\ segment' = IF work.id # workerSentenceId \/ segment = NoSegment THEN <<>> ELSE segment
            \/ /\ pc' = "resolve" /\ work.delta = <<>> /\ work' = work
               /\ work.kind = "Final" /\ ~work.diverged /\ ~(pieceFailed /\ work.id = workerSentenceId)
               /\ workerTranslation' = IF work.id # workerSentenceId THEN <<>> ELSE workerTranslation
               /\ segment' = IF work.id # workerSentenceId THEN NoSegment ELSE segment
<1> DEFINE new == work.id # workerSentenceId
           old == IF new THEN NoSegment ELSE segment
           text == IF new THEN <<>> ELSE workerTranslation
           failed == pieceFailed /\ ~new
           redo == Redo(failed, old # NoSegment \/ text # <<>>)
           generate == redo \/ work.delta # <<>>
           kept == IF redo THEN NoSegment ELSE old
<1>1. /\ pc = "enter" /\ workerSentenceId' = work.id
      /\ pieceFailed' = failed
      /\ workerTranslation' = IF redo THEN <<>> ELSE text
      /\ segment' = IF generate /\ kept = NoSegment THEN <<>> ELSE kept
      /\ work' = IF redo THEN [work EXCEPT !.delta = work.source] ELSE work
      /\ pc' = IF generate THEN "append" ELSE "resolve"
  BY Zenon DEF Enter
<1>2. work \in Events /\ (work.kind # "Final" => work.delta # <<>>)
  <2>1. work \in Events
    BY <1>1 DEF Typed
  <2> QED
    BY <2>1, Kinds DEF Commits
<1>3. /\ redo => work.kind = "Final"
      /\ work.kind = "Final" /\ ~redo => ~work.diverged /\ ~failed
  BY Zenon DEF Redo
<1> HIDE DEF redo
<1>4. CASE redo
  BY <1>1, <1>2, <1>3, <1>4, Zenon
<1>5. CASE ~redo /\ work.delta # <<>>
  BY <1>1, <1>2, <1>3, <1>5, Zenon
<1>6. CASE ~redo /\ work.delta = <<>>
  BY <1>1, <1>2, <1>3, <1>6, Zenon
<1> QED
  BY <1>4, <1>5, <1>6

\* Enter.
LEMMA EnterTyped ==
  ASSUME Typed, Enter
  PROVE  Typed'
<1>1. /\ work \in Events /\ workerSentenceId' = work.id /\ pc' \in {"append", "resolve"}
      /\ UNCHANGED <<inputVars, queue, previewVars, outputVars>>
  BY EnterIs DEF Enter
<1>2. workerSentenceId' \in Nat \ {0}
  BY <1>1, Kinds
<1>3. pieceFailed' \in BOOLEAN
  BY EnterIs, Zenon
<1>4. workerTranslation' \in Seq(Word) /\ segment' \in Seq(Word) \cup {NoSegment}
  <2>1. <<>> \in Seq(Word) /\ workerTranslation \in Seq(Word) /\ segment \in Seq(Word) \cup {NoSegment}
    BY EmptySeq DEF Typed
  <2> QED
    BY <2>1, EnterIs, Zenon
<1>5. work' \in Events /\ (pc' = "resolve" => work' \in Finals)
  <2>1. CASE work.kind = "Final" /\ work' = [work EXCEPT !.delta = work.source]
    <3>1. work \in Finals
      BY <1>1, <2>1, Kinds
    <3> QED
      BY <2>1, <3>1 DEF Finals, Events
  <2>2. CASE work' = work /\ (pc' = "resolve" => work.kind = "Final")
    BY <1>1, <2>2, Kinds
  <2> QED
    BY <1>1, <2>1, <2>2, EnterIs
<1>6. pc' = "append" => segment' # NoSegment
  <2>1. <<>> # NoSegment
    BY NoSegmentIsNoText, EmptySeq
  <2> QED
    BY <2>1, EnterIs
<1> QED
  BY <1>1, <1>2, <1>3, <1>4, <1>5, <1>6 DEF Typed, Working, inputVars, previewVars, outputVars

\* A generation, whether it completes or fails.
LEMMA GenerationTyped ==
  ASSUME Typed, Token \/ AppendDone \/ AppendFails
  PROVE  Typed'
<1>1. pc = "append" /\ work \in Events /\ segment \in Seq(Word) /\ work' = work
  BY DEF Token, AppendDone, AppendFails, Typed
<1>2. segment \o work.delta \in Seq(Word) /\ segment \o work.delta # NoSegment
  <2>1. work.delta \in Seq(Word)
    BY <1>1, Kinds
  <2> QED
    BY <1>1, <2>1, ConcatProperties, NoSegmentIsNoText
<1>3. CASE Token
  <2>1. pc' \in {"append", "show"}
    BY <1>3 DEF Token
  <2> QED
    BY <1>1, <1>2, <1>3, <2>1 DEF Token, Typed, Working, inputVars, previewVars, outputVars
<1>4. CASE AppendDone
  <2>1. pc' \in {"resolve", "take"} /\ (pc' = "resolve" => work \in Finals)
    BY <1>1, <1>4, Kinds DEF AppendDone
  <2>2. segment' \in Seq(Word) /\ segment' # NoSegment /\ workerTranslation' \in Seq(Word)
    BY <1>2, <1>4 DEF AppendDone
  <2> QED
    BY <1>1, <1>4, <2>1, <2>2 DEF AppendDone, Typed, Working, Waiting, inputVars, previewVars, outputVars
<1>5. CASE AppendFails /\ work.kind = "Commit"
  <2>1. /\ pc' = "take" /\ segment' = NoSegment /\ pieceFailed' \in BOOLEAN
        /\ UNCHANGED <<workerSentenceId, workerTranslation, outputVars, inputVars, queue, previewVars>>
    BY <1>5, Zenon DEF AppendFails, CloseSegment
  <2> QED
    BY <1>1, <2>1 DEF Typed, Working, Waiting, inputVars, previewVars, outputVars
<1>6. CASE AppendFails /\ work.kind = "Final"
  <2>1. work \in Finals
    BY <1>1, <1>6, Kinds
  <2>2. /\ pc' = "reset" /\ shown' = [kind |-> "Failed", id |-> work.id] /\ resolved' = work.id
        /\ captions' = Append(captions, [source |-> work.source, ok |-> FALSE])
        /\ UNCHANGED <<sentenceVars, inputVars, queue, previewVars>>
    BY <1>6 DEF AppendFails
  <2>3. work.id \in Nat /\ work.source \in Seq(Word)
    BY <2>1 DEF Finals
  <2>4. captions' \in Seq(Captions)
    <3>1. [source |-> work.source, ok |-> FALSE] \in Captions
      BY <2>3 DEF Captions
    <3> QED
      BY <2>2, <3>1, AppendProperties DEF Typed
  <2>5. shown' \in [kind : {"Idle", "Partial", "Finalized", "Failed"}, id : Nat]
    BY <2>2, <2>3
  <2> QED
    BY <1>1, <2>1, <2>2, <2>3, <2>4, <2>5 DEF Typed, Working, inputVars, previewVars, sentenceVars
<1> QED
  BY <1>3, <1>4, <1>5, <1>6 DEF AppendFails

\* The caption, and the end of the sentence.
LEMMA EndTyped ==
  ASSUME Typed, Resolve \/ ResetSentence \/ Unwind
  PROVE  Typed'
<1>1. CASE Resolve
  <2>1. /\ pc = "resolve" /\ work \in Finals /\ work' = work /\ pc' = "reset"
        /\ shown' = [kind |-> "Finalized", id |-> work.id] /\ resolved' = work.id
        /\ UNCHANGED <<sentenceVars, inputVars, queue, previewVars>>
    BY <1>1 DEF Resolve, Typed
  <2>2. work.id \in Nat /\ work.source \in Seq(Word)
    BY <2>1 DEF Finals
  <2>3. PICK w \in Seq(Word) : w = IF segment = NoSegment THEN workerTranslation ELSE segment
    <3>1. segment \in Seq(Word) \cup {NoSegment} /\ workerTranslation \in Seq(Word)
      BY DEF Typed
    <3> QED
      BY <3>1, Zenon
  <2>4. captions' \in Seq(Captions)
    <3>1. captions' = Append(captions, [source |-> work.source, ok |-> TRUE, text |-> w])
      BY <1>1, <2>3 DEF Resolve
    <3>2. [source |-> work.source, ok |-> TRUE, text |-> w] \in Captions
      BY <2>2 DEF Captions
    <3> QED
      BY <3>1, <3>2, AppendProperties DEF Typed
  <2>5. shown' \in [kind : {"Idle", "Partial", "Finalized", "Failed"}, id : Nat]
    BY <2>1, <2>2
  <2> QED
    BY <2>1, <2>2, <2>4, <2>5 DEF Typed, Working, inputVars, previewVars, sentenceVars
<1>2. CASE ResetSentence
  <2>1. work \in Finals /\ pc = "reset"
    BY <1>2 DEF ResetSentence, Typed
  <2>2. work.id + 1 \in Nat \ {0} /\ <<>> \in Seq(Word)
    BY <2>1, EmptySeq DEF Finals
  <2>3. pc' \in {"crashed", "take"} /\ work' = NoWork /\ segment' = NoSegment
    BY <1>2 DEF ResetSentence, CloseSegment
  <2>4. workerSentenceId' \in Nat \ {0} /\ workerTranslation' \in Seq(Word)
    BY <1>2, <2>2 DEF ResetSentence, LeaveSentence
  <2>5. pieceFailed' \in BOOLEAN
    BY <1>2, Zenon DEF ResetSentence, LeaveSentence
  <2> QED
    BY <1>2, <2>1, <2>3, <2>4, <2>5 DEF ResetSentence, Typed, Working, Waiting, Over, inputVars,
       previewVars, outputVars
<1>3. CASE Unwind
  <2>1. /\ pc' = "cancelled" /\ segment' = NoSegment
        /\ UNCHANGED <<inputVars, queue, work, previewVars, outputVars>>
    BY <1>3 DEF Unwind, CloseSegment
  <2>2. workerSentenceId' \in Nat \ {0} /\ workerTranslation' \in Seq(Word) /\ pieceFailed' \in BOOLEAN
    <3>1. CASE UNCHANGED <<workerSentenceId, workerTranslation, pieceFailed>>
      BY <3>1 DEF Typed
    <3>2. CASE work.kind = "Final" /\ pc \in {"append", "reset"} /\ LeaveSentence
      <4>1. work \in Events
        BY <3>2 DEF Typed, Events
      <4>2. work.id + 1 \in Nat \ {0} /\ <<>> \in Seq(Word)
        BY <4>1, Kinds, EmptySeq
      <4>3. workerSentenceId' \in Nat \ {0} /\ workerTranslation' \in Seq(Word)
        BY <3>2, <4>2 DEF LeaveSentence
      <4>4. pieceFailed' \in BOOLEAN
        BY <3>2, Zenon DEF LeaveSentence
      <4> QED
        BY <4>3, <4>4
    <3> QED
      BY <1>3, <3>1, <3>2 DEF Unwind
  <2> QED
    BY <2>1, <2>2 DEF Typed, Over, Working, inputVars, previewVars, outputVars
<1> QED
  BY <1>1, <1>2, <1>3

\* Every step keeps the types.
LEMMA NextTyped ==
  ASSUME Typed, [Next]_vars
  PROVE  Typed'
<1>1. ASSUME NEW n \in 1 .. MaxWords, OnPartial(n) PROVE Typed'
  BY <1>1, OnPartialTyped
<1>2. ASSUME NEW c \in Callers, NEW n \in 1 .. MaxWords, OnFinal(c, n) PROVE Typed'
  BY <1>2, OnFinalTyped
<1>3. CASE TakeWork
  BY <1>3, TakeTyped
<1>4. CASE Enter
  BY <1>4, EnterTyped
<1>5. CASE Token \/ AppendDone \/ AppendFails
  BY <1>5, GenerationTyped
<1>6. CASE Resolve \/ ResetSentence \/ Unwind
  BY <1>6, EndTyped
<1> QED
  BY <1>1, <1>2, <1>3, <1>4, <1>5, <1>6, QuietTyped, Zenon DEF Next, Input, Worker

\* Every behaviour keeps the types.
LEMMA TypedAlways ==
  Spec => []Typed
<1>1. Typed /\ [Next]_vars => Typed'
  BY NextTyped
<1> QED
  BY <1>1, InitTyped, PTL DEF Spec

-----------------------------------------------------------------------------
(* The segments.                                                           *)

\* A preview is on only while the worker runs one.
Leaks ==
  /\ NoSegmentLeaks
  /\ preview.at # "off" => pc \in {"preview", "join"}

\* Closing the segment balances the count.
LEMMA CloseBalances ==
  ASSUME NoSegmentLeaks, CloseSegment, UNCHANGED preview
  PROVE  NoSegmentLeaks'
BY DEF NoSegmentLeaks, CloseSegment

\* Every step keeps the count.
LEMMA NextLeaks ==
  ASSUME Typed, Leaks, [Next]_vars
  PROVE  Leaks'
<1>1. CASE UNCHANGED <<segment, preview, openSegments>> /\ (pc' = pc \/ preview.at = "off")
  BY <1>1 DEF Leaks, NoSegmentLeaks
<1>2. CASE CloseSegment /\ UNCHANGED preview /\ preview.at = "off"
  BY <1>2, CloseBalances DEF Leaks
<1>3. ASSUME NEW n \in 1 .. MaxWords, OnPartial(n) PROVE Leaks'
  BY <1>1, <1>3 DEF OnPartial, sentenceVars, previewVars
<1>4. ASSUME NEW c \in Callers, NEW n \in 1 .. MaxWords, OnFinal(c, n) PROVE Leaks'
  BY <1>1, <1>4 DEF OnFinal, sentenceVars, previewVars
<1>5. CASE Finish \/ (\E c \in Callers : Signal(c)) \/ Cancel \/ UNCHANGED vars
  BY <1>1, <1>5 DEF Finish, Signal, Cancel, vars, sentenceVars, previewVars
<1>6. CASE TakeWork \/ Receive \/ PreviewOver \/ Token \/ ShowPartial \/ Resolve
  BY <1>1, <1>6 DEF TakeWork, Receive, PreviewOver, Token, ShowPartial, Resolve, sentenceVars,
     previewVars, Leaks
<1>7. CASE CheckFinished
  BY <1>1, <1>2, <1>7 DEF CheckFinished, previewVars, Leaks
<1>8. CASE StartPreview
  <2>1. preview.at = "off"
    BY <1>8 DEF StartPreview, Leaks
  <2>2. CASE UNCHANGED <<preview, openSegments>>
    BY <1>1, <1>8, <2>1, <2>2 DEF StartPreview, sentenceVars
  <2>3. CASE openSegments' = openSegments + 1 /\ pc' = "preview" /\ preview'.at = "running"
    BY <1>8, <2>1, <2>3 DEF StartPreview, sentenceVars, Leaks, NoSegmentLeaks
  <2> QED
    BY <1>8, <2>2, <2>3 DEF StartPreview
<1>9. CASE PreviewWoken
  BY <1>9 DEF PreviewWoken, sentenceVars, previewVars, Leaks, NoSegmentLeaks
<1>10. CASE Enter
  BY <1>10 DEF Enter, previewVars, Leaks, NoSegmentLeaks
<1>11. CASE AppendDone
  <2>1. segment # NoSegment /\ segment' # NoSegment
    <3>1. pc = "append" /\ segment \in Seq(Word) /\ work.delta \in Seq(Word) /\ segment' = segment \o work.delta
      BY <1>11, Kinds DEF AppendDone, Typed
    <3>2. segment' \in Seq(Word)
      BY <3>1, ConcatProperties
    <3> QED
      BY <3>1, <3>2, NoSegmentIsNoText
  <2> QED
    BY <1>11, <2>1 DEF AppendDone, previewVars, Leaks, NoSegmentLeaks
<1>12. CASE AppendFails
  BY <1>1, <1>2, <1>12 DEF AppendFails, previewVars, sentenceVars, Leaks
<1>13. CASE ResetSentence
  BY <1>2, <1>13 DEF ResetSentence, previewVars, Leaks
<1>14. CASE Unwind
  BY <1>2, <1>14 DEF Unwind, previewVars
<1>15. CASE Preview
  <2>1. CASE PreviewToken \/ PublishPreview
    <3>1. preview.at # "off" /\ preview'.at # "off" /\ pc' = pc
          /\ UNCHANGED <<segment, openSegments>>
      <4>1. preview \in [at : {"off", "running", "publish"}, id : Nat, words : Nat]
        BY DEF Typed
      <4> QED
        BY <2>1, <4>1 DEF PreviewToken, PublishPreview, sentenceVars
    <3> QED
      BY <3>1 DEF Leaks, NoSegmentLeaks
  <2>2. CASE PreviewEnds
    BY <2>2 DEF PreviewEnds, sentenceVars, Leaks, NoSegmentLeaks
  <2> QED
    BY <1>15, <2>1, <2>2 DEF Preview
<1> QED
  BY <1>3, <1>4, <1>5, <1>6, <1>7, <1>8, <1>9, <1>10, <1>11, <1>12, <1>13, <1>14, <1>15,
     Zenon DEF Next, Input, Worker

\* The count holds in every state reached.
LEMMA LeaksAlways ==
  Spec => [](Typed /\ Leaks)
<1>1. Init => Leaks
  BY DEF Init, Leaks, NoSegmentLeaks
<1>2. Typed /\ Leaks /\ [Next]_vars => (Typed /\ Leaks)'
  BY NextTyped, NextLeaks
<1> QED
  BY <1>1, <1>2, InitTyped, PTL DEF Spec

\* The worker and the preview hold every native segment that is open:
\* whatever fails, is cancelled or is merged, each segment is closed once.
THEOREM SegmentsAreHeld ==
  Spec => []NoSegmentLeaks
<1>1. Leaks => NoSegmentLeaks
  BY DEF Leaks
<1> QED
  BY <1>1, LeaksAlways, PTL

-----------------------------------------------------------------------------
(* The order of the queue.                                                 *)

\* The elements of s from a + 1 to b.
Cut(s, a, b) == SubSeq(s, a + 1, b)

IsCut(u, s, a, b) == Len(u) = b - a /\ \A i \in 1 .. b - a : u[i] = s[a + i]

\* What a cut is.
LEMMA CutIs ==
  ASSUME NEW S, NEW s \in Seq(S), NEW a \in Nat, NEW b \in Nat, a <= b, b <= Len(s)
  PROVE  Cut(s, a, b) \in Seq(S) /\ IsCut(Cut(s, a, b), s, a, b)
<1>1. PICK m \in Nat : m = a + 1
  OBVIOUS
<1>2. \A i \in m .. b : s[i] \in S
  BY <1>1, ElementOfSeq, LenProperties
<1>3. /\ SubSeq(s, m, b) \in Seq(S)
      /\ Len(SubSeq(s, m, b)) = IF m <= b THEN b - m + 1 ELSE 0
      /\ \A i \in 1 .. b - m + 1 : SubSeq(s, m, b)[i] = s[m + i - 1]
  BY <1>1, <1>2, SubSeqProperties
<1>4. (IF m <= b THEN b - m + 1 ELSE 0) = b - a /\ b - m + 1 = b - a
  BY <1>1
<1>5. \A i \in 1 .. b - a : m + i - 1 = a + i
  BY <1>1
<1> QED
  BY <1>1, <1>3, <1>4, <1>5 DEF Cut, IsCut

\* A cut of a sequence that has grown.
LEMMA CutOfAppend ==
  ASSUME NEW S, NEW s \in Seq(S), NEW e \in S, NEW a \in Nat, NEW b \in Nat, a <= b, b <= Len(s)
  PROVE  Cut(Append(s, e), a, b) = Cut(s, a, b)
<1> DEFINE t == Append(s, e)
<1>1. t \in Seq(S) /\ b <= Len(t) /\ \A i \in 1 .. Len(s) : t[i] = s[i]
  BY AppendProperties, LenProperties
<1> HIDE DEF t
<1>2. PICK u \in Seq(S) : u = Cut(s, a, b) /\ IsCut(u, s, a, b)
  BY CutIs, Zenon
<1>3. PICK v \in Seq(S) : v = Cut(t, a, b) /\ IsCut(v, t, a, b)
  BY <1>1, CutIs, Zenon
<1>4. \A i \in 1 .. b - a : a + i \in 1 .. Len(s)
  BY LenProperties
<1>5. u = v
  BY <1>1, <1>2, <1>3, <1>4, SeqEqual DEF IsCut
<1> QED
  BY <1>2, <1>3, <1>5 DEF t

\* Two cuts, one after the other.
LEMMA CutsJoin ==
  ASSUME NEW S, NEW s \in Seq(S), NEW a \in Nat, NEW b \in Nat, NEW c \in Nat,
         a <= b, b <= c, c <= Len(s)
  PROVE  Cut(s, a, b) \o Cut(s, b, c) = Cut(s, a, c)
<1>1. PICK u \in Seq(S) : u = Cut(s, a, b) /\ IsCut(u, s, a, b)
  <2>1. b <= Len(s)
    BY LenProperties
  <2> QED
    BY <2>1, CutIs, Zenon
<1>2. PICK v \in Seq(S) : v = Cut(s, b, c) /\ IsCut(v, s, b, c)
  BY CutIs, Zenon
<1>3. PICK w \in Seq(S) : w = Cut(s, a, c) /\ IsCut(w, s, a, c)
  <2>1. a <= c
    OBVIOUS
  <2> QED
    BY <2>1, CutIs, Zenon
<1>4. /\ u \o v \in Seq(S) /\ Len(u \o v) = Len(u) + Len(v)
      /\ \A i \in 1 .. Len(u) + Len(v) : (u \o v)[i] = IF i <= Len(u) THEN u[i] ELSE v[i - Len(u)]
  BY ConcatProperties
<1>5. ASSUME NEW i \in 1 .. c - a PROVE (u \o v)[i] = w[i]
  <2>1. w[i] = s[a + i] /\ i \in 1 .. Len(u) + Len(v)
    BY <1>1, <1>2, <1>3 DEF IsCut
  <2>2. CASE i <= Len(u)
    BY <1>1, <1>4, <2>1, <2>2 DEF IsCut
  <2>3. CASE ~(i <= Len(u))
    <3>1. i - Len(u) \in 1 .. c - b /\ b + (i - Len(u)) = a + i
      BY <1>1, <2>3 DEF IsCut
    <3> QED
      BY <1>2, <1>4, <2>1, <2>3, <3>1 DEF IsCut
  <2> QED
    BY <2>2, <2>3
<1>6. Len(u \o v) = Len(w) /\ Len(w) = c - a
  BY <1>1, <1>2, <1>3, <1>4 DEF IsCut
<1>7. u \o v = w
  BY <1>3, <1>4, <1>5, <1>6, SeqEqual
<1> QED
  BY <1>1, <1>2, <1>3, <1>7

\* A cut of one element.
LEMMA CutOne ==
  ASSUME NEW S, NEW s \in Seq(Seq(S)), NEW a \in Nat, NEW b \in Nat, b = a + 1, b <= Len(s)
  PROVE  FlattenSeq(Cut(s, a, b)) = s[b]
<1>1. PICK u \in Seq(Seq(S)) : u = Cut(s, a, b) /\ Len(u) = 1 /\ u[1] = s[b]
  <2>1. a <= b /\ b - a = 1
    OBVIOUS
  <2>2. PICK u \in Seq(Seq(S)) : u = Cut(s, a, b) /\ IsCut(u, s, a, b)
    BY <2>1, CutIs, Zenon
  <2>3. Len(u) = b - a /\ \A i \in 1 .. b - a : u[i] = s[a + i]
    BY <2>2 DEF IsCut
  <2>4. 1 \in 1 .. b - a
    BY <2>1
  <2>5. Len(u) = 1 /\ u[1] = s[a + 1]
    BY <2>1, <2>3, <2>4
  <2> QED
    BY <2>2, <2>5
<1>2. s[b] \in Seq(S) /\ <<>> \in Seq(Seq(S)) /\ <<>> \in Seq(S)
  BY ElementOfSeq, EmptySeq, LenProperties
<1>3. u = Append(<<>>, s[b])
  <2>1. /\ Append(<<>>, s[b]) \in Seq(Seq(S)) /\ Len(Append(<<>>, s[b])) = 1
        /\ Append(<<>>, s[b])[1] = s[b]
    BY <1>2
  <2> QED
    BY <1>1, <2>1, SeqEqual
<1>4. FlattenSeq(Append(<<>>, s[b])) = FlattenSeq(<<>>) \o s[b]
  BY <1>2, FlattenAppend
<1> QED
  BY <1>1, <1>2, <1>3, <1>4, FlattenEmpty, ConcatEmptySeq

\* The queue holds, in order, the finals h[d + 1] .. h[n - 1], each after the
\* pieces of its sentence, and pieces of sentence n.
Sorted(q) ==
  \A i, j \in 1 .. Len(q) :
     i < j => q[i].id <= q[j].id /\ (q[i].kind = "Final" => q[i].id < q[j].id)

Within(q, h, d, n) ==
  \A i \in 1 .. Len(q) :
     /\ d < q[i].id /\ q[i].id <= n
     /\ q[i].kind = "Final" => q[i].id < n /\ q[i].source = h[q[i].id]

Covered(q, d, n) ==
  \A m \in Nat : d < m /\ m < n => \E i \in 1 .. Len(q) : q[i].kind = "Final" /\ q[i].id = m

Ordered(q, h, d, n) == Sorted(q) /\ Within(q, h, d, n) /\ Covered(q, d, n)

\* Without drafts, each final is in its place.
InStep(q, d) == \A i \in 1 .. Len(q) : q[i].id = d + i

\* A piece of the sentence being spoken joins the queue.
LEMMA CommitJoins ==
  ASSUME NEW q \in Seq(Events), NEW h, NEW d \in Nat, NEW n \in Nat, Ordered(q, h, d, n), d < n,
         NEW e \in Events, e.kind = "Commit", e.id = n
  PROVE  Ordered(Append(q, e), h, d, n)
<1> DEFINE r == Append(q, e)
<1>1. /\ Len(q) \in Nat /\ Len(r) = Len(q) + 1 /\ r[Len(q) + 1] = e
      /\ \A i \in 1 .. Len(q) : r[i] = q[i] /\ q[i] \in Events /\ q[i].id \in Nat
  BY AppendProperties, LenProperties, ElementOfSeq, Kinds
<1> HIDE DEF r
<1>2. \A i \in 1 .. Len(r) : i \in 1 .. Len(q) \/ i = Len(q) + 1
  BY <1>1
<1>3. Sorted(r)
  BY <1>1, <1>2, SMTT(30) DEF Ordered, Sorted, Within
<1>4. Within(r, h, d, n)
  BY <1>1, <1>2 DEF Ordered, Within
<1>5. Covered(r, d, n)
  <2> SUFFICES ASSUME NEW m \in Nat, d < m, m < n
               PROVE  \E i \in 1 .. Len(r) : r[i].kind = "Final" /\ r[i].id = m
    BY DEF Covered
  <2>1. Covered(q, d, n)
    BY DEF Ordered
  <2>2. PICK i \in 1 .. Len(q) : q[i].kind = "Final" /\ q[i].id = m
    BY <2>1 DEF Covered
  <2>3. i \in 1 .. Len(r) /\ r[i] = q[i]
    BY <1>1
  <2> QED
    BY <2>2, <2>3
<1> QED
  BY <1>3, <1>4, <1>5 DEF Ordered, r

\* The final of the sentence being spoken joins the queue.
LEMMA FinalJoins ==
  ASSUME NEW q \in Seq(Events), NEW h \in Seq(Seq(Word)), NEW d \in Nat, NEW n \in Nat \ {0},
         Ordered(q, h, d, n), d < n, Len(h) = n - 1,
         NEW e \in Finals, e.id = n
  PROVE  Ordered(Append(q, e), Append(h, e.source), d, n + 1)
<1> DEFINE r == Append(q, e)
           g == Append(h, e.source)
<1>0. e.source \in Seq(Word) /\ e.kind = "Final"
  BY DEF Finals
<1>1. /\ Len(q) \in Nat /\ Len(r) = Len(q) + 1 /\ r[Len(q) + 1] = e
      /\ \A i \in 1 .. Len(q) : r[i] = q[i] /\ q[i] \in Events /\ q[i].id \in Nat
  BY AppendProperties, LenProperties, ElementOfSeq, Kinds DEF Events
<1>2. g[n] = e.source /\ \A i \in 1 .. n - 1 : g[i] = h[i]
  BY <1>0, AppendProperties
<1> HIDE DEF r, g
<1>3. \A i \in 1 .. Len(r) : i \in 1 .. Len(q) \/ i = Len(q) + 1
  BY <1>1
<1>4. Sorted(r)
  <2>1. ASSUME NEW i \in 1 .. Len(r), NEW j \in 1 .. Len(r), i < j
        PROVE  r[i].id <= r[j].id /\ (r[i].kind = "Final" => r[i].id < r[j].id)
    <3>1. i \in 1 .. Len(q) /\ r[i] = q[i] /\ Sorted(q) /\ Within(q, h, d, n)
      BY <1>1, <1>3, <2>1 DEF Ordered
    <3>2. q[i].id <= n /\ (q[i].kind = "Final" => q[i].id < n)
      BY <3>1 DEF Within
    <3>3. CASE j = Len(q) + 1
      BY <1>1, <3>1, <3>2, <3>3
    <3>4. CASE j \in 1 .. Len(q)
      BY <1>1, <2>1, <3>1, <3>4 DEF Sorted
    <3> QED
      BY <1>3, <3>3, <3>4
  <2> QED
    BY <2>1 DEF Sorted
<1>5. Within(r, g, d, n + 1)
  <2>1. ASSUME NEW i \in 1 .. Len(q)
        PROVE  /\ d < r[i].id /\ r[i].id <= n + 1
               /\ r[i].kind = "Final" => r[i].id < n + 1 /\ r[i].source = g[r[i].id]
    <3>1. r[i] = q[i] /\ q[i].id \in Nat /\ d < q[i].id /\ q[i].id <= n
      BY <1>1 DEF Ordered, Within
    <3>2. ASSUME q[i].kind = "Final" PROVE q[i].source = g[q[i].id]
      <4>1. q[i].id < n /\ q[i].source = h[q[i].id]
        BY <3>2 DEF Ordered, Within
      <4>2. q[i].id \in 1 .. n - 1
        BY <3>1, <4>1
      <4> QED
        BY <1>2, <4>1, <4>2
    <3> QED
      BY <3>1, <3>2
  <2>2. /\ d < r[Len(q) + 1].id /\ r[Len(q) + 1].id <= n + 1
        /\ r[Len(q) + 1].id < n + 1 /\ r[Len(q) + 1].source = g[r[Len(q) + 1].id]
    BY <1>1, <1>2
  <2> QED
    BY <1>3, <2>1, <2>2 DEF Within
<1>6. Covered(r, d, n + 1)
  <2> SUFFICES ASSUME NEW m \in Nat, d < m, m < n + 1
               PROVE  \E i \in 1 .. Len(r) : r[i].kind = "Final" /\ r[i].id = m
    BY DEF Covered
  <2>1. CASE m = n
    BY <1>0, <1>1, <2>1, Len(q) + 1 \in 1 .. Len(q) + 1
  <2>2. CASE m # n
    <3>1. Covered(q, d, n) /\ m < n
      BY <2>2 DEF Ordered
    <3>2. PICK i \in 1 .. Len(q) : q[i].kind = "Final" /\ q[i].id = m
      BY <3>1 DEF Covered
    <3>3. i \in 1 .. Len(r) /\ r[i] = q[i]
      BY <1>1
    <3> QED
      BY <3>2, <3>3
  <2> QED
    BY <2>1, <2>2
<1> QED
  BY <1>4, <1>5, <1>6 DEF Ordered, r, g

\* What nextWork leaves in the queue.
LEMMA RestIs ==
  ASSUME NEW q \in Seq(Events), NEW t \in 1 .. Len(q)
  PROVE  /\ Cut(q, t, Len(q)) \in Seq(Events)
         /\ IsCut(Cut(q, t, Len(q)), q, t, Len(q))
<1>1. t \in Nat /\ Len(q) \in Nat /\ t <= Len(q) /\ Len(q) <= Len(q)
  <2>1. Len(q) \in Nat
    BY LenProperties
  <2> QED
    BY <2>1
<1> QED
  BY <1>1, CutIs

\* The rest of the queue is in order, from any sentence that separates what
\* was taken from what was left.
LEMMA RestOrdered ==
  ASSUME NEW q \in Seq(Events), NEW h, NEW d \in Nat, NEW n \in Nat, Ordered(q, h, d, n),
         NEW t \in 1 .. Len(q), NEW D \in Nat, d <= D,
         \A i \in 1 .. Len(q) : t < i => D < q[i].id,
         \A i \in 1 .. Len(q) : i <= t /\ q[i].kind = "Final" => q[i].id <= D
  PROVE  Ordered(Cut(q, t, Len(q)), h, D, n)
<1>1. PICK r \in Seq(Events) : r = Cut(q, t, Len(q)) /\ IsCut(r, q, t, Len(q))
  BY RestIs, Zenon
<1>2. /\ Len(q) \in Nat /\ Len(r) = Len(q) - t
      /\ \A i \in 1 .. Len(r) : t + i \in 1 .. Len(q) /\ t < t + i /\ r[i] = q[t + i]
  <2>1. Len(q) \in Nat
    BY LenProperties
  <2> QED
    BY <1>1, <2>1 DEF IsCut
<1>3. Sorted(r)
  <2>1. ASSUME NEW i \in 1 .. Len(r), NEW j \in 1 .. Len(r), i < j
        PROVE  r[i].id <= r[j].id /\ (r[i].kind = "Final" => r[i].id < r[j].id)
    <3>1. PICK k \in 1 .. Len(q), l \in 1 .. Len(q) : k < l /\ r[i] = q[k] /\ r[j] = q[l]
      <4>1. t + i < t + j
        BY <2>1
      <4> QED
        BY <1>2, <4>1
    <3> QED
      BY <3>1 DEF Ordered, Sorted
  <2> QED
    BY <2>1 DEF Sorted
<1>4. Within(r, h, D, n)
  <2>1. ASSUME NEW i \in 1 .. Len(r)
        PROVE  /\ D < r[i].id /\ r[i].id <= n
               /\ r[i].kind = "Final" => r[i].id < n /\ r[i].source = h[r[i].id]
    <3>1. PICK k \in 1 .. Len(q) : t < k /\ r[i] = q[k]
      BY <1>2
    <3>2. Within(q, h, d, n)
      BY DEF Ordered
    <3>3. D < q[k].id
      BY <3>1
    <3> QED
      BY <3>1, <3>2, <3>3 DEF Within
  <2> QED
    BY <2>1 DEF Within
<1>5. Covered(r, D, n)
  <2> SUFFICES ASSUME NEW m \in Nat, D < m, m < n
               PROVE  \E i \in 1 .. Len(r) : r[i].kind = "Final" /\ r[i].id = m
    BY DEF Covered
  <2>1. Covered(q, d, n) /\ d < m
    BY DEF Ordered
  <2>2. PICK k \in 1 .. Len(q) : q[k].kind = "Final" /\ q[k].id = m
    BY <2>1 DEF Covered
  <2>3. ~(k <= t)
    <3>1. k <= t => q[k].id <= D
      BY <2>2
    <3> QED
      BY <2>2, <3>1
  <2>4. k - t \in 1 .. Len(r) /\ t + (k - t) = k
    BY <1>2, <2>3
  <2>5. r[k - t] = q[k]
    BY <1>2, <2>4
  <2> QED
    BY <2>2, <2>4, <2>5
<1> QED
  BY <1>1, <1>3, <1>4, <1>5 DEF Ordered

\* What nextWork takes if it ends in a piece.
LEMMA TakenPiece ==
  ASSUME NEW q \in Seq(Events), q # <<>>, NEW h, NEW d \in Nat, NEW n \in Nat, Ordered(q, h, d, n),
         setup.drafts \in BOOLEAN, ~setup.drafts => q \in Seq(Finals),
         q[Taken(q)].kind = "Commit"
  PROVE  /\ setup.drafts
         /\ d < q[Taken(q)].id /\ q[Taken(q)].id <= n
         /\ Ordered(Cut(q, Taken(q), Len(q)), h, d, n)
         /\ \A i \in 1 .. Len(q) : Taken(q) < i => q[Taken(q)].id < q[i].id
         /\ \A i \in 1 .. Taken(q) : q[i].kind = "Commit" /\ q[i].id = q[Taken(q)].id
<1>1. PICK t \in 1 .. Len(q) : t = Taken(q)
  BY TakenIs
<1>2. Len(q) \in Nat /\ 1 \in 1 .. Len(q)
  <2>1. Len(q) \in Nat
    BY LenProperties
  <2> QED
    BY <2>1
<1>3. \A i \in 1 .. Len(q) : q[i] \in Events /\ q[i].id \in Nat /\ (q[i].kind = "Commit" \/ q[i].kind = "Final")
  BY ElementOfSeq, Kinds
<1>4. setup.drafts
  <2>1. q \in Seq(Finals) => q[t] \in Finals
    BY ElementOfSeq
  <2> QED
    BY <1>1, <2>1 DEF Finals
<1>5. q[1].kind = "Commit"
  BY <1>1, <1>2, <1>3, <1>4, TakenIs
<1>6. q[t].id = q[1].id /\ \A k \in 1 .. Len(q) : q[k].id = q[1].id => k <= t
  BY <1>1, <1>5, TakenIs
<1>7. \A i \in 1 .. Len(q) : t < i => q[t].id < q[i].id
  <2> SUFFICES ASSUME NEW i \in 1 .. Len(q), t < i PROVE q[t].id < q[i].id
    OBVIOUS
  <2>1. q[t].id <= q[i].id
    BY DEF Ordered, Sorted
  <2>2. q[i].id # q[1].id
    BY <1>2, <1>6
  <2> QED
    BY <1>3, <1>6, <2>1, <2>2
<1>8. \A i \in 1 .. t : q[i].kind = "Commit" /\ q[i].id = q[t].id
  <2> SUFFICES ASSUME NEW i \in 1 .. t, i # t PROVE q[i].kind = "Commit" /\ q[i].id = q[t].id
    BY <1>1
  <2>1. i \in 1 .. Len(q) /\ i < t
    BY <1>2
  <2>2. q[i].id <= q[t].id /\ (q[i].kind = "Final" => q[i].id < q[t].id)
    BY <2>1 DEF Ordered, Sorted
  <2>3. q[1].id <= q[i].id
    <3>1. i = 1 \/ 1 < i
      BY <1>2
    <3> QED
      BY <1>2, <1>3, <2>1, <3>1 DEF Ordered, Sorted
  <2> QED
    BY <1>2, <1>3, <1>6, <2>1, <2>2, <2>3
<1>9. \A i \in 1 .. Len(q) : d < q[i].id /\ q[i].id <= n
  BY DEF Ordered, Within
<1>10. Ordered(Cut(q, t, Len(q)), h, d, n)
  <2>1. \A i \in 1 .. Len(q) : i <= t /\ q[i].kind = "Final" => q[i].id <= d
    BY <1>2, <1>8
  <2> QED
    BY <1>9, <2>1, RestOrdered
<1> QED
  BY <1>1, <1>4, <1>7, <1>8, <1>9, <1>10

\* What nextWork takes if it ends in a final.
LEMMA TakenFinal ==
  ASSUME NEW q \in Seq(Events), q # <<>>, NEW h \in Seq(Seq(Word)), NEW d \in Nat, NEW n \in Nat \ {0},
         Ordered(q, h, d, n), Len(h) = n - 1,
         setup.drafts \in BOOLEAN, ~setup.drafts => q \in Seq(Finals) /\ InStep(q, d),
         q[Taken(q)].kind = "Final"
  PROVE  /\ d < q[Taken(q)].id /\ q[Taken(q)].id < n
         /\ Merged(q).source = FlattenSeq(Cut(h, d, q[Taken(q)].id))
         /\ Ordered(Cut(q, Taken(q), Len(q)), h, q[Taken(q)].id, n)
         /\ ~setup.drafts => InStep(Cut(q, Taken(q), Len(q)), q[Taken(q)].id)
<1>1. PICK t \in 1 .. Len(q) : t = Taken(q)
  BY TakenIs
<1>2. Len(q) \in Nat /\ 1 \in 1 .. Len(q)
  <2>1. Len(q) \in Nat
    BY LenProperties
  <2> QED
    BY <2>1
<1>3. \A i \in 1 .. Len(q) : q[i] \in Events /\ q[i].id \in Nat
  BY ElementOfSeq, Kinds
<1>4. PICK m \in Nat : m = q[t].id /\ d < m /\ m < n /\ q[t].source = h[m]
  <2>1. Within(q, h, d, n)
    BY DEF Ordered
  <2>2. d < q[t].id /\ q[t].id < n /\ q[t].source = h[q[t].id]
    BY <1>1, <2>1 DEF Within
  <2> QED
    BY <1>3, <2>2
<1>5. Ordered(Cut(q, t, Len(q)), h, m, n)
  <2>1. \A i \in 1 .. Len(q) : t < i => m < q[i].id
    BY <1>1, <1>4 DEF Ordered, Sorted
  <2>2. ASSUME NEW i \in 1 .. Len(q), i <= t PROVE q[i].id <= m
    <3>1. i = t \/ i < t
      BY <2>2
    <3> QED
      BY <1>3, <1>4, <3>1 DEF Ordered, Sorted
  <2>3. d <= m /\ \A i \in 1 .. Len(q) : i <= t /\ q[i].kind = "Final" => q[i].id <= m
    BY <1>4, <2>2
  <2> QED
    BY <2>1, <2>3, RestOrdered
<1>6. ~setup.drafts => InStep(Cut(q, t, Len(q)), m)
  <2> SUFFICES ASSUME ~setup.drafts PROVE InStep(Cut(q, t, Len(q)), m)
    OBVIOUS
  <2>1. PICK r : r = Cut(q, t, Len(q)) /\ IsCut(r, q, t, Len(q))
    BY RestIs, Zenon
  <2>2. m = d + t /\ \A i \in 1 .. Len(q) : q[i].id = d + i
    BY <1>4 DEF InStep
  <2>3. ASSUME NEW i \in 1 .. Len(r) PROVE r[i].id = m + i
    <3>1. i \in 1 .. Len(q) - t
      BY <2>1, <2>3 DEF IsCut
    <3>2. r[i] = q[t + i] /\ t + i \in 1 .. Len(q)
      BY <1>2, <2>1, <3>1 DEF IsCut
    <3>3. q[t + i].id = d + (t + i)
      BY <2>2, <3>2
    <3>4. d + (t + i) = m + i
      BY <1>2, <2>2, <3>1
    <3> QED
      BY <3>2, <3>3, <3>4
  <2> QED
    BY <2>1, <2>3 DEF InStep
<1>7. Merged(q).source = FlattenSeq(Cut(h, d, m))
  <2>1. q[t] \in Finals
    BY <1>1, <1>3, Kinds
  <2>2. CASE setup.drafts \/ t = 1
    <3>1. Merged(q).source = q[t].source
      <4>1. CASE q[1].kind = "Commit"
        <5>1. PICK x : Merged(q) = [q[t] EXCEPT !.delta = x]
          BY <1>1, <4>1, Zenon DEF Merged
        <5> QED
          BY <2>1, <5>1 DEF Finals
      <4>2. CASE q[1].kind # "Commit"
        <5>1. t = 1
          BY <1>1, <2>2, <4>2, TakenIs
        <5>2. Merged(q) = q[t]
          BY <1>1, <2>1, <4>2, <5>1 DEF Merged
        <5> QED
          BY <5>2
      <4> QED
        BY <4>1, <4>2
    <3>2. q[1].id = m
      <4>1. q[1].kind = "Commit" => q[t].id = q[1].id
        BY <1>1, TakenIs
      <4>2. q[1].kind # "Commit" => t = 1
        BY <1>1, <2>2, TakenIs
      <4> QED
        BY <1>4, <4>1, <4>2
    <3>3. m = d + 1
      <4> SUFFICES ASSUME d + 1 < m PROVE FALSE
        BY <1>4
      <4>1. d + 1 \in Nat /\ d < d + 1 /\ d + 1 < n
        BY <1>4
      <4>2. PICK i \in 1 .. Len(q) : q[i].id = d + 1
        BY <4>1 DEF Ordered, Covered
      <4>3. q[1].id <= q[i].id
        <5>1. i = 1 \/ 1 < i
          BY <1>2
        <5> QED
          BY <1>2, <1>3, <5>1 DEF Ordered, Sorted
      <4> QED
        BY <3>2, <4>2, <4>3
    <3> QED
      BY <1>4, <3>1, <3>3, CutOne
  <2>3. CASE ~setup.drafts /\ t # 1
    <3>1. q \in Seq(Finals) /\ \A i \in 1 .. Len(q) : q[i].id = d + i
      BY <2>3 DEF InStep
    <3>2. PICK u \in Seq(Seq(Word)) : u = [k \in 1 .. t |-> q[k].source]
      <4>1. t \in 0 .. Len(q)
        BY <1>2
      <4> QED
        BY <3>1, <4>1, RunOf
    <3>3. Merged(q).source = FlattenSeq(u)
      <4>1. q[1].kind # "Commit"
        <5>1. q[1] \in Finals
          BY <1>2, <3>1, ElementOfSeq
        <5> QED
          BY <5>1 DEF Finals
      <4>2. Merged(q) = Final(q[t].id, FlattenSeq(u), FlattenSeq(u), FALSE)
        BY <1>1, <2>1, <2>3, <3>2, <4>1 DEF Merged, Finals
      <4> QED
        BY <4>2 DEF Final
    <3>4. m = d + t /\ m <= Len(h)
      BY <1>4, <3>1
    <3>5. PICK v \in Seq(Seq(Word)) : v = Cut(h, d, m) /\ IsCut(v, h, d, m)
      <4>1. d <= m
        BY <1>4
      <4> QED
        BY <3>4, <4>1, CutIs, Zenon
    <3>6. Len(u) = t /\ Len(v) = t /\ t \in Nat
      BY <1>2, <3>2, <3>4, <3>5 DEF IsCut
    <3>7. ASSUME NEW i \in 1 .. t PROVE u[i] = v[i]
      <4>1. u[i] = q[i].source /\ i \in 1 .. Len(q)
        BY <1>2, <3>2
      <4>2. q[i] \in Finals /\ q[i].id = d + i
        BY <3>1, <4>1, ElementOfSeq
      <4>3. q[i].source = h[d + i]
        BY <4>1, <4>2 DEF Ordered, Within, Finals
      <4>4. v[i] = h[d + i]
        BY <3>4, <3>5, <3>6 DEF IsCut
      <4> QED
        BY <4>1, <4>3, <4>4
    <3>8. u = v
      BY <3>6, <3>7, SeqEqual
    <3> QED
      BY <3>3, <3>5, <3>8
  <2> QED
    BY <2>2, <2>3
<1> QED
  BY <1>1, <1>4, <1>5, <1>6, <1>7

-----------------------------------------------------------------------------
(* The order of the work: from what was heard, through the queue and the   *)
(* event in hand, to the captions.                                         *)

Live == pc \notin Over

\* The event in hand is not dealt with yet.
Pending == pc \in {"enter", "append", "show", "resolve"}
OnFinalWork == Pending /\ work.kind = "Final"
OnPiece == Pending /\ work.kind = "Commit"

\* The last final that is not in the queue.
Done == IF OnFinalWork THEN work.id ELSE resolved

QueueInOrder ==
  /\ Ordered(queue, heard, Done, inputSentenceId)
  /\ Done < inputSentenceId
  /\ ~setup.drafts => InStep(queue, Done)
  /\ OnFinalWork => resolved < work.id /\ work.source = FlattenSeq(Cut(heard, resolved, work.id))
  /\ OnPiece => /\ setup.drafts
                /\ resolved < work.id /\ work.id <= inputSentenceId
                /\ \A i \in 1 .. Len(queue) : work.id <= queue[i].id

Order ==
  /\ Len(heard) = inputSentenceId - 1 /\ resolved < inputSentenceId
  /\ \A n \in 1 .. Len(heard) : heard[n] # <<>>
  /\ CaptionsCoverTheFinals
  /\ pc = "reset" => resolved = work.id
  /\ Live => QueueInOrder

\* It holds at first.
LEMMA InitOrder ==
  Init => Order
<1> SUFFICES ASSUME Init PROVE Order
  OBVIOUS
<1>1. /\ queue = <<>> /\ heard = <<>> /\ captions = <<>> /\ inputSentenceId = 1 /\ resolved = 0
      /\ pc = "take"
  BY DEF Init
<1>2. Len(queue) = 0 /\ Len(heard) = 0 /\ DOMAIN captions = {}
  BY <1>1, EmptySeq
<1>3. CaptionsCoverTheFinals
  <2>1. [n \in DOMAIN captions |-> captions[n].source] = <<>>
    BY <1>2
  <2>2. SubSeq(heard, 1, resolved) = <<>>
    BY <1>1, SubSeqEmpty
  <2> QED
    BY <2>1, <2>2 DEF CaptionsCoverTheFinals
<1>4. Done = 0 /\ ~OnFinalWork /\ ~OnPiece
  BY <1>1 DEF Done, OnFinalWork, OnPiece, Pending
<1>5. Ordered(queue, heard, Done, inputSentenceId) /\ InStep(queue, Done)
  BY <1>1, <1>2, <1>4 DEF Ordered, Sorted, Within, Covered, InStep
<1> QED
  BY <1>1, <1>2, <1>3, <1>4, <1>5 DEF Order, QueueInOrder

\* A step that leaves the queue, what was heard and the captions alone, and
\* the event in hand what it is.
LEMMA QuietOrder ==
  ASSUME Order, UNCHANGED <<setup, inputSentenceId, heard, queue, resolved, captions>>,
         Live' => Live,
         Live' /\ OnFinalWork => OnFinalWork',
         OnFinalWork' => OnFinalWork /\ work'.id = work.id /\ work'.source = work.source,
         OnPiece' => OnPiece /\ work'.id = work.id,
         pc' = "reset" => pc = "reset" /\ work'.id = work.id
  PROVE  Order'
<1>1. CaptionsCoverTheFinals'
  BY DEF Order, CaptionsCoverTheFinals
<1>2. ASSUME Live' PROVE QueueInOrder'
  <2>1. QueueInOrder /\ Done' = Done
    BY <1>2 DEF Order, Done
  <2>2. CASE OnFinalWork
    BY <1>2, <2>1, <2>2 DEF QueueInOrder, OnPiece, OnFinalWork
  <2>3. CASE ~OnFinalWork
    BY <1>2, <2>1, <2>3 DEF QueueInOrder
  <2> QED
    BY <2>2, <2>3
<1> QED
  BY <1>1, <1>2 DEF Order

\* The caption of the final in hand.
LEMMA CaptionOrder ==
  ASSUME Typed, Order, OnFinalWork, NEW e, e.source = work.source, e \in Captions,
         UNCHANGED <<setup, inputSentenceId, heard, queue, work>>,
         resolved' = work.id, captions' = Append(captions, e), pc' = "reset"
  PROVE  Order'
<1>1. Live /\ Live' /\ ~OnFinalWork' /\ ~OnPiece' /\ QueueInOrder
  BY DEF Order, OnFinalWork, OnPiece, Pending, Live, Over
<1>2. Done' = Done /\ Done = work.id
  BY <1>1 DEF Done
<1>3. QueueInOrder'
  BY <1>1, <1>2 DEF QueueInOrder
<1>4. /\ resolved \in Nat /\ work.id \in Nat /\ inputSentenceId \in Nat \ {0}
      /\ resolved < work.id /\ work.id < inputSentenceId /\ work.id <= Len(heard)
      /\ work.source = FlattenSeq(Cut(heard, resolved, work.id))
  <2>1. resolved \in Nat /\ inputSentenceId \in Nat \ {0} /\ work \in Events
    BY DEF Typed, OnFinalWork, Pending, Events
  <2>2. work.id \in Nat
    BY <2>1, Kinds
  <2> QED
    BY <1>1, <1>2, <2>1, <2>2 DEF QueueInOrder, Order
<1>5. CaptionsCoverTheFinals'
  <2>1. /\ captions \in Seq(Captions) /\ heard \in Seq(Seq(Word)) /\ Len(captions) \in Nat
        /\ captions' \in Seq(Captions) /\ Len(captions') = Len(captions) + 1
        /\ captions'[Len(captions) + 1] = e
        /\ \A n \in 1 .. Len(captions) : captions'[n] = captions[n]
    <3>1. captions \in Seq(Captions) /\ heard \in Seq(Seq(Word)) /\ Len(captions) \in Nat
      BY LenProperties DEF Typed
    <3> QED
      BY <3>1, AppendProperties
  <2>2. \A n \in 1 .. Len(captions) : captions[n].source \in Seq(Word)
    <3>1. \A n \in 1 .. Len(captions) : captions[n] \in Captions
      BY <2>1, ElementOfSeq
    <3>2. \A c \in Captions : c.source \in Seq(Word)
      BY DEF Captions
    <3> QED
      BY <3>1, <3>2
  <2>3. DOMAIN captions = 1 .. Len(captions) /\ DOMAIN captions' = 1 .. Len(captions) + 1
    <3>1. DOMAIN captions' = 1 .. Len(captions')
      BY <2>1, LenProperties
    <3> QED
      BY <2>1, <3>1, LenProperties
  <2>4. e.source \in Seq(Word)
    BY DEF Captions
  <2>5. PICK s \in Seq(Seq(Word)) : s = [n \in DOMAIN captions |-> captions[n].source]
    <3>1. [n \in 1 .. Len(captions) |-> captions[n].source] \in [1 .. Len(captions) -> Seq(Word)]
      BY <2>2
    <3>2. [n \in 1 .. Len(captions) |-> captions[n].source] \in Seq(Seq(Word))
      BY <2>1, <3>1
    <3> QED
      BY <2>3, <3>2
  <2>6. PICK t \in Seq(Seq(Word)) : t = [n \in DOMAIN captions' |-> captions'[n].source]
    <3>1. \A n \in 1 .. Len(captions) + 1 : captions'[n].source \in Seq(Word)
      <4>1. \A n \in 1 .. Len(captions) + 1 : n \in 1 .. Len(captions) \/ n = Len(captions) + 1
        BY <2>1
      <4> QED
        BY <2>1, <2>2, <2>4, <4>1
    <3>2. [n \in 1 .. Len(captions) + 1 |-> captions'[n].source]
             \in [1 .. Len(captions) + 1 -> Seq(Word)]
      BY <3>1
    <3>3. [n \in 1 .. Len(captions) + 1 |-> captions'[n].source] \in Seq(Seq(Word))
      <4>1. Len(captions) + 1 \in Nat
        BY <2>1
      <4> QED
        BY <3>2, <4>1
    <3> QED
      BY <2>3, <3>3
  <2>7. t = Append(s, e.source)
    <3>1. Len(s) = Len(captions) /\ Len(t) = Len(captions) + 1
      BY <2>1, <2>3, <2>5, <2>6
    <3>2. PICK u \in Seq(Seq(Word)) : /\ u = Append(s, e.source) /\ Len(u) = Len(s) + 1
                                     /\ u[Len(s) + 1] = e.source
                                     /\ \A n \in 1 .. Len(s) : u[n] = s[n]
      <4> DEFINE u == Append(s, e.source)
      <4>1. u \in Seq(Seq(Word)) /\ Len(u) = Len(s) + 1 /\ u[Len(s) + 1] = e.source
            /\ \A n \in 1 .. Len(s) : u[n] = s[n]
        BY <2>4, AppendProperties
      <4> HIDE DEF u
      <4> QED
        BY <4>1 DEF u
    <3>3. ASSUME NEW n \in 1 .. Len(captions) + 1 PROVE t[n] = u[n]
      <4>1. CASE n = Len(captions) + 1
        <5>1. t[n] = captions'[n].source
          BY <2>3, <2>6
        <5>2. captions'[n] = e /\ u[n] = e.source
          BY <2>1, <3>1, <3>2, <4>1
        <5> QED
          BY <5>1, <5>2
      <4>2. CASE n # Len(captions) + 1
        <5>1. n \in 1 .. Len(captions)
          BY <2>1, <4>2
        <5>2. s[n] = captions[n].source /\ t[n] = captions'[n].source /\ u[n] = s[n]
          BY <2>3, <2>5, <2>6, <3>1, <3>2, <5>1
        <5> QED
          BY <2>1, <5>1, <5>2
      <4> QED
        BY <4>1, <4>2
    <3> QED
      BY <3>1, <3>2, <3>3, SeqEqual
  <2>8. FlattenSeq(t) = FlattenSeq(s) \o work.source
    BY <2>4, <2>7, FlattenAppend
  <2>9. FlattenSeq(s) = FlattenSeq(Cut(heard, 0, resolved))
    <3>1. 0 + 1 = 1
      OBVIOUS
    <3> QED
      BY <2>5, <3>1 DEF Order, CaptionsCoverTheFinals, Cut
  <2>10. FlattenSeq(Cut(heard, 0, work.id)) = FlattenSeq(Cut(heard, 0, resolved)) \o work.source
    <3>1. /\ Cut(heard, 0, resolved) \in Seq(Seq(Word)) /\ Cut(heard, resolved, work.id) \in Seq(Seq(Word))
          /\ Cut(heard, 0, resolved) \o Cut(heard, resolved, work.id) = Cut(heard, 0, work.id)
      <4>1. PICK h \in Seq(Seq(Word)) : h = heard
        BY <2>1
      <4>2. PICK z \in Nat, a \in Nat, b \in Nat : z = 0 /\ a = resolved /\ b = work.id
        BY <1>4
      <4>3. Len(h) \in Nat
        BY LenProperties
      <4>4. z <= a /\ a <= b /\ a <= Len(h) /\ b <= Len(h)
        BY <1>4, <4>1, <4>2, <4>3
      <4>5. Cut(h, z, a) \in Seq(Seq(Word)) /\ Cut(h, a, b) \in Seq(Seq(Word))
        BY <4>4, CutIs, Zenon
      <4>6. Cut(h, z, a) \o Cut(h, a, b) = Cut(h, z, b)
        BY <4>4, CutsJoin
      <4> QED
        BY <4>1, <4>2, <4>5, <4>6
    <3> QED
      BY <1>4, <3>1, FlattenConcat
  <2>11. FlattenSeq(t) = FlattenSeq(Cut(heard, 0, work.id))
    BY <2>8, <2>9, <2>10
  <2>12. Cut(heard, 0, work.id) = SubSeq(heard', 1, resolved')
    <3>1. 0 + 1 = 1
      OBVIOUS
    <3> QED
      BY <3>1 DEF Cut
  <2> QED
    BY <2>6, <2>11, <2>12 DEF CaptionsCoverTheFinals
<1> QED
  BY <1>1, <1>3, <1>4, <1>5 DEF Order

\* Without drafts the queue holds every final that is not dealt with, and
\* nothing else.
LEMMA InStepIsFull ==
  ASSUME NEW q \in Seq(Events), NEW h, NEW d \in Nat, NEW n \in Nat, d < n, Ordered(q, h, d, n),
         q \in Seq(Finals), InStep(q, d)
  PROVE  d + (Len(q) + 1) = n
<1>1. Len(q) \in Nat
  BY LenProperties
<1>2. d + Len(q) < n
  <2>1. CASE Len(q) = 0
    BY <2>1
  <2>2. CASE Len(q) # 0
    <3>1. Len(q) \in 1 .. Len(q)
      BY <1>1, <2>2
    <3>2. q[Len(q)] \in Finals
      BY <3>1, ElementOfSeq
    <3>3. q[Len(q)].id < n
      BY <3>1, <3>2 DEF Ordered, Within, Finals
    <3> QED
      BY <3>1, <3>3 DEF InStep
  <2> QED
    BY <2>1, <2>2
<1>3. ~(d + Len(q) + 1 < n)
  <2> SUFFICES ASSUME d + Len(q) + 1 < n PROVE FALSE
    OBVIOUS
  <2>1. PICK m \in Nat : m = d + Len(q) + 1 /\ d < m /\ m < n
    BY <1>1
  <2>2. PICK i \in 1 .. Len(q) : q[i].id = m
    BY <2>1 DEF Ordered, Covered
  <2> QED
    BY <1>1, <2>1, <2>2 DEF InStep
<1> QED
  BY <1>1, <1>2, <1>3

\* onPartial queues a piece of the sentence being spoken.
LEMMA OnPartialOrder ==
  ASSUME Typed, Order, NEW n \in 1 .. MaxWords, OnPartial(n)
  PROVE  Order'
<1>1. /\ UNCHANGED <<setup, inputSentenceId, heard, pc, work, resolved, captions>>
      /\ Live' = Live /\ OnFinalWork' = OnFinalWork /\ OnPiece' = OnPiece /\ Done' = Done
  BY DEF OnPartial, outputVars, Live, OnFinalWork, OnPiece, Pending, Done
<1>2. CASE UNCHANGED queue
  BY <1>1, <1>2, QuietOrder
<1>3. CASE queue' # queue
  <2>1. setup.drafts /\ queue \in Seq(Events) /\ Len(queue) \in Nat
    BY <1>3, LenProperties DEF OnPartial, Typed
  <2>2. PICK c \in (committed + 1) .. Min({n, previewSource}) :
           queue' = Append(queue, Commit(inputSentenceId,
                           Words(inputSentenceId, "heard", committed + 1, c)))
    BY <1>3 DEF OnPartial
  <2>3. PICK e \in Events : queue' = Append(queue, e) /\ e.kind = "Commit" /\ e.id = inputSentenceId
    <3>1. n \in Nat /\ previewSource \in Nat
      BY ConstantsAssumption DEF Typed
    <3>2. Min({n, previewSource}) \in Nat
      BY <3>1, MinOfTwo
    <3>3. c \in Nat /\ committed < c
      BY <3>2 DEF Typed
    <3>4. Commit(inputSentenceId, Words(inputSentenceId, "heard", committed + 1, c)) \in Commits
      BY <3>3, CommitTyped
    <3> QED
      BY <2>2, <3>4 DEF Events, Commit
  <2>4. ASSUME Live PROVE QueueInOrder'
    <3>1. QueueInOrder
      BY <2>4 DEF Order
    <3>2. Done \in Nat /\ inputSentenceId \in Nat
      <4>1. OnFinalWork => work \in Events
        BY DEF Typed, OnFinalWork, Pending, Events
      <4> QED
        BY <4>1, Kinds DEF Done, Typed
    <3>3. Ordered(queue', heard', Done', inputSentenceId')
      <4>1. Ordered(queue, heard, Done, inputSentenceId) /\ Done < inputSentenceId
        BY <3>1 DEF QueueInOrder
      <4>2. Ordered(Append(queue, e), heard, Done, inputSentenceId)
        BY <2>1, <2>3, <3>2, <4>1, CommitJoins
      <4> QED
        BY <1>1, <2>3, <4>2
    <3>4. ASSUME OnPiece PROVE \A i \in 1 .. Len(queue') : work.id <= queue'[i].id
      <4>1. /\ Len(queue') = Len(queue) + 1 /\ queue'[Len(queue) + 1] = e
            /\ \A i \in 1 .. Len(queue) : queue'[i] = queue[i]
        BY <2>1, <2>3, AppendProperties
      <4>2. work.id <= inputSentenceId /\ \A i \in 1 .. Len(queue) : work.id <= queue[i].id
        BY <3>1, <3>4 DEF QueueInOrder
      <4>3. \A i \in 1 .. Len(queue') : i \in 1 .. Len(queue) \/ i = Len(queue) + 1
        BY <2>1, <4>1
      <4> QED
        BY <2>3, <4>1, <4>2, <4>3
    <3> QED
      BY <1>1, <2>1, <3>1, <3>3, <3>4 DEF QueueInOrder
  <2>5. CaptionsCoverTheFinals'
    BY <1>1 DEF Order, CaptionsCoverTheFinals
  <2> QED
    BY <1>1, <2>4, <2>5 DEF Order
<1> QED
  BY <1>2, <1>3

\* onFinal queues the final of that sentence.
LEMMA OnFinalOrder ==
  ASSUME Typed, Order, NEW c \in Callers, NEW n \in 1 .. MaxWords, OnFinal(c, n)
  PROVE  Order'
<1>1. /\ UNCHANGED <<setup, pc, work, resolved, captions>> /\ inputSentenceId' = inputSentenceId + 1
      /\ Live' = Live /\ OnFinalWork' = OnFinalWork /\ OnPiece' = OnPiece /\ Done' = Done
  BY DEF OnFinal, outputVars, Live, OnFinalWork, OnPiece, Pending, Done
<1>2. PICK diverged, source :
         /\ diverged \in BOOLEAN
         /\ source = Words(inputSentenceId, IF diverged THEN "revised" ELSE "heard", 1, n)
         /\ IF diverged THEN committed > 0 ELSE committed <= n
         /\ heard' = Append(heard, source)
         /\ queue' = Append(queue, Final(inputSentenceId, source,
                           IF diverged THEN <<>> ELSE SubSeq(source, committed + 1, n), diverged))
  BY DEF OnFinal
<1>3. n \in Nat \ {0}
  BY ConstantsAssumption
<1>4. PICK e \in Finals : /\ queue' = Append(queue, e) /\ e.id = inputSentenceId /\ e.source = source
                         /\ source \in Seq(Word) /\ Len(source) = n
  BY <1>2, <1>3, FinalTyped DEF Final
<1>5. /\ queue \in Seq(Events) /\ Len(queue) \in Nat /\ heard \in Seq(Seq(Word)) /\ Len(heard) \in Nat
      /\ inputSentenceId \in Nat \ {0} /\ resolved \in Nat /\ e \in Events
  BY <1>4, LenProperties DEF Typed, Events
<1>6. /\ Len(heard') = Len(heard) + 1 /\ heard'[Len(heard) + 1] = source
      /\ \A i \in 1 .. Len(heard) : heard'[i] = heard[i]
  BY <1>2, <1>4, <1>5, AppendProperties
<1>7. \A i \in 1 .. Len(heard') : heard'[i] # <<>>
  <2>1. source # <<>>
    BY <1>3, <1>4, EmptySeq
  <2>2. \A i \in 1 .. Len(heard') : i \in 1 .. Len(heard) \/ i = Len(heard) + 1
    BY <1>5, <1>6
  <2> QED
    BY <1>6, <2>1, <2>2 DEF Order
<1>8. CaptionsCoverTheFinals'
  <2>1. Cut(heard', 0, resolved) = Cut(heard, 0, resolved)
    <3>1. PICK z \in Nat, a \in Nat : z = 0 /\ a = resolved /\ z <= a /\ a <= Len(heard)
      <4>1. resolved <= Len(heard)
        BY <1>5 DEF Order
      <4> QED
        BY <1>5, <4>1
    <3>2. Cut(Append(heard, source), z, a) = Cut(heard, z, a)
      BY <1>4, <1>5, <3>1, CutOfAppend
    <3> QED
      BY <1>2, <3>1, <3>2
  <2>2. Cut(heard, 0, resolved) = SubSeq(heard, 1, resolved) /\ Cut(heard', 0, resolved) = SubSeq(heard', 1, resolved)
    <3>1. 0 + 1 = 1
      OBVIOUS
    <3> QED
      BY <3>1 DEF Cut
  <2> QED
    BY <1>1, <2>1, <2>2 DEF Order, CaptionsCoverTheFinals
<1>9. ASSUME Live PROVE QueueInOrder'
  <2>1. QueueInOrder
    BY <1>9 DEF Order
  <2>2. Done \in Nat /\ (OnFinalWork => work.id \in Nat)
    <3>1. OnFinalWork => work \in Events
      BY DEF Typed, OnFinalWork, Pending, Events
    <3> QED
      BY <1>5, <3>1, Kinds DEF Done
  <2>3. /\ Ordered(queue, heard, Done, inputSentenceId) /\ Done < inputSentenceId
        /\ Len(heard) = inputSentenceId - 1
    BY <2>1 DEF QueueInOrder, Order
  <2>4. Ordered(queue', heard', Done', inputSentenceId')
    <3>1. Ordered(Append(queue, e), Append(heard, e.source), Done, inputSentenceId + 1)
      BY <1>4, <1>5, <2>2, <2>3, FinalJoins
    <3> QED
      BY <1>1, <1>2, <1>4, <3>1
  <2>5. /\ Len(queue') = Len(queue) + 1 /\ queue'[Len(queue) + 1] = e
        /\ \A i \in 1 .. Len(queue) : queue'[i] = queue[i]
    BY <1>4, <1>5, AppendProperties
  <2>6. \A i \in 1 .. Len(queue') : i \in 1 .. Len(queue) \/ i = Len(queue) + 1
    BY <1>5, <2>5
  <2>7. ASSUME ~setup.drafts PROVE InStep(queue', Done')
    <3>1. InStep(queue, Done) /\ queue \in Seq(Finals)
      BY <2>1, <2>7 DEF QueueInOrder, Typed
    <3>2. Done + (Len(queue) + 1) = inputSentenceId
      BY <1>5, <2>2, <2>3, <3>1, InStepIsFull
    <3> QED
      BY <1>1, <1>4, <2>5, <2>6, <3>1, <3>2 DEF InStep
  <2>8. ASSUME OnPiece PROVE \A i \in 1 .. Len(queue') : work.id <= queue'[i].id
    <3>1. work.id <= inputSentenceId /\ \A i \in 1 .. Len(queue) : work.id <= queue[i].id
      BY <2>1, <2>8 DEF QueueInOrder
    <3> QED
      BY <1>4, <2>5, <2>6, <3>1
  <2>9. ASSUME OnFinalWork PROVE work.source = FlattenSeq(Cut(heard', resolved, work.id))
    <3>1. /\ resolved < work.id /\ work.source = FlattenSeq(Cut(heard, resolved, work.id))
          /\ work.id < inputSentenceId
      BY <2>1, <2>9 DEF QueueInOrder, Done
    <3>2. resolved <= work.id /\ work.id <= Len(heard)
      BY <1>5, <2>2, <2>3, <2>9, <3>1
    <3>3. Cut(Append(heard, source), resolved, work.id) = Cut(heard, resolved, work.id)
      BY <1>4, <1>5, <2>2, <2>9, <3>2, CutOfAppend
    <3> QED
      BY <1>2, <3>1, <3>3
  <2>10. OnPiece => work.id <= inputSentenceId + 1
    <3>1. OnPiece => work \in Events
      BY DEF Typed, OnPiece, Pending, Events
    <3> QED
      BY <1>5, <2>1, <3>1, Kinds DEF QueueInOrder
  <2>11. Done < inputSentenceId + 1
    BY <1>5, <2>2, <2>3
  <2> QED
    BY <1>1, <2>1, <2>4, <2>7, <2>8, <2>9, <2>10, <2>11 DEF QueueInOrder
<1> QED
  BY <1>1, <1>5, <1>6, <1>7, <1>8, <1>9 DEF Order

\* nextWork takes the first sentence with anything queued.
LEMMA TakeOrder ==
  ASSUME Typed, Order, TakeWork
  PROVE  Order'
<1>1. /\ UNCHANGED <<setup, inputSentenceId, heard, resolved, captions>>
      /\ pc = "take" /\ Live /\ ~OnFinalWork /\ ~OnPiece /\ Done = resolved
  BY DEF TakeWork, inputVars, outputVars, Live, Over, OnFinalWork, OnPiece, Pending, Done
<1>2. CASE queue = <<>>
  <2>1. pc' = "empty" /\ UNCHANGED <<queue, work>>
    BY <1>2 DEF TakeWork
  <2>2. ~OnFinalWork' /\ ~OnPiece'
    BY <2>1 DEF OnFinalWork, OnPiece, Pending
  <2> QED
    BY <1>1, <2>1, <2>2, QuietOrder
<1>3. CASE queue # <<>>
  <2>1. /\ pc' = "enter" /\ work' = Merged(queue)
        /\ queue' = Cut(queue, Taken(queue), Len(queue))
    BY <1>3 DEF TakeWork, Cut
  <2>2. /\ queue \in Seq(Events) /\ setup.drafts \in BOOLEAN /\ (~setup.drafts => queue \in Seq(Finals))
        /\ heard \in Seq(Seq(Word)) /\ inputSentenceId \in Nat \ {0} /\ resolved \in Nat
    BY DEF Typed
  <2>3. PICK t \in 1 .. Len(queue) : t = Taken(queue)
    BY <1>3, <2>2, TakenIs
  <2>4. work' \in Events /\ work'.kind = queue[t].kind /\ work'.id = queue[t].id
    BY <1>3, <2>1, <2>2, <2>3, MergedIs
  <2>5. /\ Ordered(queue, heard, resolved, inputSentenceId) /\ resolved < inputSentenceId
        /\ Len(heard) = inputSentenceId - 1 /\ (~setup.drafts => InStep(queue, resolved))
    BY <1>1 DEF Order, QueueInOrder
  <2>6. CaptionsCoverTheFinals'
    BY <1>1 DEF Order, CaptionsCoverTheFinals
  <2>7. CASE queue[t].kind = "Commit"
    <3>1. ~OnFinalWork' /\ OnPiece' /\ Done' = resolved
      BY <1>1, <2>1, <2>4, <2>7 DEF OnFinalWork, OnPiece, Pending, Done
    <3>2. /\ setup.drafts
          /\ resolved < queue[t].id /\ queue[t].id <= inputSentenceId
          /\ Ordered(queue', heard, resolved, inputSentenceId)
          /\ \A i \in 1 .. Len(queue) : t < i => queue[t].id < queue[i].id
      BY <1>3, <2>1, <2>2, <2>3, <2>5, <2>7, TakenPiece
    <3>3. ASSUME NEW i \in 1 .. Len(queue') PROVE work'.id <= queue'[i].id
      <4>1. IsCut(queue', queue, t, Len(queue)) /\ Len(queue) \in Nat
        BY <2>1, <2>2, <2>3, RestIs, LenProperties
      <4>2. t + i \in 1 .. Len(queue) /\ t < t + i /\ queue'[i] = queue[t + i]
        BY <4>1 DEF IsCut
      <4>3. queue[t].id < queue[t + i].id /\ queue[t + i].id \in Nat /\ queue[t].id \in Nat
        BY <2>2, <3>2, <4>2, ElementOfSeq, Kinds
      <4> QED
        BY <2>4, <4>2, <4>3
    <3> QED
      BY <1>1, <2>1, <2>4, <2>6, <3>1, <3>2, <3>3 DEF Order, QueueInOrder
  <2>8. CASE queue[t].kind # "Commit"
    <3>1. queue[t].kind = "Final"
      BY <2>2, <2>8, ElementOfSeq, Kinds
    <3>2. OnFinalWork' /\ ~OnPiece' /\ Done' = queue[t].id
      BY <2>1, <2>4, <3>1 DEF OnFinalWork, OnPiece, Pending, Done
    <3>3. /\ resolved < queue[t].id /\ queue[t].id < inputSentenceId
          /\ work'.source = FlattenSeq(Cut(heard, resolved, queue[t].id))
          /\ Ordered(queue', heard, queue[t].id, inputSentenceId)
          /\ ~setup.drafts => InStep(queue', queue[t].id)
      BY <1>3, <2>1, <2>2, <2>3, <2>5, <3>1, TakenFinal
    <3> QED
      BY <1>1, <2>1, <2>4, <2>6, <3>2, <3>3 DEF Order, QueueInOrder
  <2> QED
    BY <2>7, <2>8
<1> QED
  BY <1>2, <1>3

\* Every step keeps the order.
LEMMA NextOrder ==
  ASSUME Typed, Order, [Next]_vars
  PROVE  Order'
<1>1. ASSUME NEW n \in 1 .. MaxWords, OnPartial(n) PROVE Order'
  BY <1>1, OnPartialOrder
<1>2. ASSUME NEW c \in Callers, NEW n \in 1 .. MaxWords, OnFinal(c, n) PROVE Order'
  BY <1>2, OnFinalOrder
<1>3. CASE TakeWork
  BY <1>3, TakeOrder
<1>4. CASE Finish \/ (\E c \in Callers : Signal(c)) \/ Cancel \/ Preview \/ UNCHANGED vars
  <2>1. UNCHANGED <<setup, inputSentenceId, heard, queue, resolved, captions, pc, work>>
    BY <1>4 DEF Finish, Signal, Cancel, Preview, PreviewToken, PublishPreview, PreviewEnds, vars,
       inputVars, outputVars
  <2> QED
    BY <2>1, QuietOrder DEF Live, OnFinalWork, OnPiece, Pending
<1>5. CASE CheckFinished \/ StartPreview \/ Receive \/ PreviewWoken \/ PreviewOver
  <2>1. /\ UNCHANGED <<setup, inputSentenceId, heard, queue, resolved, captions>>
        /\ pc \in {"empty", "idle", "wait", "preview", "join"}
        /\ pc' \in {"ended", "idle", "wait", "preview", "join", "take"}
    BY <1>5 DEF CheckFinished, StartPreview, Receive, PreviewWoken, PreviewOver, inputVars, outputVars
  <2> QED
    BY <2>1, QuietOrder DEF Live, Over, OnFinalWork, OnPiece, Pending
<1>6. CASE Enter
  <2>1. /\ UNCHANGED <<setup, inputSentenceId, heard, queue, resolved, captions>>
        /\ pc = "enter" /\ pc' \in {"append", "resolve"}
    BY <1>6, EnterIs DEF Enter, inputVars, outputVars
  <2>2. work'.id = work.id /\ work'.kind = work.kind /\ (work.kind = "Final" => work'.source = work.source)
    <3>1. work \in Events /\ (work' = work \/ (work.kind = "Final" /\ work' = [work EXCEPT !.delta = work.source]))
      BY <1>6, EnterIs
    <3>2. ASSUME work.kind = "Final", work' = [work EXCEPT !.delta = work.source]
          PROVE  work'.id = work.id /\ work'.kind = work.kind /\ work'.source = work.source
      <4>1. work \in Finals
        BY <3>1, <3>2, Kinds
      <4> QED
        BY <3>2, <4>1 DEF Finals
    <3> QED
      BY <3>1, <3>2
  <2>3. pc' # "reset" /\ Live /\ Live'
    BY <2>1 DEF Live, Over
  <2>4. Pending /\ Pending'
    BY <2>1 DEF Pending
  <2> QED
    BY <2>1, <2>2, <2>3, <2>4, QuietOrder DEF OnFinalWork, OnPiece
<1>7. CASE Token \/ ShowPartial \/ AppendDone
  <2>1. /\ UNCHANGED <<setup, inputSentenceId, heard, queue, resolved, captions, work>>
        /\ pc \in {"append", "show"} /\ pc' \in {"append", "show", "resolve", "take"}
        /\ (pc' = "take" => work.kind # "Final")
    BY <1>7 DEF Token, ShowPartial, AppendDone, inputVars, outputVars
  <2> QED
    BY <2>1, QuietOrder DEF Live, Over, OnFinalWork, OnPiece, Pending
<1>8. CASE AppendFails /\ work.kind = "Commit"
  <2>1. /\ UNCHANGED <<setup, inputSentenceId, heard, queue, resolved, captions, work>>
        /\ pc = "append" /\ pc' = "take"
    BY <1>8 DEF AppendFails, inputVars, outputVars
  <2> QED
    BY <1>8, <2>1, QuietOrder DEF Live, Over, OnFinalWork, OnPiece, Pending
<1>9. CASE (AppendFails /\ work.kind = "Final") \/ Resolve
  <2>1. work \in Finals /\ OnFinalWork
    <3>1. pc \in {"append", "resolve"} /\ (pc = "append" => work.kind = "Final")
      BY <1>9 DEF AppendFails, Resolve
    <3>2. work \in Finals
      <4>1. pc = "append" => work \in Events
        BY DEF Typed
      <4> QED
        BY <3>1, <4>1, Kinds DEF Typed
    <3> QED
      BY <3>1, <3>2 DEF OnFinalWork, Pending, Finals
  <2>2. /\ UNCHANGED <<setup, inputSentenceId, heard, queue, work>>
        /\ resolved' = work.id /\ pc' = "reset"
    BY <1>9 DEF AppendFails, Resolve, inputVars
  <2>3. work.source \in Seq(Word)
    BY <2>1 DEF Finals
  <2>4. PICK e \in Captions : e.source = work.source /\ captions' = Append(captions, e)
    <3>1. CASE AppendFails
      <4>1. [source |-> work.source, ok |-> FALSE] \in Captions
        BY <2>3 DEF Captions
      <4> QED
        BY <1>9, <3>1, <4>1 DEF AppendFails, Resolve
    <3>2. CASE Resolve
      <4>1. PICK w \in Seq(Word) : w = IF segment = NoSegment THEN workerTranslation ELSE segment
        <5>1. segment \in Seq(Word) \cup {NoSegment} /\ workerTranslation \in Seq(Word)
          BY DEF Typed
        <5> QED
          BY <5>1, Zenon
      <4>2. [source |-> work.source, ok |-> TRUE, text |-> w] \in Captions
        BY <2>3 DEF Captions
      <4>3. captions' = Append(captions, [source |-> work.source, ok |-> TRUE, text |-> w])
        BY <3>2, <4>1 DEF Resolve
      <4> QED
        BY <4>2, <4>3
    <3> QED
      BY <1>9, <3>1, <3>2
  <2> QED
    BY <2>1, <2>2, <2>4, CaptionOrder
<1>10. CASE ResetSentence \/ Unwind
  <2>1. /\ UNCHANGED <<setup, inputSentenceId, heard, queue, resolved, captions>>
        /\ pc' \in {"crashed", "take", "cancelled"}
        /\ pc' = "take" => pc = "reset"
    BY <1>10 DEF ResetSentence, Unwind, inputVars, outputVars
  <2> QED
    BY <2>1, QuietOrder DEF Live, Over, OnFinalWork, OnPiece, Pending
<1> QED
  BY <1>1, <1>2, <1>3, <1>4, <1>5, <1>6, <1>7, <1>8, <1>9, <1>10, Zenon DEF Next, Input, Worker, AppendFails

\* The order holds in every state reached.
LEMMA OrderAlways ==
  Spec => [](Typed /\ Order)
<1>1. Typed /\ Order /\ [Next]_vars => (Typed /\ Order)'
  BY NextTyped, NextOrder
<1> QED
  BY <1>1, InitTyped, InitOrder, PTL DEF Spec

\* No final is lost, captioned twice, cut or moved by what nextWork merges,
\* whatever is queued while the worker works.
THEOREM CaptionsCover ==
  Spec => []CaptionsCoverTheFinals
<1>1. Order => CaptionsCoverTheFinals
  BY DEF Order
<1> QED
  BY <1>1, OrderAlways, PTL

-----------------------------------------------------------------------------
(* The sentence the worker is in.                                          *)

\* It is never ahead of its work.
Floor ==
  /\ workerSentenceId <= inputSentenceId
  /\ Live => \A i \in 1 .. Len(queue) : workerSentenceId <= queue[i].id
  /\ pc = "enter" => workerSentenceId <= work.id
  /\ pc \in {"append", "show", "resolve", "reset"} => workerSentenceId = work.id

\* What the floor rests on: the event in hand comes before the queue.
LEMMA WorkIsNext ==
  ASSUME Typed, Order, Live, pc \in Working
  PROVE  /\ work \in Events /\ work.id \in Nat \ {0} /\ work.id <= inputSentenceId
         /\ work.kind = "Final" => work.id < inputSentenceId
         /\ \A i \in 1 .. Len(queue) : work.id <= queue[i].id
         /\ work.kind = "Final" => \A i \in 1 .. Len(queue) : work.id + 1 <= queue[i].id
<1>1. work \in Events /\ work.id \in Nat \ {0} /\ inputSentenceId \in Nat /\ QueueInOrder
  <2>1. work \in Events
    BY DEF Typed, Working, Events
  <2> QED
    BY <2>1, Kinds DEF Order, Typed
<1>2. queue \in Seq(Events) /\ \A i \in 1 .. Len(queue) : queue[i].id \in Nat
  <2>1. queue \in Seq(Events)
    BY DEF Typed
  <2> QED
    BY <2>1, ElementOfSeq, Kinds
<1>3. Within(queue, heard, Done, inputSentenceId) /\ Done < inputSentenceId
  BY <1>1 DEF QueueInOrder, Ordered
<1>4. CASE work.kind = "Final"
  <2>1. Done = work.id
    BY <1>4 DEF Order, Done, OnFinalWork, Pending, Working
  <2>2. \A i \in 1 .. Len(queue) : work.id < queue[i].id
    BY <1>3, <2>1 DEF Within
  <2> QED
    BY <1>1, <1>2, <1>3, <2>1, <2>2
<1>5. CASE work.kind = "Commit"
  <2>1. OnPiece
    BY <1>5 DEF OnPiece, Pending, Working, Typed, Finals
  <2> QED
    BY <1>1, <1>5, <2>1 DEF QueueInOrder
<1> QED
  BY <1>1, <1>4, <1>5, Kinds

\* A step that leaves the queue and the worker's sentence alone.
LEMMA QuietFloor ==
  ASSUME Floor, UNCHANGED <<inputSentenceId, queue, workerSentenceId>>,
         Live' => Live,
         pc' = "enter" => pc = "enter" /\ work' = work,
         pc' \in {"append", "show", "resolve", "reset"} =>
            pc \in {"append", "show", "resolve", "reset"} /\ work' = work
  PROVE  Floor'
BY DEF Floor

\* onPartial and onFinal queue for the sentence being spoken.
LEMMA InputFloor ==
  ASSUME Typed, Floor, NEW e \in Events, e.id = inputSentenceId,
         queue' = Append(queue, e) \/ queue' = queue,
         inputSentenceId' \in {inputSentenceId, inputSentenceId + 1},
         UNCHANGED <<pc, work, workerSentenceId>>
  PROVE  Floor'
<1>1. queue \in Seq(Events) /\ Len(queue) \in Nat /\ inputSentenceId \in Nat /\ workerSentenceId \in Nat
  BY LenProperties DEF Typed
<1>2. CASE queue' = queue
  BY <1>1, <1>2 DEF Floor, Live
<1>3. CASE queue' = Append(queue, e)
  <2>1. /\ Len(queue') = Len(queue) + 1 /\ queue'[Len(queue) + 1] = e
        /\ \A i \in 1 .. Len(queue) : queue'[i] = queue[i]
    BY <1>1, <1>3, AppendProperties
  <2>2. \A i \in 1 .. Len(queue') : i \in 1 .. Len(queue) \/ i = Len(queue) + 1
    BY <1>1, <2>1
  <2>3. Live' => \A i \in 1 .. Len(queue') : workerSentenceId <= queue'[i].id
    BY <1>1, <2>1, <2>2 DEF Floor, Live
  <2>4. workerSentenceId' <= inputSentenceId'
    BY <1>1 DEF Floor
  <2> QED
    BY <2>3, <2>4 DEF Floor
<1> QED
  BY <1>2, <1>3

\* nextWork takes the first of the queue.
LEMMA TakeFloor ==
  ASSUME Typed, Order, Floor, TakeWork
  PROVE  Floor'
<1>1. UNCHANGED <<inputSentenceId, workerSentenceId>> /\ pc = "take" /\ Live
  BY DEF TakeWork, inputVars, sentenceVars, Live, Over
<1>2. CASE queue = <<>>
  <2>1. pc' = "empty" /\ UNCHANGED <<queue, work>>
    BY <1>2 DEF TakeWork
  <2> QED
    BY <1>1, <2>1, QuietFloor
<1>3. CASE queue # <<>>
  <2>1. /\ pc' = "enter" /\ work' = Merged(queue)
        /\ queue' = Cut(queue, Taken(queue), Len(queue))
    BY <1>3 DEF TakeWork, Cut
  <2>2. queue \in Seq(Events) /\ setup.drafts \in BOOLEAN /\ (~setup.drafts => queue \in Seq(Finals))
    BY DEF Typed
  <2>3. PICK t \in 1 .. Len(queue) : t = Taken(queue)
    BY <1>3, <2>2, TakenIs
  <2>4. work'.id = queue[t].id
    BY <1>3, <2>1, <2>2, <2>3, MergedIs
  <2>5. Len(queue) \in Nat /\ IsCut(queue', queue, t, Len(queue))
    BY <2>1, <2>2, <2>3, RestIs, LenProperties
  <2>6. \A i \in 1 .. Len(queue') : t + i \in 1 .. Len(queue) /\ queue'[i] = queue[t + i]
    BY <2>5 DEF IsCut
  <2>7. \A i \in 1 .. Len(queue) : workerSentenceId <= queue[i].id
    BY <1>1 DEF Floor
  <2> QED
    BY <1>1, <2>1, <2>3, <2>4, <2>6, <2>7 DEF Floor
<1> QED
  BY <1>2, <1>3

\* The worker stays at or before what it has to do.
LEMMA NextFloor ==
  ASSUME Typed, Order, Floor, [Next]_vars
  PROVE  Floor'
<1>0. inputSentenceId \in Nat \ {0} /\ workerSentenceId \in Nat
  BY DEF Typed
<1>1. ASSUME NEW n \in 1 .. MaxWords, OnPartial(n) PROVE Floor'
  <2>1. PICK e \in Events : e.id = inputSentenceId /\ (queue' = Append(queue, e) \/ queue' = queue)
    <3>1. CASE UNCHANGED queue
      <4>1. Commit(inputSentenceId, << <<1, "heard", 1>> >>) \in Commits
        <5>1. << <<1, "heard", 1>> >> \in Seq(Word) \ {<<>>}
          BY DEF Word, Versions
        <5> QED
          BY <1>0, <5>1 DEF Commit, Commits
      <4> QED
        BY <3>1, <4>1 DEF Events, Commit
    <3>2. CASE \E c \in (committed + 1) .. Min({n, previewSource}) :
                  queue' = Append(queue, Commit(inputSentenceId,
                              Words(inputSentenceId, "heard", committed + 1, c)))
      <4>1. PICK c \in (committed + 1) .. Min({n, previewSource}) :
               queue' = Append(queue, Commit(inputSentenceId,
                              Words(inputSentenceId, "heard", committed + 1, c)))
        BY <3>2
      <4>2. n \in Nat /\ previewSource \in Nat
        BY ConstantsAssumption DEF Typed
      <4>3. Min({n, previewSource}) \in Nat
        BY <4>2, MinOfTwo
      <4>4. c \in Nat /\ committed < c
        BY <4>3 DEF Typed
      <4>5. Commit(inputSentenceId, Words(inputSentenceId, "heard", committed + 1, c)) \in Commits
        BY <4>4, CommitTyped
      <4> QED
        BY <4>1, <4>5 DEF Events, Commit
    <3> QED
      BY <1>1, <3>1, <3>2 DEF OnPartial
  <2> QED
    BY <1>1, <2>1, InputFloor DEF OnPartial, sentenceVars
<1>2. ASSUME NEW c \in Callers, NEW n \in 1 .. MaxWords, OnFinal(c, n) PROVE Floor'
  <2>1. PICK diverged, source :
         /\ diverged \in BOOLEAN
         /\ source = Words(inputSentenceId, IF diverged THEN "revised" ELSE "heard", 1, n)
         /\ IF diverged THEN committed > 0 ELSE committed <= n
         /\ heard' = Append(heard, source)
         /\ queue' = Append(queue, Final(inputSentenceId, source,
                           IF diverged THEN <<>> ELSE SubSeq(source, committed + 1, n), diverged))
    BY <1>2 DEF OnFinal
  <2>2. n \in Nat \ {0}
    BY ConstantsAssumption
  <2>3. PICK e \in Finals : queue' = Append(queue, e) /\ e.id = inputSentenceId
    BY <2>1, <2>2, FinalTyped DEF Final
  <2>4. e \in Events
    BY DEF Events
  <2> QED
    BY <1>2, <2>3, <2>4, InputFloor DEF OnFinal, sentenceVars
<1>3. CASE TakeWork
  BY <1>3, TakeFloor
<1>4. CASE Finish \/ (\E c \in Callers : Signal(c)) \/ Cancel \/ Preview \/ UNCHANGED vars
  <2>1. UNCHANGED <<inputSentenceId, queue, pc, work, workerSentenceId>>
    BY <1>4 DEF Finish, Signal, Cancel, Preview, PreviewToken, PublishPreview, PreviewEnds, vars,
       inputVars, sentenceVars
  <2> QED
    BY <2>1, QuietFloor DEF Live
<1>5. CASE CheckFinished \/ StartPreview \/ Receive \/ PreviewWoken \/ PreviewOver
  <2>1. /\ UNCHANGED <<inputSentenceId, queue, workerSentenceId>>
        /\ pc \in {"empty", "idle", "wait", "preview", "join"}
        /\ pc' \in {"ended", "idle", "wait", "preview", "join", "take"}
    BY <1>5 DEF CheckFinished, StartPreview, Receive, PreviewWoken, PreviewOver, inputVars, sentenceVars
  <2> QED
    BY <2>1, QuietFloor DEF Live, Over
<1>6. CASE Enter
  <2>1. /\ UNCHANGED <<inputSentenceId, queue>> /\ workerSentenceId' = work.id
        /\ pc = "enter" /\ pc' \in {"append", "resolve"} /\ work'.id = work.id
    <3>1. work \in Events /\ (work' = work \/ (work.kind = "Final" /\ work' = [work EXCEPT !.delta = work.source]))
      BY <1>6, EnterIs
    <3>2. ASSUME work.kind = "Final", work' = [work EXCEPT !.delta = work.source]
          PROVE  work'.id = work.id
      <4>1. work \in Finals
        BY <3>1, <3>2, Kinds
      <4> QED
        BY <3>2, <4>1 DEF Finals
    <3> QED
      BY <1>6, <3>1, <3>2, EnterIs DEF Enter, inputVars
  <2>2. Live /\ pc \in Working
    BY <2>1 DEF Live, Over, Working
  <2> QED
    BY <2>1, <2>2, WorkIsNext DEF Floor
<1>7. CASE Token \/ ShowPartial \/ AppendDone \/ AppendFails \/ Resolve
  <2>1. /\ UNCHANGED <<inputSentenceId, queue, workerSentenceId, work>>
        /\ pc \in {"append", "show", "resolve"}
        /\ pc' \in {"append", "show", "resolve", "reset", "take"}
    BY <1>7 DEF Token, ShowPartial, AppendDone, AppendFails, Resolve, inputVars, sentenceVars
  <2> QED
    BY <2>1, QuietFloor DEF Live, Over
<1>8. CASE ResetSentence
  <2>1. /\ UNCHANGED <<inputSentenceId, queue>> /\ workerSentenceId' = work.id + 1
        /\ pc = "reset" /\ pc' \in {"take", "crashed"} /\ work.kind = "Final"
    BY <1>8 DEF ResetSentence, LeaveSentence, inputVars, Typed, Finals
  <2>2. Live /\ pc \in Working
    BY <2>1 DEF Live, Over, Working
  <2>3. /\ work.id \in Nat /\ work.id < inputSentenceId
        /\ \A i \in 1 .. Len(queue) : work.id + 1 <= queue[i].id
    BY <2>1, <2>2, WorkIsNext
  <2>4. work.id + 1 <= inputSentenceId
    BY <1>0, <2>3
  <2> QED
    BY <2>1, <2>3, <2>4 DEF Floor
<1>9. CASE Unwind
  <2>1. UNCHANGED <<inputSentenceId, queue>> /\ pc' = "cancelled"
    BY <1>9 DEF Unwind, inputVars
  <2>2. workerSentenceId' <= inputSentenceId
    <3>1. CASE work.kind = "Final" /\ pc \in {"append", "reset"}
      <4>1. workerSentenceId' = work.id + 1
        BY <1>9, <3>1 DEF Unwind, LeaveSentence
      <4>2. Live /\ pc \in Working
        BY <3>1 DEF Live, Over, Working
      <4>3. work.id \in Nat /\ work.id < inputSentenceId
        BY <3>1, <4>2, WorkIsNext
      <4> QED
        BY <1>0, <4>1, <4>3
    <3>2. CASE ~(work.kind = "Final" /\ pc \in {"append", "reset"})
      BY <1>9, <3>2 DEF Unwind, Floor
    <3> QED
      BY <3>1, <3>2
  <2> QED
    BY <2>1, <2>2 DEF Floor, Live, Over
<1> QED
  BY <1>1, <1>2, <1>3, <1>4, <1>5, <1>6, <1>7, <1>8, <1>9, Zenon DEF Next, Input, Worker

-----------------------------------------------------------------------------
(* What is shown.                                                          *)

\* A partial is of a sentence that has been heard of, and the worker and the
\* preview have later ones to publish.
Shown ==
  /\ shown.kind = "Partial" =>
        /\ shown.id <= inputSentenceId
        /\ shown.id <= liveSentenceId \/ shown.id <= workerSentenceId
        /\ pc = "show" => shown.id <= work.id
        /\ preview.at # "off" => shown.id <= preview.id
  /\ preview.at # "off" => resolved < preview.id /\ preview.id <= liveSentenceId
  /\ previewSourceSentenceId <= liveSentenceId /\ liveSentenceId <= inputSentenceId

\* The numbers it compares.
LEMMA ShownNumbers ==
  ASSUME Typed
  PROVE  /\ inputSentenceId \in Nat \ {0} /\ liveSentenceId \in Nat /\ workerSentenceId \in Nat
         /\ previewSourceSentenceId \in Nat /\ resolved \in Nat
         /\ shown.id \in Nat /\ preview.id \in Nat
         /\ preview \in [at : {"off", "running", "publish"}, id : Nat, words : Nat]
BY DEF Typed

\* A step that publishes no partial: sentences only go forward.
LEMMA QuietShown ==
  ASSUME Typed, Typed', Shown,
         shown' = shown \/ shown'.kind # "Partial",
         preview' = preview \/ preview'.at = "off" \/ (preview.at # "off" /\ preview'.id = preview.id),
         resolved' = resolved \/ preview'.at = "off",
         inputSentenceId <= inputSentenceId', liveSentenceId <= liveSentenceId',
         workerSentenceId <= workerSentenceId',
         previewSourceSentenceId' <= liveSentenceId', liveSentenceId' <= inputSentenceId',
         pc' = "show" => pc = "show" /\ work' = work
  PROVE  Shown'
<1>1. /\ inputSentenceId \in Nat /\ liveSentenceId \in Nat /\ workerSentenceId \in Nat
      /\ shown.id \in Nat /\ preview.id \in Nat
      /\ inputSentenceId' \in Nat /\ liveSentenceId' \in Nat /\ workerSentenceId' \in Nat
  BY ShownNumbers DEF Typed
<1>2. ASSUME shown'.kind = "Partial"
      PROVE  /\ shown'.id <= inputSentenceId'
             /\ shown'.id <= liveSentenceId' \/ shown'.id <= workerSentenceId'
             /\ pc' = "show" => shown'.id <= work'.id
             /\ preview'.at # "off" => shown'.id <= preview'.id
  <2>1. shown' = shown
    BY <1>2
  <2>2. shown.id <= inputSentenceId /\ (shown.id <= liveSentenceId \/ shown.id <= workerSentenceId)
    BY <1>2, <2>1 DEF Shown
  <2>3. shown.id <= inputSentenceId' /\ (shown.id <= liveSentenceId' \/ shown.id <= workerSentenceId')
    BY <1>1, <2>2
  <2>4. pc' = "show" => shown.id <= work'.id
    BY <1>2, <2>1 DEF Shown
  <2>5. preview'.at # "off" => shown.id <= preview'.id
    BY <1>2, <2>1 DEF Shown
  <2> QED
    BY <2>1, <2>3, <2>4, <2>5
<1>3. ASSUME preview'.at # "off" PROVE resolved' < preview'.id /\ preview'.id <= liveSentenceId'
  <2>1. preview.at # "off" /\ preview'.id = preview.id /\ resolved' = resolved
    BY <1>3
  <2> QED
    BY <1>1, <2>1 DEF Shown
<1> QED
  BY <1>2, <1>3 DEF Shown

\* Every step keeps it.
LEMMA NextShown ==
  ASSUME Typed, Leaks, Order, Floor, Shown, [Next]_vars
  PROVE  Shown'
<1>0. /\ Typed'
      /\ inputSentenceId \in Nat \ {0} /\ liveSentenceId \in Nat /\ workerSentenceId \in Nat
      /\ previewSourceSentenceId \in Nat /\ resolved \in Nat
      /\ shown.id \in Nat /\ preview.id \in Nat
      /\ preview \in [at : {"off", "running", "publish"}, id : Nat, words : Nat]
      /\ previewSourceSentenceId <= liveSentenceId /\ liveSentenceId <= inputSentenceId
      /\ inputSentenceId <= inputSentenceId /\ liveSentenceId <= liveSentenceId
      /\ workerSentenceId <= workerSentenceId
  BY NextTyped, ShownNumbers DEF Shown
<1>1. ASSUME NEW n \in 1 .. MaxWords, OnPartial(n) PROVE Shown'
  <2>1. /\ UNCHANGED <<inputSentenceId, workerSentenceId, shown, preview, resolved, pc, work>>
        /\ liveSentenceId' = inputSentenceId /\ previewSourceSentenceId' = inputSentenceId
    BY <1>1 DEF OnPartial, sentenceVars, previewVars, outputVars
  <2> QED
    BY <1>0, <2>1, QuietShown
<1>2. ASSUME NEW c \in Callers, NEW n \in 1 .. MaxWords, OnFinal(c, n) PROVE Shown'
  <2>1. /\ UNCHANGED <<liveSentenceId, previewSourceSentenceId, workerSentenceId, shown, preview,
                       resolved, pc, work>>
        /\ inputSentenceId' = inputSentenceId + 1
    BY <1>2 DEF OnFinal, sentenceVars, previewVars, outputVars
  <2>2. inputSentenceId <= inputSentenceId' /\ liveSentenceId <= inputSentenceId'
    BY <1>0, <2>1
  <2> QED
    BY <1>0, <2>1, <2>2, QuietShown
<1>3. CASE Finish \/ (\E c \in Callers : Signal(c)) \/ Cancel \/ UNCHANGED vars
  <2>1. UNCHANGED <<inputSentenceId, liveSentenceId, previewSourceSentenceId, workerSentenceId, shown,
                    preview, resolved, pc, work>>
    BY <1>3 DEF Finish, Signal, Cancel, vars, inputVars, sentenceVars, previewVars, outputVars
  <2> QED
    BY <1>0, <2>1, QuietShown
<1>4. CASE TakeWork \/ CheckFinished \/ Receive \/ PreviewWoken \/ PreviewOver
  <2>1. /\ UNCHANGED <<inputSentenceId, liveSentenceId, previewSourceSentenceId, workerSentenceId, shown,
                       preview, resolved>>
        /\ pc' # "show"
    BY <1>4 DEF TakeWork, CheckFinished, Receive, PreviewWoken, PreviewOver, inputVars, sentenceVars,
       previewVars, outputVars
  <2> QED
    BY <1>0, <2>1, QuietShown
<1>5. CASE StartPreview
  <2>1. /\ UNCHANGED <<inputSentenceId, liveSentenceId, previewSourceSentenceId, workerSentenceId, shown,
                       resolved, work>>
        /\ pc' # "show"
    BY <1>5 DEF StartPreview, inputVars, sentenceVars, outputVars
  <2>2. CASE UNCHANGED preview
    BY <1>0, <2>1, <2>2, QuietShown
  <2>3. CASE PreviewDue /\ preview' = [at |-> "running", id |-> previewSourceSentenceId, words |-> previewSource]
    <3>1. preview'.id = inputSentenceId /\ liveSentenceId = inputSentenceId
      BY <1>0, <2>3 DEF PreviewDue
    <3>2. resolved < inputSentenceId
      BY DEF Order
    <3> QED
      BY <1>0, <2>1, <3>1, <3>2 DEF Shown
  <2> QED
    BY <1>5, <2>2, <2>3 DEF StartPreview
<1>6. CASE Enter
  <2>1. /\ UNCHANGED <<inputSentenceId, liveSentenceId, previewSourceSentenceId, shown, preview, resolved>>
        /\ workerSentenceId' = work.id /\ pc = "enter" /\ pc' # "show"
    BY <1>6, EnterIs DEF Enter, inputVars, previewVars, outputVars
  <2>2. workerSentenceId <= workerSentenceId'
    BY <2>1 DEF Floor
  <2> QED
    BY <1>0, <2>1, <2>2, QuietShown
<1>7. CASE Token
  <2>1. /\ UNCHANGED <<inputSentenceId, liveSentenceId, previewSourceSentenceId, workerSentenceId, shown,
                       preview, resolved, work>>
        /\ pc = "append" /\ (pc' = "show" => work.id >= liveSentenceId)
    BY <1>7 DEF Token, inputVars, sentenceVars, previewVars, outputVars
  <2>2. CASE pc' # "show"
    BY <1>0, <2>1, <2>2, QuietShown
  <2>3. CASE pc' = "show"
    <3>1. workerSentenceId = work.id /\ liveSentenceId <= work.id
      BY <1>0, <2>1, <2>3 DEF Floor
    <3>2. shown.kind = "Partial" => shown.id <= work.id
      BY <1>0, <3>1 DEF Shown
    <3> QED
      BY <2>1, <3>2 DEF Shown
  <2> QED
    BY <2>2, <2>3
<1>8. CASE ShowPartial
  <2>1. /\ UNCHANGED <<inputSentenceId, liveSentenceId, previewSourceSentenceId, workerSentenceId, preview,
                       resolved, work>>
        /\ pc = "show" /\ pc' = "append" /\ shown' = [kind |-> "Partial", id |-> work.id]
    BY <1>8 DEF ShowPartial, inputVars, sentenceVars, previewVars
  <2>2. shown'.id = workerSentenceId /\ workerSentenceId <= inputSentenceId /\ preview.at = "off"
    BY <2>1 DEF Floor, Leaks
  <2> QED
    BY <1>0, <2>1, <2>2 DEF Shown
<1>9. CASE AppendDone \/ AppendFails \/ Resolve
  <2>1. /\ UNCHANGED <<inputSentenceId, liveSentenceId, previewSourceSentenceId, workerSentenceId, preview>>
        /\ pc \in {"append", "resolve"} /\ pc' # "show"
        /\ shown' = shown \/ shown'.kind # "Partial"
    BY <1>9 DEF AppendDone, AppendFails, Resolve, inputVars, sentenceVars, previewVars, outputVars
  <2>2. preview'.at = "off"
    BY <2>1 DEF Leaks
  <2> QED
    BY <1>0, <2>1, <2>2, QuietShown
<1>10. CASE ResetSentence \/ Unwind
  <2>1. /\ UNCHANGED <<inputSentenceId, liveSentenceId, previewSourceSentenceId, shown, preview, resolved>>
        /\ pc' # "show"
        /\ workerSentenceId' = workerSentenceId
              \/ (workerSentenceId' = work.id + 1 /\ pc \in {"append", "reset"})
    BY <1>10 DEF ResetSentence, Unwind, LeaveSentence, inputVars, previewVars, outputVars
  <2>2. workerSentenceId <= workerSentenceId'
    BY <1>0, <2>1 DEF Floor
  <2> QED
    BY <1>0, <2>1, <2>2, QuietShown
<1>11. CASE Preview
  <2>1. UNCHANGED <<inputSentenceId, liveSentenceId, previewSourceSentenceId, workerSentenceId, resolved,
                    pc, work>>
    BY <1>11 DEF Preview, PreviewToken, PublishPreview, PreviewEnds, inputVars, sentenceVars, outputVars
  <2>2. CASE PreviewToken \/ PreviewEnds
    <3>1. /\ shown' = shown
          /\ preview'.at = "off" \/ (preview.at # "off" /\ preview'.id = preview.id)
      BY <1>0, <2>2 DEF PreviewToken, PreviewEnds, outputVars
    <3> QED
      BY <1>0, <2>1, <3>1, QuietShown
  <2>3. CASE PublishPreview
    <3>1. /\ shown' = [kind |-> "Partial", id |-> preview.id]
          /\ preview.at # "off" /\ preview'.id = preview.id
      BY <1>0, <2>3 DEF PublishPreview
    <3>2. pc' # "show"
      BY <2>1, <3>1 DEF Leaks
    <3>3. resolved < preview.id /\ preview.id <= liveSentenceId /\ preview.id <= inputSentenceId
      BY <1>0, <3>1 DEF Shown
    <3>4. shown'.kind = "Partial" /\ shown'.id = preview.id /\ shown'.id <= preview'.id
      BY <1>0, <3>1
    <3> QED
      BY <1>0, <2>1, <3>1, <3>2, <3>3, <3>4 DEF Shown
  <2> QED
    BY <1>11, <2>2, <2>3 DEF Preview
<1> QED
  BY <1>1, <1>2, <1>3, <1>4, <1>5, <1>6, <1>7, <1>8, <1>9, <1>10, <1>11, Zenon DEF Next, Input, Worker

\* What the proofs about what is shown, logged and translated rest on.
Ground == Typed /\ Leaks /\ Order /\ Floor /\ Shown

\* It holds in every state reached.
LEMMA GroundAlways ==
  Spec => []Ground
<1>1. Init => Ground
  <2>1. ASSUME Init PROVE Leaks /\ Floor /\ Shown
    <3>1. Len(queue) = 0
      BY <2>1, EmptySeq DEF Init
    <3> QED
      BY <2>1, <3>1 DEF Init, Leaks, NoSegmentLeaks, Floor, Shown, Live, NoSentence
  <2> QED
    BY <2>1, InitTyped, InitOrder DEF Ground
<1>2. Ground /\ [Next]_vars => Ground'
  BY NextTyped, NextLeaks, NextOrder, NextFloor, NextShown DEF Ground
<1> QED
  BY <1>1, <1>2, PTL DEF Spec

\* The partial a step publishes is of a sentence without its caption, and not
\* older than the partial before it.
LEMMA PartialStep ==
  ASSUME Ground, [Next]_vars, shown' # shown, shown'.kind = "Partial"
  PROVE  shown'.id > resolved /\ (shown.kind = "Partial" => shown'.id >= shown.id)
<1>1. /\ resolved \in Nat /\ shown.id \in Nat /\ preview.id \in Nat
      /\ preview \in [at : {"off", "running", "publish"}, id : Nat, words : Nat]
  BY ShownNumbers DEF Ground
<1>2. ShowPartial \/ PublishPreview
  <2>1. ASSUME NEW n \in 1 .. MaxWords, OnPartial(n) PROVE FALSE
    BY <2>1 DEF OnPartial, outputVars
  <2>2. ASSUME NEW c \in Callers, NEW n \in 1 .. MaxWords, OnFinal(c, n) PROVE FALSE
    BY <2>2 DEF OnFinal, outputVars
  <2>3. ~(Finish \/ (\E c \in Callers : Signal(c)) \/ Cancel \/ UNCHANGED vars \/ PreviewToken \/ PreviewEnds)
    BY DEF Finish, Signal, Cancel, vars, outputVars, PreviewToken, PreviewEnds
  <2>4. ~(TakeWork \/ CheckFinished \/ StartPreview \/ Receive \/ PreviewWoken \/ PreviewOver \/ Enter
          \/ Token \/ AppendDone)
    BY DEF TakeWork, CheckFinished, StartPreview, Receive, PreviewWoken, PreviewOver, Enter, Token,
       AppendDone, outputVars
  <2>5. ~(AppendFails \/ Resolve \/ ResetSentence \/ Unwind)
    BY DEF AppendFails, Resolve, ResetSentence, Unwind, outputVars
  <2> QED
    BY <2>1, <2>2, <2>3, <2>4, <2>5, Zenon DEF Next, Input, Worker, Preview
<1>3. CASE ShowPartial
  <2>1. pc = "show" /\ shown' = [kind |-> "Partial", id |-> work.id] /\ work \in Events
    BY <1>3 DEF ShowPartial, Ground, Typed
  <2>2. work.id \in Nat /\ (work.kind = "Commit" \/ work.kind = "Final")
    BY <2>1, Kinds
  <2>3. resolved < work.id
    BY <2>1, <2>2 DEF Ground, Order, Live, Over, QueueInOrder, OnFinalWork, OnPiece, Pending
  <2>4. shown.kind = "Partial" => shown.id <= work.id
    BY <2>1 DEF Ground, Shown
  <2> QED
    BY <1>1, <2>1, <2>2, <2>3, <2>4
<1>4. CASE PublishPreview
  <2>1. shown' = [kind |-> "Partial", id |-> preview.id] /\ preview.at # "off"
    BY <1>4 DEF PublishPreview
  <2>2. resolved < preview.id /\ (shown.kind = "Partial" => shown.id <= preview.id)
    BY <2>1 DEF Ground, Shown
  <2> QED
    BY <1>1, <2>1, <2>2
<1> QED
  BY <1>2, <1>3, <1>4

\* The worker and the preview never overwrite a later sentence with a partial
\* of an earlier one, and no partial follows its caption.
THEOREM PartialsGoForward ==
  Spec => PartialsNeverGoBack
<1>1. Ground /\ [Next]_vars =>
        [shown' # shown /\ shown'.kind = "Partial" =>
          shown'.id > resolved /\ (shown.kind = "Partial" => shown'.id >= shown.id)]_vars
  BY PartialStep
<1> QED
  BY <1>1, GroundAlways, PTL DEF Spec, PartialsNeverGoBack

-----------------------------------------------------------------------------
(* The promise of CaptionLog.                                              *)

\* The output of CaptionLog, as the refinement gives it.
Output ==
  IF pc = "ended" THEN "complete" ELSE IF pc \in {"crashed", "cancelled"} THEN "abandoned" ELSE "live"

\* A step that neither accepts, nor captions, nor ends.
LEMMA LogStutters ==
  ASSUME UNCHANGED <<inputSentenceId, resolved, finished>>, Output' = Output
  PROVE  UNCHANGED Log!vars
BY DEF Log!vars, Output

\* Every step is one of CaptionLog's, or none.
LEMMA LogStep ==
  ASSUME Ground, [Next]_vars
  PROVE  [Log!Next]_Log!vars
<1>0. inputSentenceId \in Nat \ {0} /\ resolved \in Nat /\ resolved < inputSentenceId
  BY ShownNumbers DEF Ground, Order
<1>1. CASE UNCHANGED <<inputSentenceId, resolved, finished>> /\ Output' = Output
  BY <1>1, LogStutters
<1>2. ASSUME NEW n \in 1 .. MaxWords, OnPartial(n) PROVE [Log!Next]_Log!vars
  BY <1>1, <1>2 DEF OnPartial, outputVars, Output
<1>3. ASSUME NEW c \in Callers, NEW n \in 1 .. MaxWords, OnFinal(c, n) PROVE [Log!Next]_Log!vars
  <2>1. /\ ~finished /\ UNCHANGED <<resolved, finished, pc>> /\ inputSentenceId' = inputSentenceId + 1
    BY <1>3 DEF OnFinal, outputVars
  <2>2. inputSentenceId' - 1 = (inputSentenceId - 1) + 1
    BY <1>0, <2>1
  <2>3. Log!Accept
    BY <2>1, <2>2 DEF Log!Accept
  <2> QED
    BY <2>3 DEF Log!Next
<1>4. CASE Finish
  <2>1. finished' = TRUE /\ UNCHANGED <<resolved, inputSentenceId, pc>>
    BY <1>4 DEF Finish, outputVars
  <2>2. Log!CloseInput
    BY <2>1 DEF Log!CloseInput
  <2> QED
    BY <2>2 DEF Log!Next
<1>5. CASE (\E c \in Callers : Signal(c)) \/ Cancel \/ UNCHANGED vars
  BY <1>1, <1>5 DEF Signal, Cancel, vars, inputVars, outputVars, Output
<1>6. CASE TakeWork \/ StartPreview \/ Receive \/ PreviewWoken \/ PreviewOver \/ Enter \/ Token
           \/ ShowPartial \/ AppendDone
  <2>1. /\ UNCHANGED <<inputSentenceId, resolved, finished>>
        /\ pc \notin Over /\ pc' \notin Over
    BY <1>6, EnterIs DEF TakeWork, StartPreview, Receive, PreviewWoken, PreviewOver, Enter, Token,
       ShowPartial, AppendDone, inputVars, outputVars, Over
  <2> QED
    BY <1>1, <2>1 DEF Output, Over
<1>7. CASE CheckFinished
  <2>1. UNCHANGED <<inputSentenceId, resolved, finished>> /\ pc = "empty"
    BY <1>7 DEF CheckFinished, inputVars, outputVars
  <2>2. CASE pc' = "idle"
    BY <1>1, <2>1, <2>2 DEF Output
  <2>3. CASE finished /\ queue = <<>> /\ pc' = "ended"
    <3>1. ~OnFinalWork /\ Live
      BY <2>1 DEF OnFinalWork, Pending, Live, Over
    <3>2. Covered(queue, resolved, inputSentenceId)
      BY <3>1 DEF Ground, Order, QueueInOrder, Ordered, Done
    <3>3. ~(resolved < inputSentenceId - 1)
      <4> SUFFICES ASSUME resolved < inputSentenceId - 1 PROVE FALSE
        OBVIOUS
      <4>1. Len(queue) = 0
        BY <2>3, EmptySeq
      <4>2. PICK m \in Nat : resolved < m /\ m < inputSentenceId
        BY <1>0
      <4>3. PICK i \in 1 .. Len(queue) : TRUE
        BY <3>2, <4>2 DEF Covered
      <4> QED
        BY <4>1, <4>3
    <3>4. resolved = inputSentenceId - 1
      BY <1>0, <3>3
    <3>5. Log!Complete
      BY <2>1, <2>3, <3>4 DEF Log!Complete
    <3> QED
      BY <3>5 DEF Log!Next
  <2> QED
    BY <1>7, <2>2, <2>3 DEF CheckFinished
<1>8. CASE AppendFails \/ Resolve
  <2>1. /\ UNCHANGED <<inputSentenceId, finished>> /\ pc \in {"append", "resolve"}
        /\ pc' \in {"reset", "take"}
    BY <1>8 DEF AppendFails, Resolve, inputVars
  <2>2. CASE UNCHANGED resolved
    BY <1>1, <2>1, <2>2 DEF Output
  <2>3. CASE resolved' = work.id /\ (pc = "append" => work.kind = "Final")
    <3>1. Live /\ pc \in Working /\ Pending
      BY <2>1 DEF Live, Over, Working, Pending
    <3>2. work.kind = "Final"
      BY <2>1, <2>3 DEF Ground, Typed, Finals
    <3>3. work.id \in Nat /\ work.id < inputSentenceId
      BY <3>1, <3>2, WorkIsNext DEF Ground
    <3>4. resolved < work.id
      BY <3>1, <3>2 DEF Ground, Order, QueueInOrder, OnFinalWork
    <3>5. work.id \in (resolved + 1) .. (inputSentenceId - 1)
      BY <1>0, <3>3, <3>4
    <3>6. Log!Caption
      BY <2>1, <2>3, <3>5 DEF Log!Caption
    <3> QED
      BY <3>6 DEF Log!Next
  <2> QED
    BY <1>8, <2>1, <2>2, <2>3 DEF AppendFails, Resolve, outputVars
<1>9. CASE ResetSentence \/ Unwind
  <2>1. UNCHANGED <<inputSentenceId, resolved, finished>> /\ pc \notin Over
    BY <1>9 DEF ResetSentence, Unwind, inputVars, outputVars, Over
  <2>2. CASE pc' \in {"crashed", "cancelled"}
    <3>1. Log!Abandon
      BY <2>1, <2>2 DEF Log!Abandon, Over
    <3> QED
      BY <3>1 DEF Log!Next
  <2>3. CASE pc' = "take"
    BY <1>1, <2>1, <2>3 DEF Output, Over
  <2> QED
    BY <1>9, <2>2, <2>3 DEF ResetSentence, Unwind
<1>10. CASE Preview
  BY <1>1, <1>10 DEF Preview, PreviewToken, PublishPreview, PreviewEnds, inputVars, outputVars, Output
<1> QED
  BY <1>2, <1>3, <1>4, <1>5, <1>6, <1>7, <1>8, <1>9, <1>10, Zenon DEF Next, Input, Worker

\* The stage implements CaptionLog, but for its fairness: each caption is of
\* the sentences after the last one captioned, up to one that was accepted,
\* and the worker returns only when every accepted sentence has its caption.
THEOREM StageImplementsCaptionLog ==
  Spec => Log!Init /\ [][Log!Next]_Log!vars
<1>1. Init => Log!Init
  BY DEF Init, Log!Init
<1>2. Ground /\ [Next]_vars => [Log!Next]_Log!vars
  BY LogStep
<1> QED
  BY <1>1, <1>2, GroundAlways, PTL DEF Spec

-----------------------------------------------------------------------------
(* The texts.                                                              *)

\* The words a + 1 .. b of a sentence, as heard.
Piece(id, a, b) == Words(id, "heard", a + 1, b)

\* What a piece is.
LEMMA PieceIs ==
  ASSUME NEW id \in Nat \ {0}, NEW a \in Nat, NEW b \in Nat, a <= b
  PROVE  /\ Piece(id, a, b) \in Seq(Word) /\ Len(Piece(id, a, b)) = b - a
         /\ \A i \in 1 .. b - a : Piece(id, a, b)[i] = <<id, "heard", a + i>>
<1>1. PICK m \in Nat \ {0} : m = a + 1 /\ m <= b + 1
  OBVIOUS
<1>2. AreWords(Words(id, "heard", m, b), id, "heard", m, b)
  BY <1>1, WordsAre DEF Versions
<1>3. b + 1 - m = b - a /\ \A i \in 1 .. b - a : m + i - 1 = a + i
  BY <1>1
<1>4. PICK w : w = Words(id, "heard", m, b)
  OBVIOUS
<1>5. w \in Seq(Word) /\ Len(w) = b - a /\ \A i \in 1 .. b - a : w[i] = <<id, "heard", a + i>>
  BY <1>2, <1>3, <1>4 DEF AreWords
<1>6. w = Piece(id, a, b)
  BY <1>1, <1>4 DEF Piece
<1> QED
  BY <1>5, <1>6

\* Pieces that follow each other.
LEMMA PiecesJoin ==
  ASSUME NEW id \in Nat \ {0}, NEW a \in Nat, NEW b \in Nat, NEW c \in Nat, a <= b, b <= c
  PROVE  Piece(id, a, b) \o Piece(id, b, c) = Piece(id, a, c)
<1>1. PICK m \in Nat \ {0}, n \in Nat : m = a + 1 /\ n = b + 1 /\ m <= n
  OBVIOUS
<1>2. Words(id, "heard", m, b) \o Words(id, "heard", n, c) = Words(id, "heard", m, c)
  <2>1. PICK v \in Versions : v = "heard"
    BY DEF Versions
  <2>2. Join(id, v, m, b, n, c)
    BY <1>1, WordsJoin
  <2> QED
    BY <2>1, <2>2 DEF Join
<1> QED
  BY <1>1, <1>2 DEF Piece

\* An empty piece.
LEMMA NoPiece ==
  ASSUME NEW id \in Nat \ {0}, NEW a \in Nat
  PROVE  Piece(id, a, a) = <<>>
<1>1. Len(Piece(id, a, a)) = 0 /\ Piece(id, a, a) \in Seq(Word)
  <2>1. a <= a /\ a - a = 0
    OBVIOUS
  <2> QED
    BY <2>1, PieceIs
<1> QED
  BY <1>1, EmptySeq

\* Where the text of an event ends, in its sentence.
Upto(e) == IF e.kind = "Commit" THEN e.delta[Len(e.delta)][3] ELSE Len(e.source)

\* e adds to its sentence the words after the a-th.
Spans(e, a) ==
  /\ a \in Nat /\ Upto(e) \in Nat /\ a <= Upto(e)
  /\ e.delta = Piece(e.id, a, Upto(e))

\* A queued piece of a sentence that ends at b.
LEMMA PieceSpans ==
  ASSUME NEW e \in Commits, NEW a \in Nat, NEW b \in Nat, a <= b, e.delta = Piece(e.id, a, b)
  PROVE  Upto(e) = b /\ Spans(e, a)
<1>1. e.kind = "Commit" /\ e.id \in Nat \ {0} /\ e.delta # <<>>
  BY DEF Commits
<1>2. PICK w : w = Piece(e.id, a, b)
  OBVIOUS
<1>3. w \in Seq(Word) /\ Len(w) = b - a /\ \A i \in 1 .. b - a : w[i] = <<e.id, "heard", a + i>>
  BY <1>1, <1>2, PieceIs
<1>4. w # <<>>
  BY <1>1, <1>2
<1>5. b - a \in 1 .. b - a
  <2>1. b - a # 0
    BY <1>3, <1>4, EmptySeq
  <2> QED
    BY <2>1
<1>6. w[Len(w)] = <<e.id, "heard", a + (b - a)>>
  BY <1>3, <1>5
<1>7. w[Len(w)][3] = a + (b - a)
  BY <1>6
<1>8. Upto(e) = b
  BY <1>1, <1>2, <1>7 DEF Upto
<1> QED
  BY <1>8 DEF Spans

\* How far the sentence id has got before the i-th of the queue: to where its
\* event before that ends, or to what the worker has taken of it, if it is in
\* that sentence.
Base(q, i, id, now, reached) ==
  IF i > 1 /\ q[i - 1].id = id THEN Upto(q[i - 1]) ELSE IF id = now THEN reached ELSE 0

Plain(e) == e.kind = "Commit" \/ ~e.diverged

\* Each queued event goes on where the one before it ended, unless a piece of
\* its sentence failed, and c is where the sentence n has got to.
Chain(q, now, reached, lost, n, c) ==
  /\ \A i \in 1 .. Len(q) :
        Plain(q[i]) /\ ~(lost /\ q[i].id = now) => Spans(q[i], Base(q, i, q[i].id, now, reached))
  /\ ~(lost /\ n = now) => c = Base(q, Len(q) + 1, n, now, reached)

\* Nothing queued is of the sentence id, and it is not being spoken.
Gone(q, id, n) == n # id /\ \A i \in 1 .. Len(q) : q[i].id # id

\* The worker leaves a sentence that is gone, and enters one that is, or one it
\* has taken nothing of.
LEMMA ChainMoves ==
  ASSUME NEW q, NEW f, NEW r, NEW l \in BOOLEAN, NEW g, NEW x, NEW m \in BOOLEAN, NEW n, NEW c,
         Chain(q, f, r, l, n, c), Gone(q, f, n), Gone(q, g, n) \/ (x = 0 /\ ~m)
  PROVE  Chain(q, g, x, m, n, c)
<1>0. /\ n # f /\ \A i \in 1 .. Len(q) : q[i].id # f
      /\ (n # g /\ \A i \in 1 .. Len(q) : q[i].id # g) \/ (x = 0 /\ ~m)
  BY Zenon DEF Gone
<1>1. ASSUME NEW i \in 1 .. Len(q), Plain(q[i]), ~(m /\ q[i].id = g)
      PROVE  Spans(q[i], Base(q, i, q[i].id, g, x))
  <2>1. Spans(q[i], Base(q, i, q[i].id, f, r))
    BY <1>0, <1>1 DEF Chain
  <2>2. Base(q, i, q[i].id, f, r) = Base(q, i, q[i].id, g, x)
    BY <1>0, Zenon DEF Base
  <2> QED
    BY <2>1, <2>2, Zenon
<1>2. ASSUME ~(m /\ n = g) PROVE c = Base(q, Len(q) + 1, n, g, x)
  <2>1. c = Base(q, Len(q) + 1, n, f, r)
    BY <1>0 DEF Chain
  <2>2. Base(q, Len(q) + 1, n, f, r) = Base(q, Len(q) + 1, n, g, x)
    BY <1>0, Zenon DEF Base
  <2> QED
    BY <2>1, <2>2, Zenon
<1> QED
  BY <1>1, <1>2 DEF Chain

\* What was taken of a sentence does not matter once a piece of it failed.
LEMMA ChainLoses ==
  ASSUME NEW q, NEW f, NEW r, NEW l \in BOOLEAN, NEW x, NEW m \in BOOLEAN, NEW n, NEW c,
         Chain(q, f, r, l, n, c), l => m, m \/ x = r
  PROVE  Chain(q, f, x, m, n, c)
<1>1. ASSUME NEW i \in 1 .. Len(q), Plain(q[i]), ~(m /\ q[i].id = f)
      PROVE  Spans(q[i], Base(q, i, q[i].id, f, x))
  <2>1. Spans(q[i], Base(q, i, q[i].id, f, r))
    BY <1>1 DEF Chain
  <2>2. Base(q, i, q[i].id, f, r) = Base(q, i, q[i].id, f, x)
    BY <1>1, Zenon DEF Base
  <2> QED
    BY <2>1, <2>2, Zenon
<1>2. ASSUME ~(m /\ n = f) PROVE c = Base(q, Len(q) + 1, n, f, x)
  <2>1. c = Base(q, Len(q) + 1, n, f, r)
    BY <1>2 DEF Chain
  <2>2. Base(q, Len(q) + 1, n, f, r) = Base(q, Len(q) + 1, n, f, x)
    BY <1>2, Zenon DEF Base
  <2> QED
    BY <2>1, <2>2, Zenon
<1> QED
  BY <1>1, <1>2 DEF Chain

\* An event of the sentence being spoken joins the queue.
LEMMA ChainGrows ==
  ASSUME NEW q \in Seq(Events), NEW f, NEW r, NEW l \in BOOLEAN, NEW n, NEW c, Chain(q, f, r, l, n, c),
         NEW e \in Events, e.id = n, Plain(e) => Spans(e, c), NEW k, NEW d,
         (k = n /\ d = Upto(e)) \/ (k # n /\ k # f /\ d = 0)
  PROVE  Chain(Append(q, e), f, r, l, k, d)
<1> DEFINE u == Append(q, e)
<1>1. /\ Len(q) \in Nat /\ Len(u) = Len(q) + 1 /\ u[Len(q) + 1] = e
      /\ \A i \in 1 .. Len(q) : u[i] = q[i]
  BY AppendProperties, LenProperties
<1> HIDE DEF u
<1>2. \A i \in 1 .. Len(u) : i \in 1 .. Len(q) \/ i = Len(q) + 1
  BY <1>1
<1>3. \A i \in 1 .. Len(q) + 1 : i > 1 => i - 1 \in 1 .. Len(q)
  BY <1>1
<1>4. ASSUME NEW i \in 1 .. Len(q) + 1, NEW id PROVE Base(u, i, id, f, r) = Base(q, i, id, f, r)
  <2>1. i > 1 => u[i - 1] = q[i - 1]
    BY <1>1, <1>3
  <2> QED
    BY <2>1, Zenon DEF Base
<1>5. ASSUME NEW i \in 1 .. Len(u), Plain(u[i]), ~(l /\ u[i].id = f)
      PROVE  Spans(u[i], Base(u, i, u[i].id, f, r))
  <2>1. CASE i \in 1 .. Len(q)
    <3>1. u[i] = q[i] /\ i \in 1 .. Len(q) + 1
      BY <1>1, <2>1
    <3>2. Spans(q[i], Base(q, i, q[i].id, f, r))
      BY <1>5, <2>1, <3>1 DEF Chain
    <3>3. Base(u, i, q[i].id, f, r) = Base(q, i, q[i].id, f, r)
      BY <1>4, <3>1
    <3> QED
      BY <3>1, <3>2, <3>3, Zenon
  <2>2. CASE i = Len(q) + 1
    <3>1. u[i] = e /\ Len(q) + 1 \in 1 .. Len(q) + 1
      BY <1>1, <2>2
    <3>2. c = Base(q, Len(q) + 1, n, f, r)
      BY <1>5, <3>1 DEF Chain
    <3>3. Base(u, Len(q) + 1, n, f, r) = Base(q, Len(q) + 1, n, f, r)
      BY <1>4, <3>1
    <3> QED
      BY <1>5, <2>2, <3>1, <3>2, <3>3, Zenon
  <2> QED
    BY <1>2, <2>1, <2>2
<1>6. d = Base(u, Len(u) + 1, k, f, r)
  <2>1. Len(u) + 1 > 1 /\ (Len(u) + 1) - 1 = Len(q) + 1
    BY <1>1
  <2>2. u[(Len(u) + 1) - 1] = e
    BY <1>1, <2>1
  <2> QED
    BY <2>1, <2>2, Zenon DEF Base
<1> QED
  BY <1>5, <1>6 DEF Chain, u

\* The first t of the queue are all there is of the sentence g of the last of
\* them, and of the sentence f the worker is in; n is the one being spoken.
Apart(q, t, f, g, n) ==
  /\ g = q[t].id
  /\ \A i \in 1 .. Len(q) : t < i => q[i].id # g /\ q[i].id # f
  /\ (n = g => t = Len(q)) /\ (n = f => n = g)

\* What nextWork leaves, when the worker goes into the sentence of the last
\* event it took.
LEMMA ChainRests ==
  ASSUME NEW q \in Seq(Events), NEW f, NEW r, NEW l \in BOOLEAN, NEW n, NEW c, NEW t \in 1 .. Len(q), NEW g,
         NEW m \in BOOLEAN, NEW x, Chain(q, f, r, l, n, c), Apart(q, t, f, g, n),
         l /\ f = g => m, m \/ x = Upto(q[t])
  PROVE  Chain(Cut(q, t, Len(q)), g, x, m, n, c)
<1>0. /\ g = q[t].id /\ \A i \in 1 .. Len(q) : t < i => q[i].id # g /\ q[i].id # f
      /\ (n = g => t = Len(q)) /\ (n = f => n = g)
  BY Zenon DEF Apart
<1>1. PICK u \in Seq(Events) : u = Cut(q, t, Len(q)) /\ IsCut(u, q, t, Len(q))
  BY RestIs, Zenon
<1>2. /\ Len(q) \in Nat /\ Len(u) = Len(q) - t
      /\ \A i \in 1 .. Len(u) : t + i \in 1 .. Len(q) /\ t < t + i /\ u[i] = q[t + i]
  <2>1. Len(q) \in Nat
    BY LenProperties
  <2> QED
    BY <1>1, <2>1 DEF IsCut
<1>3. ASSUME NEW i \in 1 .. Len(u) + 1, NEW id, id # g, id # f
      PROVE  Base(u, i, id, g, x) = Base(q, t + i, id, f, r)
  <2>1. CASE i = 1
    <3>1. (t + i) - 1 = t /\ ~(i > 1)
      BY <2>1
    <3> QED
      BY <1>0, <1>3, <3>1, Zenon DEF Base
  <2>2. CASE i # 1
    <3>1. i > 1 /\ t + i > 1 /\ i - 1 \in 1 .. Len(u) /\ t + (i - 1) = (t + i) - 1
      BY <1>2, <2>2
    <3>2. u[i - 1] = q[(t + i) - 1]
      BY <1>2, <3>1
    <3> QED
      BY <1>3, <3>1, <3>2, Zenon DEF Base
  <2> QED
    BY <2>1, <2>2
<1>4. ASSUME NEW i \in 1 .. Len(u), Plain(u[i]), ~(m /\ u[i].id = g)
      PROVE  Spans(u[i], Base(u, i, u[i].id, g, x))
  <2>1. t + i \in 1 .. Len(q) /\ u[i] = q[t + i] /\ u[i].id # g /\ u[i].id # f
    BY <1>0, <1>2
  <2>2. Spans(q[t + i], Base(q, t + i, q[t + i].id, f, r))
    BY <1>4, <2>1 DEF Chain
  <2>3. i \in 1 .. Len(u) + 1
    BY <1>2
  <2>4. Base(u, i, u[i].id, g, x) = Base(q, t + i, u[i].id, f, r)
    BY <1>3, <2>1, <2>3
  <2> QED
    BY <2>1, <2>2, <2>4, Zenon
<1>5. ASSUME ~(m /\ n = g) PROVE c = Base(u, Len(u) + 1, n, g, x)
  <2>1. Len(u) + 1 \in 1 .. Len(u) + 1 /\ t + (Len(u) + 1) = Len(q) + 1
    BY <1>2
  <2>2. CASE n # g
    <3>1. c = Base(q, Len(q) + 1, n, f, r)
      BY <1>0, <2>2 DEF Chain
    <3>2. Base(u, Len(u) + 1, n, g, x) = Base(q, t + (Len(u) + 1), n, f, r)
      BY <1>0, <1>3, <2>1, <2>2
    <3> QED
      BY <2>1, <3>1, <3>2
  <2>3. CASE n = g
    <3>1. t = Len(q) /\ x = Upto(q[t]) /\ ~(l /\ n = f)
      BY <1>0, <1>5, <2>3
    <3>2. c = Base(q, Len(q) + 1, n, f, r)
      BY <3>1 DEF Chain
    <3>3. Len(q) + 1 > 1 /\ (Len(q) + 1) - 1 = t
      BY <1>2, <3>1
    <3>4. c = Upto(q[t])
      BY <1>0, <2>3, <3>2, <3>3, Zenon DEF Base
    <3>5. ~(Len(u) + 1 > 1)
      BY <1>2, <3>1
    <3>6. Base(u, Len(u) + 1, n, g, x) = x
      BY <2>3, <3>5, Zenon DEF Base
    <3> QED
      BY <3>1, <3>4, <3>6
  <2> QED
    BY <2>2, <2>3
<1> QED
  BY <1>1, <1>4, <1>5, Zenon DEF Chain

\* Events of one sentence, taken together.
LEMMA RunText ==
  ASSUME NEW q \in Seq(Events), NEW f, NEW r, NEW l \in BOOLEAN, NEW n, NEW c, Chain(q, f, r, l, n, c),
         NEW t \in 1 .. Len(q), NEW g \in Nat \ {0}, ~(l /\ g = f),
         \A i \in 1 .. t : Plain(q[i]) /\ q[i].id = g
  PROVE  /\ Base(q, 1, g, f, r) \in Nat /\ Upto(q[t]) \in Nat
         /\ Base(q, 1, g, f, r) <= Upto(q[t])
         /\ FlattenSeq([k \in 1 .. t |-> q[k].delta]) = Piece(g, Base(q, 1, g, f, r), Upto(q[t]))
<1>1. t \in Nat \ {0} /\ Len(q) \in Nat /\ \A i \in 1 .. t : i \in 1 .. Len(q)
  BY LenProperties
<1>2. \A i \in 1 .. t : Spans(q[i], Base(q, i, g, f, r))
  <2> SUFFICES ASSUME NEW i \in 1 .. t PROVE Spans(q[i], Base(q, i, g, f, r))
    OBVIOUS
  <2>1. i \in 1 .. Len(q) /\ Plain(q[i]) /\ q[i].id = g
    BY <1>1
  <2> QED
    BY <2>1 DEF Chain
<1> DEFINE p == [k \in 0 .. t |-> IF k = 0 THEN Base(q, 1, g, f, r) ELSE Upto(q[k])]
<1>3. p[0] = Base(q, 1, g, f, r) /\ p[t] = Upto(q[t])
  BY <1>1
<1>4. p \in [0 .. t -> Nat]
  <2>1. Base(q, 1, g, f, r) \in Nat
    BY <1>1, <1>2, 1 \in 1 .. t DEF Spans
  <2>2. \A k \in 1 .. t : Upto(q[k]) \in Nat
    BY <1>2 DEF Spans
  <2>3. \A k \in 0 .. t : k # 0 => k \in 1 .. t
    BY <1>1
  <2> QED
    BY <2>1, <2>2, <2>3
<1>5. \A k \in 1 .. t : p[k - 1] = Base(q, k, g, f, r) /\ p[k] = Upto(q[k])
  <2> SUFFICES ASSUME NEW k \in 1 .. t PROVE p[k - 1] = Base(q, k, g, f, r) /\ p[k] = Upto(q[k])
    OBVIOUS
  <2>1. CASE k = 1
    BY <1>1, <2>1
  <2>2. CASE k # 1
    <3>1. k > 1 /\ k - 1 \in 1 .. t /\ k - 1 \in 0 .. t /\ k - 1 # 0
      BY <1>1, <2>2
    <3>2. p[k - 1] = Upto(q[k - 1]) /\ p[k] = Upto(q[k])
      BY <1>1, <3>1
    <3>3. q[k - 1].id = g
      BY <3>1
    <3> HIDE DEF p
    <3> QED
      BY <3>1, <3>2, <3>3, Zenon DEF Base
  <2> QED
    BY <2>1, <2>2
<1> HIDE DEF p
<1>6. PICK s \in Seq(Seq(Word)) : s = [k \in 1 .. t |-> q[k].delta]
  <2>1. t \in 0 .. Len(q)
    BY <1>1
  <2> QED
    BY <2>1, RunOf
<1>7. Len(s) = t /\ \A k \in 1 .. t : s[k] = q[k].delta
  BY <1>1, <1>6
<1>8. \A k \in 1 .. Len(s) : p[k - 1] <= p[k] /\ s[k] = Words(g, "heard", p[k - 1] + 1, p[k])
  BY <1>2, <1>5, <1>7 DEF Spans, Piece
<1>9. p[0] <= p[Len(s)] /\ FlattenSeq(s) = Words(g, "heard", p[0] + 1, p[Len(s)])
  BY <1>4, <1>7, <1>8, WordsChain DEF Versions
<1>10. p[0] \in Nat /\ p[t] \in Nat
  BY <1>1, <1>4
<1> QED
  BY <1>3, <1>6, <1>7, <1>9, <1>10 DEF Piece

\* The queued finals: with words, those heard unless they diverged, and, without
\* drafts, all of them still to translate.
Sources(q, drafts) ==
  \A i \in 1 .. Len(q) : q[i].kind = "Final" =>
     /\ q[i].source # <<>>
     /\ ~q[i].diverged => q[i].source = Piece(q[i].id, 0, Len(q[i].source))
     /\ ~drafts => ~q[i].diverged /\ q[i].delta = q[i].source

\* The worker translates a final, or has.
Translating == pc \in {"append", "show", "resolve", "reset"} /\ work.kind = "Final"

\* The sentence the worker is in, counting a piece in hand, how far into it, and
\* whether a piece of it failed.
SegmentWords == IF segment = NoSegment THEN 0 ELSE Len(segment)
Ahead == IF OnPiece THEN work.id ELSE workerSentenceId
Reached == IF OnPiece THEN Upto(work) ELSE SegmentWords
Lost == pieceFailed /\ workerSentenceId = Ahead

\* Without drafts nothing is committed, and a segment lives as long as its final.
Undrafted ==
  Live /\ ~setup.drafts => committed = 0 /\ (~Translating => segment = NoSegment)

QueueTexts ==
  Live => /\ Sources(queue, setup.drafts)
          /\ Chain(queue, Ahead, Reached, Lost, inputSentenceId, committed)

\* The segment as the event in hand finds it, in its sentence.
Broken == pieceFailed /\ workerSentenceId = work.id
Held == IF workerSentenceId = work.id THEN SegmentWords ELSE 0
HeldText == IF workerSentenceId = work.id /\ segment # NoSegment THEN segment ELSE <<>>

PieceInHand ==
  work.kind = "Commit" =>
     /\ pc = "enter" /\ ~Broken => Spans(work, Held)
     /\ pc \in {"append", "show"} /\ ~pieceFailed => Spans(work, Len(segment))

FinalInHand ==
  work.kind = "Final" =>
     /\ pc = "enter" => work.source # <<>> /\ (~work.diverged /\ ~Broken => HeldText \o work.delta = work.source)
     /\ pc \in {"append", "show"} => segment \o work.delta = work.source
     /\ pc = "resolve" => (IF segment = NoSegment THEN workerTranslation ELSE segment) = work.source

\* Between finals, the segment is the start of its sentence as it was heard.
SegmentHeard ==
  segment # NoSegment /\ ~Translating /\ ~pieceFailed => segment = Piece(workerSentenceId, 0, Len(segment))

Texts ==
  /\ FinalTranslatesItsSentence /\ Undrafted /\ QueueTexts /\ PieceInHand /\ FinalInHand /\ SegmentHeard

\* A worker that is over keeps the captions.
LEMMA OverTexts ==
  ASSUME Texts, pc' \in Over, segment' = NoSegment, UNCHANGED captions
  PROVE  Texts'
<1>1. FinalTranslatesItsSentence'
  BY DEF Texts, FinalTranslatesItsSentence
<1>2. ~Live' /\ pc' \notin {"enter", "append", "show", "resolve"}
  BY DEF Live, Over
<1> QED
  BY <1>1, <1>2 DEF Texts, Undrafted, QueueTexts, PieceInHand, FinalInHand, SegmentHeard

\* A step that leaves the worker where it is, or between the tokens, or between
\* the events.
LEMMA QuietTexts ==
  ASSUME Texts,
         UNCHANGED <<setup, inputSentenceId, committed, queue, segment, workerSentenceId, pieceFailed,
                     work, captions>>,
         \/ pc' = pc /\ workerTranslation' = workerTranslation
         \/ pc \in Waiting /\ pc' \in Waiting
         \/ pc \in {"append", "show"} /\ pc' \in {"append", "show"}
  PROVE  Texts'
<1>1. FinalTranslatesItsSentence'
  BY DEF Texts, FinalTranslatesItsSentence
<1>2. /\ Live' = Live /\ Translating' = Translating /\ OnPiece' = OnPiece
      /\ (pc' = "enter") = (pc = "enter") /\ (pc' = "resolve" => pc' = pc /\ UNCHANGED workerTranslation)
      /\ (pc' \in {"append", "show"}) = (pc \in {"append", "show"})
  BY DEF Live, Over, Translating, OnPiece, Pending, Waiting
<1>3. Ahead' = Ahead /\ Reached' = Reached
  BY <1>2 DEF Ahead, Reached, SegmentWords
<1>4. Lost' = Lost /\ Broken' = Broken /\ Held' = Held /\ HeldText' = HeldText
  BY <1>3, Zenon DEF Lost, Broken, Held, HeldText, SegmentWords
<1>5. Undrafted' /\ QueueTexts' /\ PieceInHand' /\ SegmentHeard'
  BY <1>2, <1>3, <1>4, Zenon DEF Texts, Undrafted, QueueTexts, PieceInHand, SegmentHeard
<1>6. FinalInHand'
  BY <1>2, <1>4, Zenon DEF Texts, FinalInHand
<1> QED
  BY <1>1, <1>5, <1>6 DEF Texts

\* What joins the queue has its sources, if it has.
LEMMA SourcesGrow ==
  ASSUME NEW q \in Seq(Events), NEW d, Sources(q, d), NEW e \in Events,
         e.kind = "Final" => /\ e.source # <<>>
                             /\ ~e.diverged => e.source = Piece(e.id, 0, Len(e.source))
                             /\ ~d => ~e.diverged /\ e.delta = e.source
  PROVE  Sources(Append(q, e), d)
<1> DEFINE u == Append(q, e)
<1>1. /\ Len(u) = Len(q) + 1 /\ u[Len(q) + 1] = e
      /\ \A i \in 1 .. Len(q) : u[i] = q[i]
  BY AppendProperties
<1> HIDE DEF u
<1>2. \A i \in 1 .. Len(u) : i \in 1 .. Len(q) \/ i = Len(q) + 1
  BY <1>1, LenProperties
<1>3. Sources(u, d)
  <2> SUFFICES ASSUME NEW i \in 1 .. Len(u), u[i].kind = "Final"
               PROVE  /\ u[i].source # <<>>
                      /\ ~u[i].diverged => u[i].source = Piece(u[i].id, 0, Len(u[i].source))
                      /\ ~d => ~u[i].diverged /\ u[i].delta = u[i].source
    BY DEF Sources
  <2>1. CASE i \in 1 .. Len(q)
    <3>1. u[i] = q[i]
      BY <1>1, <2>1
    <3> QED
      BY <2>1, <3>1, Zenon DEF Sources
  <2>2. CASE i = Len(q) + 1
    <3>1. u[i] = e
      BY <1>1, <2>2
    <3> QED
      BY <3>1, Zenon
  <2> QED
    BY <1>2, <2>1, <2>2
<1> QED
  BY <1>3 DEF u

\* onPartial queues the words after those committed.
LEMMA OnPartialTexts ==
  ASSUME Typed, Texts, NEW n \in 1 .. MaxWords, OnPartial(n)
  PROVE  Texts'
<1>1. UNCHANGED <<setup, inputSentenceId, pc, work, sentenceVars, captions>>
  BY DEF OnPartial, outputVars
<1>2. CASE UNCHANGED <<committed, queue>>
  BY <1>1, <1>2, QuietTexts DEF sentenceVars
<1>3. CASE queue' # queue \/ committed' # committed
  <2>1. setup.drafts /\ queue \in Seq(Events) /\ committed \in Nat /\ inputSentenceId \in Nat \ {0}
    BY <1>3 DEF OnPartial, Typed
  <2>2. PICK c \in (committed + 1) .. Min({n, previewSource}) :
           /\ queue' = Append(queue, Commit(inputSentenceId,
                           Words(inputSentenceId, "heard", committed + 1, c)))
           /\ committed' = c
    BY <1>3 DEF OnPartial
  <2>3. c \in Nat /\ committed < c /\ committed <= c
    <3>1. n \in Nat /\ previewSource \in Nat
      BY ConstantsAssumption DEF Typed
    <3>2. Min({n, previewSource}) \in Nat
      BY <3>1, MinOfTwo
    <3> QED
      BY <2>1, <3>2
  <2>4. PICK e \in Commits : /\ queue' = Append(queue, e) /\ e.kind = "Commit" /\ e.id = inputSentenceId
                             /\ e.delta = Piece(inputSentenceId, committed, c)
    BY <2>2, <2>3, CommitTyped DEF Commit, Piece
  <2>5. Upto(e) = c /\ Spans(e, committed) /\ e \in Events
    BY <2>1, <2>3, <2>4, PieceSpans DEF Events
  <2>6. Ahead' = Ahead /\ Reached' = Reached /\ Lost' = Lost /\ Live' = Live
    BY <1>1 DEF sentenceVars, Ahead, Reached, Lost, Live, SegmentWords, OnPiece, Pending
  <2>7. QueueTexts'
    <3> SUFFICES ASSUME Live
                 PROVE  Sources(queue', setup.drafts) /\ Chain(queue', Ahead, Reached, Lost, inputSentenceId, c)
      BY <1>1, <2>2, <2>6 DEF QueueTexts
    <3>1. Sources(queue, setup.drafts) /\ Chain(queue, Ahead, Reached, Lost, inputSentenceId, committed)
      BY DEF Texts, QueueTexts
    <3>2. Sources(queue', setup.drafts)
      <4>1. Sources(Append(queue, e), setup.drafts)
        BY <2>1, <2>4, <2>5, <3>1, SourcesGrow
      <4> QED
        BY <2>4, <4>1
    <3>3. Chain(queue', Ahead, Reached, Lost, inputSentenceId, c)
      <4>1. Lost \in BOOLEAN
        BY Zenon DEF Lost
      <4>2. PICK k \in Nat, d \in Nat : k = inputSentenceId /\ d = c /\ d = Upto(e)
        BY <2>1, <2>3, <2>5
      <4>3. Plain(e) => Spans(e, committed)
        BY <2>5
      <4>4. Chain(Append(queue, e), Ahead, Reached, Lost, k, d)
        BY <2>1, <2>4, <2>5, <3>1, <4>1, <4>2, <4>3, ChainGrows
      <4> QED
        BY <2>4, <4>2, <4>4
    <3> QED
      BY <3>2, <3>3
  <2>8. FinalTranslatesItsSentence'
    BY <1>1 DEF Texts, FinalTranslatesItsSentence
  <2>9. Undrafted'
    BY <1>1, <2>1 DEF Undrafted
  <2>10. PieceInHand' /\ FinalInHand' /\ SegmentHeard'
    BY <1>1, Zenon DEF Texts, PieceInHand, FinalInHand, SegmentHeard, sentenceVars, Broken, Held, HeldText,
       SegmentWords, Translating
  <2> QED
    BY <2>7, <2>8, <2>9, <2>10 DEF Texts
<1> QED
  BY <1>2, <1>3

\* The worker is not ahead of the sentence being spoken.
LEMMA AheadIsNotAfter ==
  ASSUME Typed, Order, Floor, Live
  PROVE  Ahead \in Nat /\ Ahead <= inputSentenceId
<1>1. CASE OnPiece
  <2>1. pc \in Working
    BY <1>1 DEF OnPiece, Pending, Working
  <2> QED
    BY <1>1, <2>1, WorkIsNext DEF Ahead
<1>2. CASE ~OnPiece
  BY <1>2 DEF Ahead, Floor, Typed
<1> QED
  BY <1>1, <1>2

\* onFinal queues the final, with the words after those committed.
LEMMA OnFinalTexts ==
  ASSUME Typed, Order, Floor, Texts, NEW c \in Callers, NEW n \in 1 .. MaxWords, OnFinal(c, n)
  PROVE  Texts'
<1>1. /\ UNCHANGED <<setup, pc, work, sentenceVars, captions>>
      /\ inputSentenceId' = inputSentenceId + 1 /\ committed' = 0
  BY DEF OnFinal, outputVars
<1>2. PICK diverged, source :
         /\ diverged \in BOOLEAN
         /\ source = Words(inputSentenceId, IF diverged THEN "revised" ELSE "heard", 1, n)
         /\ IF diverged THEN committed > 0 ELSE committed <= n
         /\ heard' = Append(heard, source)
         /\ queue' = Append(queue, Final(inputSentenceId, source,
                           IF diverged THEN <<>> ELSE SubSeq(source, committed + 1, n), diverged))
  BY DEF OnFinal
<1>3. n \in Nat \ {0} /\ committed \in Nat /\ inputSentenceId \in Nat \ {0} /\ queue \in Seq(Events)
  BY ConstantsAssumption DEF Typed
<1>4. PICK e \in Finals : /\ queue' = Append(queue, e) /\ e.id = inputSentenceId /\ e.source = source
                          /\ source \in Seq(Word) /\ Len(source) = n /\ e.diverged = diverged
                          /\ ~diverged => e.delta = Piece(inputSentenceId, committed, n)
  <2> DEFINE f == Final(inputSentenceId, source,
                        IF diverged THEN <<>> ELSE SubSeq(source, committed + 1, n), diverged)
  <2>1. f \in Finals /\ source \in Seq(Word) /\ Len(source) = n
    BY <1>2, <1>3, FinalTyped
  <2>2. /\ f.id = inputSentenceId /\ f.source = source /\ f.diverged = diverged
        /\ ~diverged => f.delta = SubSeq(source, committed + 1, n)
    BY DEF Final
  <2>3. ~diverged => SubSeq(source, committed + 1, n) = Piece(inputSentenceId, committed, n)
    BY <1>2, <1>3, FinalTyped DEF Piece
  <2>4. queue' = Append(queue, f)
    BY <1>2
  <2> HIDE DEF f
  <2> QED
    BY <2>1, <2>2, <2>3, <2>4
<1>5. e \in Events /\ e.kind = "Final" /\ Upto(e) = n /\ source # <<>>
  <2>1. e \in Events /\ e.kind = "Final"
    BY DEF Events, Finals
  <2> QED
    BY <1>3, <1>4, <2>1, EmptySeq DEF Upto
<1>6. ~diverged => source = Piece(inputSentenceId, 0, n)
  <2>1. 0 + 1 = 1
    OBVIOUS
  <2> QED
    BY <1>2, <2>1 DEF Piece
<1>7. Plain(e) => Spans(e, committed)
  BY <1>2, <1>3, <1>4, <1>5 DEF Plain, Spans
<1>8. Ahead' = Ahead /\ Reached' = Reached /\ Lost' = Lost /\ Live' = Live
  BY <1>1 DEF sentenceVars, Ahead, Reached, Lost, Live, SegmentWords, OnPiece, Pending
<1>9. QueueTexts'
  <2> SUFFICES ASSUME Live
               PROVE  /\ Sources(queue', setup.drafts)
                      /\ Chain(queue', Ahead, Reached, Lost, inputSentenceId + 1, 0)
    BY <1>1, <1>8 DEF QueueTexts
  <2>1. Sources(queue, setup.drafts) /\ Chain(queue, Ahead, Reached, Lost, inputSentenceId, committed)
    BY DEF Texts, QueueTexts
  <2>2. ~setup.drafts => ~diverged /\ e.delta = source
    BY <1>2, <1>4, <1>6 DEF Texts, Undrafted
  <2>3. Sources(queue', setup.drafts)
    <3>1. Sources(Append(queue, e), setup.drafts)
      BY <1>3, <1>4, <1>5, <1>6, <2>1, <2>2, SourcesGrow
    <3> QED
      BY <1>4, <3>1
  <2>4. Chain(queue', Ahead, Reached, Lost, inputSentenceId + 1, 0)
    <3>1. Lost \in BOOLEAN
      BY Zenon DEF Lost
    <3>2. PICK k \in Nat : k = inputSentenceId + 1 /\ k # inputSentenceId /\ k # Ahead
      BY <1>3, AheadIsNotAfter
    <3>3. Chain(Append(queue, e), Ahead, Reached, Lost, k, 0)
      BY <1>3, <1>4, <1>5, <1>7, <2>1, <3>1, <3>2, ChainGrows
    <3> QED
      BY <1>4, <3>2, <3>3
  <2> QED
    BY <2>3, <2>4
<1>10. FinalTranslatesItsSentence'
  BY <1>1 DEF Texts, FinalTranslatesItsSentence
<1>11. Undrafted'
  BY <1>1, <1>8, Zenon DEF Texts, Undrafted, Translating, sentenceVars
<1>12. PieceInHand' /\ FinalInHand' /\ SegmentHeard'
  BY <1>1, Zenon DEF Texts, PieceInHand, FinalInHand, SegmentHeard, sentenceVars, Broken, Held, HeldText,
     SegmentWords, Translating
<1> QED
  BY <1>9, <1>10, <1>11, <1>12 DEF Texts

\* What nextWork leaves has its sources.
LEMMA SourcesRest ==
  ASSUME NEW q \in Seq(Events), NEW d, Sources(q, d), NEW t \in 1 .. Len(q)
  PROVE  Sources(Cut(q, t, Len(q)), d)
<1>1. PICK u \in Seq(Events) : u = Cut(q, t, Len(q)) /\ IsCut(u, q, t, Len(q))
  BY RestIs, Zenon
<1>2. \A i \in 1 .. Len(u) : t + i \in 1 .. Len(q) /\ u[i] = q[t + i]
  <2>1. Len(q) \in Nat
    BY LenProperties
  <2> QED
    BY <1>1, <2>1 DEF IsCut
<1>3. Sources(u, d)
  <2> SUFFICES ASSUME NEW i \in 1 .. Len(u), u[i].kind = "Final"
               PROVE  /\ u[i].source # <<>>
                      /\ ~u[i].diverged => u[i].source = Piece(u[i].id, 0, Len(u[i].source))
                      /\ ~d => ~u[i].diverged /\ u[i].delta = u[i].source
    BY DEF Sources
  <2>1. PICK j \in 1 .. Len(q) : u[i] = q[j]
    BY <1>2
  <2> QED
    BY <2>1, Zenon DEF Sources
<1> QED
  BY <1>1, <1>3

\* What nextWork takes if it starts with a piece: pieces of one sentence, and
\* its final at most.
LEMMA TakenRun ==
  ASSUME NEW q \in Seq(Events), q # <<>>, Sorted(q), q[1].kind = "Commit"
  PROVE  \A i \in 1 .. Taken(q) :
            q[i].id = q[Taken(q)].id /\ (i # Taken(q) => q[i].kind = "Commit")
<1>1. PICK t \in 1 .. Len(q) : t = Taken(q) /\ q[t].id = q[1].id
  BY TakenIs
<1>2. Len(q) \in Nat /\ 1 \in 1 .. Len(q)
  <2>1. Len(q) \in Nat
    BY LenProperties
  <2> QED
    BY <2>1
<1>3. \A i \in 1 .. Len(q) : q[i] \in Events /\ q[i].id \in Nat /\ (q[i].kind = "Commit" \/ q[i].kind = "Final")
  BY ElementOfSeq, Kinds
<1>4. ASSUME NEW i \in 1 .. t, i # t PROVE q[i].id = q[t].id /\ q[i].kind = "Commit"
  <2>1. i \in 1 .. Len(q) /\ i < t
    BY <1>2, <1>4
  <2>2. q[i].id <= q[t].id /\ (q[i].kind = "Final" => q[i].id < q[t].id)
    BY <2>1 DEF Sorted
  <2>3. q[1].id <= q[i].id
    <3>1. i = 1 \/ 1 < i
      BY <1>2
    <3> QED
      BY <1>2, <1>3, <2>1, <3>1 DEF Sorted
  <2> QED
    BY <1>1, <1>2, <1>3, <2>1, <2>2, <2>3
<1> QED
  BY <1>1, <1>4

\* The worker between its events, and what nextWork finds.
LEMMA AtTake ==
  ASSUME Typed, Order, Floor, Texts, pc = "take"
  PROVE  /\ Live /\ ~OnPiece /\ ~Translating
         /\ Chain(queue, workerSentenceId, SegmentWords, pieceFailed, inputSentenceId, committed)
         /\ Sources(queue, setup.drafts)
         /\ Ordered(queue, heard, resolved, inputSentenceId)
         /\ workerSentenceId <= inputSentenceId
         /\ \A i \in 1 .. Len(queue) : workerSentenceId <= queue[i].id
         /\ ~setup.drafts => segment = NoSegment
<1>1. Live /\ ~OnPiece /\ ~Translating /\ Done = resolved
  BY DEF Live, Over, OnPiece, Pending, Translating, Done, OnFinalWork
<1>2. Ahead = workerSentenceId /\ Reached = SegmentWords
  BY <1>1 DEF Ahead, Reached
<1>3. Lost = pieceFailed
  BY <1>2, Zenon DEF Lost, Typed
<1> QED
  BY <1>1, <1>2, <1>3 DEF Texts, QueueTexts, Undrafted, Floor, Order, QueueInOrder

\* Pieces taken together go on from the segment, if they are of its sentence.
LEMMA TakePieceTexts ==
  ASSUME Typed, Order, Floor, Texts, TakeWork, queue # <<>>, queue[Taken(queue)].kind = "Commit"
  PROVE  Texts'
<1>1. /\ pc = "take" /\ pc' = "enter" /\ work' = Merged(queue)
      /\ queue' = Cut(queue, Taken(queue), Len(queue))
      /\ UNCHANGED <<setup, inputSentenceId, committed, sentenceVars, captions>>
  BY DEF TakeWork, Cut, inputVars, outputVars
<1>2. /\ queue \in Seq(Events) /\ setup.drafts \in BOOLEAN /\ (~setup.drafts => queue \in Seq(Finals))
      /\ inputSentenceId \in Nat \ {0} /\ resolved \in Nat /\ workerSentenceId \in Nat /\ pieceFailed \in BOOLEAN
      /\ committed \in Nat
  BY DEF Typed
<1>3. PICK t \in 1 .. Len(queue) : t = Taken(queue)
  BY <1>2, TakenIs
<1>4. work' \in Commits /\ work'.kind = "Commit" /\ work'.id = queue[t].id
  BY <1>1, <1>2, <1>3, MergedIs, Kinds
<1>5. work'.delta = FlattenSeq([k \in 1 .. t |-> queue[k].delta])
  BY <1>1, <1>3 DEF Merged, Commit
<1>6. /\ Live /\ ~Translating /\ setup.drafts
      /\ Chain(queue, workerSentenceId, SegmentWords, pieceFailed, inputSentenceId, committed)
      /\ Sources(queue, setup.drafts)
      /\ Ordered(queue, heard, resolved, inputSentenceId)
      /\ workerSentenceId <= inputSentenceId
      /\ \A i \in 1 .. Len(queue) : workerSentenceId <= queue[i].id
  BY <1>1, <1>2, AtTake, TakenPiece
<1>7. PICK g \in Nat \ {0} : g = queue[t].id /\ workerSentenceId <= g
  <2>1. queue[t].id \in Nat \ {0}
    BY <1>2, ElementOfSeq, Kinds
  <2> QED
    BY <1>6, <2>1
<1>8. /\ g <= inputSentenceId
      /\ \A i \in 1 .. Len(queue) : t < i => g < queue[i].id /\ queue[i].id <= inputSentenceId
      /\ \A i \in 1 .. t : queue[i].kind = "Commit" /\ queue[i].id = g
  <2>1. \A i \in 1 .. Len(queue) : queue[i].id <= inputSentenceId
    BY <1>6 DEF Ordered, Within
  <2>2. /\ queue[t].id <= inputSentenceId
        /\ \A i \in 1 .. Len(queue) : t < i => queue[t].id < queue[i].id
        /\ \A i \in 1 .. t : queue[i].kind = "Commit" /\ queue[i].id = queue[t].id
    BY <1>2, <1>3, <1>6, TakenPiece
  <2> QED
    BY <1>7, <2>1, <2>2
<1>9. PICK f, r, l : /\ f = workerSentenceId /\ r = SegmentWords /\ l = pieceFailed /\ l \in BOOLEAN
                     /\ Chain(queue, f, r, l, inputSentenceId, committed)
                     /\ Held' = Base(queue, 1, g, f, r)
                     /\ Broken' = (l /\ g = f)
  <2>1. ~(1 > 1)
    OBVIOUS
  <2>2. Held' = Base(queue, 1, g, workerSentenceId, SegmentWords)
    BY <1>1, <1>4, <1>7, <2>1, Zenon DEF Held, Base, SegmentWords, sentenceVars
  <2>3. Broken' = (pieceFailed /\ g = workerSentenceId)
    BY <1>1, <1>4, <1>7, Zenon DEF Broken, sentenceVars
  <2> QED
    BY <1>2, <1>6, <2>2, <2>3
<1>10. ASSUME ~Broken' PROVE Upto(work') = Upto(queue[t]) /\ Spans(work', Held')
  <2>1. ~(l /\ g = f)
    BY <1>9, <1>10
  <2>2. \A i \in 1 .. t : Plain(queue[i]) /\ queue[i].id = g
    BY <1>8 DEF Plain
  <2>3. /\ Base(queue, 1, g, f, r) \in Nat /\ Upto(queue[t]) \in Nat
        /\ Base(queue, 1, g, f, r) <= Upto(queue[t])
        /\ FlattenSeq([k \in 1 .. t |-> queue[k].delta]) = Piece(g, Base(queue, 1, g, f, r), Upto(queue[t]))
    BY <1>2, <1>9, <2>1, <2>2, RunText
  <2> QED
    BY <1>4, <1>5, <1>7, <1>9, <2>3, PieceSpans
<1>11. Chain(queue', g, Upto(work'), Broken', inputSentenceId, committed)
  <2>1. \A i \in 1 .. Len(queue) : t < i => queue[i].id # g /\ queue[i].id # f
    <3> SUFFICES ASSUME NEW i \in 1 .. Len(queue), t < i
                 PROVE  queue[i].id # g /\ queue[i].id # f
      OBVIOUS
    <3>1. queue[i].id \in Nat /\ g < queue[i].id
      BY <1>2, <1>8, ElementOfSeq, Kinds
    <3> QED
      BY <1>2, <1>7, <1>9, <3>1
  <2>2. inputSentenceId = g => t = Len(queue)
    <3> SUFFICES ASSUME inputSentenceId = g, t # Len(queue) PROVE FALSE
      OBVIOUS
    <3>1. Len(queue) \in 1 .. Len(queue) /\ t < Len(queue)
      BY <1>2, LenProperties
    <3>2. queue[Len(queue)].id \in Nat
      BY <1>2, <3>1, ElementOfSeq, Kinds
    <3> QED
      BY <1>8, <3>1, <3>2
  <2>3. inputSentenceId = f => inputSentenceId = g
    BY <1>2, <1>7, <1>8, <1>9
  <2>4. PICK m, x : m \in BOOLEAN /\ (l /\ f = g => m) /\ m = Broken' /\ x = Upto(work')
    BY <1>9
  <2>5. m \/ x = Upto(queue[t])
    BY <1>10, <2>4
  <2>6. Chain(Cut(queue, t, Len(queue)), g, x, m, inputSentenceId, committed)
    <3>1. Apart(queue, t, f, g, inputSentenceId)
      BY <1>7, <2>1, <2>2, <2>3 DEF Apart
    <3> QED
      BY <1>2, <1>9, <2>4, <2>5, <3>1, ChainRests
  <2> QED
    BY <1>1, <1>3, <2>4, <2>6
<1>12. OnPiece' /\ ~Translating'
  BY <1>1, <1>4 DEF OnPiece, Pending, Translating
<1>13. Ahead' = g /\ Reached' = Upto(work')
  BY <1>4, <1>7, <1>12, Zenon DEF Ahead, Reached
<1>14. Lost' = Broken'
  BY <1>4, <1>7, <1>13, Zenon DEF Lost, Broken
<1>15. QueueTexts'
  <2>1. Sources(Cut(queue, t, Len(queue)), setup.drafts)
    BY <1>2, <1>6, SourcesRest
  <2>2. Sources(queue', setup.drafts)
    BY <1>1, <1>3, <2>1
  <2> QED
    BY <1>1, <1>11, <1>13, <1>14, <2>2, Zenon DEF QueueTexts
<1>16. FinalTranslatesItsSentence'
  BY <1>1 DEF Texts, FinalTranslatesItsSentence
<1>17. Undrafted' /\ PieceInHand' /\ FinalInHand'
  BY <1>1, <1>4, <1>6, <1>10 DEF Undrafted, PieceInHand, FinalInHand
<1>18. SegmentHeard'
  BY <1>1, <1>6, <1>12, Zenon DEF Texts, SegmentHeard, sentenceVars
<1> QED
  BY <1>15, <1>16, <1>17, <1>18 DEF Texts

\* The start of a sentence, and a piece that follows it.
LEMMA StartJoins ==
  ASSUME NEW id \in Nat \ {0}, NEW a \in Nat, NEW b \in Nat, a <= b
  PROVE  Piece(id, 0, a) \o Piece(id, a, b) = Piece(id, 0, b)
<1>1. 0 \in Nat /\ 0 <= a
  OBVIOUS
<1> QED
  BY <1>1, PiecesJoin, Zenon

\* The final nextWork takes, with what is left to translate of it.
LEMMA TakenFinalText ==
  ASSUME Typed, Order, Floor, Texts, TakeWork, queue # <<>>, queue[Taken(queue)].kind = "Final"
  PROVE  /\ work'.source # <<>>
         /\ ~work'.diverged /\ ~Broken' => HeldText' \o work'.delta = work'.source
<1>1. /\ pc = "take" /\ work' = Merged(queue) /\ UNCHANGED sentenceVars
  BY DEF TakeWork
<1>2. /\ queue \in Seq(Events) /\ setup.drafts \in BOOLEAN /\ (~setup.drafts => queue \in Seq(Finals))
      /\ pieceFailed \in BOOLEAN
  BY DEF Typed
<1>3. PICK t \in 1 .. Len(queue) : t = Taken(queue)
  BY <1>2, TakenIs
<1>4. work' \in Events /\ work'.id = queue[t].id /\ queue[t] \in Finals
  <2>1. queue[t] \in Events
    BY <1>2, ElementOfSeq
  <2> QED
    BY <1>1, <1>2, <1>3, <2>1, MergedIs, Kinds
<1>5. PICK g \in Nat \ {0} : g = queue[t].id
  BY <1>4 DEF Finals
<1>6. /\ ~Translating
      /\ Chain(queue, workerSentenceId, SegmentWords, pieceFailed, inputSentenceId, committed)
      /\ Sources(queue, setup.drafts) /\ Sorted(queue)
      /\ ~setup.drafts => segment = NoSegment
  BY <1>1, AtTake DEF Ordered
<1>7. PICK f, r, l : /\ f = workerSentenceId /\ r = SegmentWords /\ l = pieceFailed /\ l \in BOOLEAN
                     /\ Chain(queue, f, r, l, inputSentenceId, committed)
                     /\ Held' = Base(queue, 1, g, f, r)
                     /\ Broken' = (l /\ g = f)
  <2>1. ~(1 > 1)
    OBVIOUS
  <2>2. Held' = Base(queue, 1, g, workerSentenceId, SegmentWords)
    BY <1>1, <1>4, <1>5, <2>1, Zenon DEF Held, Base, SegmentWords, sentenceVars
  <2>3. Broken' = (pieceFailed /\ g = workerSentenceId)
    BY <1>1, <1>4, <1>5, Zenon DEF Broken, sentenceVars
  <2> QED
    BY <1>2, <1>6, <2>2, <2>3
<1>8. /\ queue[t].kind = "Final" /\ queue[t].source \in Seq(Word) /\ queue[t].source # <<>>
      /\ ~queue[t].diverged => queue[t].source = Piece(g, 0, Len(queue[t].source))
      /\ Upto(queue[t]) = Len(queue[t].source)
  <2>1. queue[t].kind = "Final" /\ queue[t].source \in Seq(Word)
    BY <1>4 DEF Finals
  <2> QED
    BY <1>5, <1>6, <2>1 DEF Sources, Upto
<1>9. ASSUME ~Broken' PROVE HeldText' = Piece(g, 0, Held')
  <2>1. CASE workerSentenceId = g /\ segment # NoSegment
    <3>1. ~pieceFailed
      BY <1>7, <1>9, <2>1
    <3>2. segment = Piece(g, 0, Len(segment))
      BY <1>6, <2>1, <3>1 DEF Texts, SegmentHeard
    <3>3. HeldText' = segment /\ Held' = Len(segment)
      BY <1>1, <1>4, <1>5, <2>1, Zenon DEF HeldText, Held, SegmentWords, sentenceVars
    <3> QED
      BY <3>2, <3>3
  <2>2. CASE ~(workerSentenceId = g /\ segment # NoSegment)
    <3>1. HeldText' = <<>> /\ Held' = 0
      BY <1>1, <1>4, <1>5, <2>2, Zenon DEF HeldText, Held, SegmentWords, sentenceVars
    <3>2. Piece(g, 0, 0) = <<>>
      BY NoPiece
    <3> QED
      BY <3>1, <3>2
  <2> QED
    BY <2>1, <2>2
<1>10. ASSUME work'.source = queue[t].source, work'.diverged = queue[t].diverged,
              ~work'.diverged /\ ~Broken' =>
                 /\ Held' \in Nat /\ Held' <= Len(queue[t].source)
                 /\ work'.delta = Piece(g, Held', Len(queue[t].source))
       PROVE  /\ work'.source # <<>>
              /\ ~work'.diverged /\ ~Broken' => HeldText' \o work'.delta = work'.source
  <2> SUFFICES ASSUME ~work'.diverged, ~Broken' PROVE HeldText' \o work'.delta = work'.source
    BY <1>8, <1>10
  <2>1. PICK a \in Nat, b \in Nat : a = Held' /\ b = Len(queue[t].source) /\ a <= b
    BY <1>8, <1>10, LenProperties
  <2>2. /\ work'.delta = Piece(g, a, b) /\ HeldText' = Piece(g, 0, a)
        /\ work'.source = Piece(g, 0, b)
    BY <1>8, <1>9, <1>10, <2>1
  <2>3. Piece(g, 0, a) \o Piece(g, a, b) = Piece(g, 0, b)
    BY <2>1, StartJoins
  <2> QED
    BY <2>2, <2>3, Zenon
<1>11. CASE queue[1].kind = "Commit"
  <2>1. PICK d : /\ work' = [queue[t] EXCEPT !.delta = d]
                 /\ ~queue[t].diverged => d = FlattenSeq([k \in 1 .. t |-> queue[k].delta])
    BY <1>1, <1>3, <1>8, <1>11 DEF Merged
  <2>2. work'.source = queue[t].source /\ work'.diverged = queue[t].diverged /\ work'.delta = d
    BY <1>4, <2>1 DEF Finals
  <2>3. ASSUME ~queue[t].diverged, ~Broken'
        PROVE  /\ Held' \in Nat /\ Held' <= Len(queue[t].source)
               /\ work'.delta = Piece(g, Held', Len(queue[t].source))
    <3>1. ~(l /\ g = f)
      BY <1>7, <2>3
    <3>2. \A i \in 1 .. t : Plain(queue[i]) /\ queue[i].id = g
      <4>1. \A i \in 1 .. t : queue[i].id = g /\ (i # t => queue[i].kind = "Commit")
        BY <1>2, <1>3, <1>5, <1>6, <1>11, TakenRun
      <4> QED
        BY <2>3, <4>1 DEF Plain
    <3>3. /\ Base(queue, 1, g, f, r) \in Nat /\ Base(queue, 1, g, f, r) <= Upto(queue[t])
          /\ FlattenSeq([k \in 1 .. t |-> queue[k].delta]) = Piece(g, Base(queue, 1, g, f, r), Upto(queue[t]))
      BY <1>2, <1>7, <3>1, <3>2, RunText
    <3> QED
      BY <1>7, <1>8, <2>1, <2>2, <2>3, <3>3
  <2> QED
    BY <1>10, <2>2, <2>3
<1>12. CASE queue[1].kind # "Commit" /\ t = 1
  <2>1. work' = queue[t]
    BY <1>1, <1>3, <1>8, <1>12 DEF Merged
  <2>2. ASSUME ~queue[t].diverged, ~Broken'
        PROVE  /\ Held' \in Nat /\ Held' <= Len(queue[t].source)
               /\ work'.delta = Piece(g, Held', Len(queue[t].source))
    <3>1. Plain(queue[t]) /\ ~(l /\ queue[t].id = f)
      BY <1>5, <1>7, <2>2 DEF Plain
    <3>2. Spans(queue[t], Base(queue, t, queue[t].id, f, r))
      BY <1>7, <3>1 DEF Chain
    <3>3. Spans(queue[t], Held')
      BY <1>5, <1>7, <1>12, <3>2
    <3> QED
      BY <1>5, <1>8, <2>1, <3>3 DEF Spans
  <2> QED
    BY <1>10, <2>1, <2>2
<1>13. CASE queue[1].kind # "Commit" /\ t # 1
  <2>1. ~setup.drafts
    BY <1>2, <1>3, <1>13, TakenIs
  <2>2. PICK s : s = FlattenSeq([k \in 1 .. t |-> queue[k].source]) /\ work' = Final(g, s, s, FALSE)
    BY <1>1, <1>3, <1>5, <1>8, <1>13 DEF Merged
  <2>3. work'.source = s /\ work'.delta = s
    BY <2>2 DEF Final
  <2>4. HeldText' = <<>>
    BY <1>1, <1>6, <2>1, Zenon DEF HeldText, sentenceVars
  <2>5. PICK p \in Seq(Seq(Word)) : p = [k \in 1 .. t |-> queue[k].source]
    <3>1. t \in 0 .. Len(queue)
      BY LenProperties
    <3> QED
      BY <1>2, <2>1, <3>1, RunOf
  <2>6. s \in Seq(Word) /\ s # <<>>
    <3>1. t \in Nat \ {0} /\ t \in 1 .. t
      BY LenProperties
    <3>2. Len(p) = t /\ p[t] = queue[t].source
      BY <2>5, <3>1
    <3>3. p # <<>> /\ p[Len(p)] # <<>>
      BY <1>8, <3>1, <3>2, EmptySeq
    <3>4. <<>> \in Seq(Word)
      BY EmptySeq
    <3> QED
      BY <2>2, <2>5, <3>3, <3>4, FlattenNotEmpty, FlattenAppend
  <2>7. <<>> \o s = s
    BY <2>6, ConcatEmptySeq
  <2> QED
    BY <2>3, <2>4, <2>6, <2>7
<1> QED
  BY <1>11, <1>12, <1>13

\* A final taken leaves the worker where it is, and the queue after it.
LEMMA TakeFinalTexts ==
  ASSUME Typed, Order, Floor, Texts, TakeWork, queue # <<>>, queue[Taken(queue)].kind = "Final"
  PROVE  Texts'
<1>1. /\ pc = "take" /\ pc' = "enter" /\ work' = Merged(queue)
      /\ queue' = Cut(queue, Taken(queue), Len(queue))
      /\ UNCHANGED <<setup, inputSentenceId, committed, sentenceVars, captions>>
  BY DEF TakeWork, Cut, inputVars, outputVars
<1>2. /\ queue \in Seq(Events) /\ setup.drafts \in BOOLEAN /\ (~setup.drafts => queue \in Seq(Finals))
      /\ inputSentenceId \in Nat \ {0} /\ workerSentenceId \in Nat /\ pieceFailed \in BOOLEAN
  BY DEF Typed
<1>3. PICK t \in 1 .. Len(queue) : t = Taken(queue)
  BY <1>2, TakenIs
<1>4. work'.kind = "Final"
  BY <1>1, <1>2, <1>3, MergedIs
<1>5. /\ Live /\ ~Translating
      /\ Chain(queue, workerSentenceId, SegmentWords, pieceFailed, inputSentenceId, committed)
      /\ Sources(queue, setup.drafts)
      /\ Ordered(queue, heard, resolved, inputSentenceId)
      /\ \A i \in 1 .. Len(queue) : workerSentenceId <= queue[i].id
  BY <1>1, AtTake
<1>6. PICK g \in Nat \ {0} : /\ g = queue[t].id /\ workerSentenceId <= g /\ g < inputSentenceId
                             /\ \A i \in 1 .. Len(queue) : t < i => g < queue[i].id
  <2>1. queue[t].id \in Nat \ {0}
    BY <1>2, ElementOfSeq, Kinds
  <2>2. queue[t].kind = "Final"
    BY <1>3
  <2>3. \A i \in 1 .. Len(queue) : t < i => queue[t].id < queue[i].id
    BY <1>5, <2>2 DEF Ordered, Sorted
  <2>4. queue[t].id < inputSentenceId
    BY <1>5, <2>2 DEF Ordered, Within
  <2> QED
    BY <1>5, <2>1, <2>3, <2>4
<1>7. PICK f, r, l : /\ f = workerSentenceId /\ r = SegmentWords /\ l = pieceFailed /\ l \in BOOLEAN
                     /\ Chain(queue, f, r, l, inputSentenceId, committed)
  BY <1>2, <1>5
<1>8. PICK u \in Seq(Events) : u = queue' /\ \A i \in 1 .. Len(u) : u[i].id # g /\ u[i].id # f
  <2>1. PICK u \in Seq(Events) : u = Cut(queue, t, Len(queue)) /\ IsCut(u, queue, t, Len(queue))
    BY <1>2, RestIs, Zenon
  <2>2. ASSUME NEW i \in 1 .. Len(u) PROVE u[i].id # g /\ u[i].id # f
    <3>1. t + i \in 1 .. Len(queue) /\ t < t + i /\ u[i] = queue[t + i]
      <4>1. Len(queue) \in Nat
        BY <1>2, LenProperties
      <4> QED
        BY <2>1, <4>1 DEF IsCut
    <3>2. g < u[i].id /\ u[i].id \in Nat
      BY <1>2, <1>6, <3>1, ElementOfSeq, Kinds
    <3> QED
      BY <1>2, <1>6, <1>7, <3>2
  <2> QED
    BY <1>1, <1>3, <2>1, <2>2
<1>9. inputSentenceId # g /\ inputSentenceId # f
  BY <1>2, <1>6, <1>7
<1>10. Chain(queue', f, r, l, inputSentenceId, committed)
  <2>1. Apart(queue, t, f, g, inputSentenceId)
    <3>1. ASSUME NEW i \in 1 .. Len(queue), t < i PROVE queue[i].id # g /\ queue[i].id # f
      <4>1. g < queue[i].id /\ queue[i].id \in Nat
        BY <1>2, <1>6, <3>1, ElementOfSeq, Kinds
      <4> QED
        BY <1>2, <1>6, <1>7, <4>1
    <3> QED
      BY <1>6, <1>9, <3>1 DEF Apart
  <2>2. PICK m, x : m \in BOOLEAN /\ m = (l /\ f = g) /\ (l /\ f = g => m) /\ x = Upto(queue[t])
    BY <1>7
  <2>3. Chain(Cut(queue, t, Len(queue)), g, x, m, inputSentenceId, committed)
    BY <1>2, <1>7, <2>1, <2>2, ChainRests
  <2>4. Chain(u, g, x, m, inputSentenceId, committed)
    BY <1>1, <1>3, <1>8, <2>3
  <2>5. Chain(u, f, r, l, inputSentenceId, committed)
    <3>1. Gone(u, g, inputSentenceId) /\ Gone(u, f, inputSentenceId)
      BY <1>8, <1>9 DEF Gone
    <3> QED
      BY <1>7, <2>2, <2>4, <3>1, ChainMoves
  <2> QED
    BY <1>8, <2>5
<1>11. ~OnPiece' /\ ~Translating'
  BY <1>1, <1>4 DEF OnPiece, Translating
<1>12. Ahead' = f /\ Reached' = r
  BY <1>1, <1>7, <1>11, Zenon DEF Ahead, Reached, SegmentWords, sentenceVars
<1>13. Lost' = l
  BY <1>1, <1>7, <1>12, Zenon DEF Lost, sentenceVars
<1>14. QueueTexts'
  <2>1. Sources(Cut(queue, t, Len(queue)), setup.drafts)
    BY <1>2, <1>5, SourcesRest
  <2>2. Sources(queue', setup.drafts)
    BY <1>1, <1>3, <2>1
  <2> QED
    BY <1>1, <1>10, <1>12, <1>13, <2>2, Zenon DEF QueueTexts
<1>15. FinalTranslatesItsSentence'
  BY <1>1 DEF Texts, FinalTranslatesItsSentence
<1>16. Undrafted'
  BY <1>1, <1>5, Zenon DEF Texts, Undrafted, sentenceVars
<1>17. PieceInHand' /\ FinalInHand'
  <2>1. work'.source # <<>> /\ (~work'.diverged /\ ~Broken' => HeldText' \o work'.delta = work'.source)
    BY TakenFinalText
  <2> QED
    BY <1>1, <1>4, <2>1 DEF PieceInHand, FinalInHand
<1>18. SegmentHeard'
  BY <1>1, <1>5, <1>11, Zenon DEF Texts, SegmentHeard, sentenceVars
<1> QED
  BY <1>14, <1>15, <1>16, <1>17, <1>18 DEF Texts

\* nextWork.
LEMMA TakeTexts ==
  ASSUME Typed, Order, Floor, Texts, TakeWork
  PROVE  Texts'
<1>1. UNCHANGED <<setup, inputSentenceId, committed, sentenceVars, captions>> /\ pc = "take"
  BY DEF TakeWork, inputVars, outputVars
<1>2. CASE queue = <<>>
  <2>1. pc' = "empty" /\ UNCHANGED <<queue, work>>
    BY <1>2 DEF TakeWork
  <2> QED
    BY <1>1, <2>1, QuietTexts DEF Waiting, sentenceVars
<1>3. CASE queue # <<>>
  <2>1. queue \in Seq(Events)
    BY DEF Typed
  <2>2. Taken(queue) \in 1 .. Len(queue)
    BY <1>3, <2>1, TakenIs
  <2>3. queue[Taken(queue)].kind = "Commit" \/ queue[Taken(queue)].kind = "Final"
    BY <2>1, <2>2, ElementOfSeq, Kinds
  <2> QED
    BY <1>3, <2>3, TakePieceTexts, TakeFinalTexts
<1> QED
  BY <1>2, <1>3

\* A sentence up to the final in hand is gone.
LEMMA BehindIsGone ==
  ASSUME Typed, Order, Live, pc \in Working, work.kind = "Final", NEW id \in Nat, id <= work.id
  PROVE  Gone(queue, id, inputSentenceId)
<1>1. /\ work.id \in Nat /\ inputSentenceId \in Nat /\ work.id < inputSentenceId
      /\ \A i \in 1 .. Len(queue) : work.id + 1 <= queue[i].id
  BY WorkIsNext DEF Typed
<1>2. \A i \in 1 .. Len(queue) : queue[i].id \in Nat
  BY ElementOfSeq, Kinds DEF Typed
<1> QED
  BY <1>1, <1>2 DEF Gone

\* enterSentence, for a piece.
LEMMA EnterPieceTexts ==
  ASSUME Typed, Order, Texts, Enter, work.kind = "Commit"
  PROVE  Texts'
<1>1. /\ pc = "enter" /\ pc' = "append" /\ work' = work /\ workerSentenceId' = work.id
      /\ pieceFailed' = (pieceFailed /\ work.id = workerSentenceId)
      /\ segment' = IF work.id # workerSentenceId \/ segment = NoSegment THEN <<>> ELSE segment
  BY EnterIs, Zenon
<1>2. UNCHANGED <<setup, inputSentenceId, committed, queue, captions>>
  BY DEF Enter, inputVars, outputVars
<1>3. Live /\ OnPiece /\ Live' /\ OnPiece' /\ ~Translating /\ ~Translating'
  BY <1>1 DEF Live, Over, OnPiece, Pending, Translating
<1>4. Ahead' = Ahead /\ Reached' = Reached
  BY <1>1, <1>3, Zenon DEF Ahead, Reached
<1>5. Lost' = Lost /\ pieceFailed' = Broken
  <2>1. Ahead = work.id /\ Ahead' = work.id
    BY <1>1, <1>3, Zenon DEF Ahead
  <2> QED
    BY <1>1, <2>1, Zenon DEF Lost, Broken
<1>6. Undrafted'
  BY <1>2, <1>3 DEF Order, QueueInOrder, Undrafted
<1>7. QueueTexts'
  BY <1>2, <1>3, <1>4, <1>5, Zenon DEF Texts, QueueTexts
<1>8. FinalTranslatesItsSentence'
  BY <1>2 DEF Texts, FinalTranslatesItsSentence
<1>9. Len(segment') = Held /\ SegmentHeard'
  <2>1. CASE work.id # workerSentenceId \/ segment = NoSegment
    <3>1. segment' = <<>> /\ Len(segment') = 0
      BY <1>1, <2>1, EmptySeq
    <3>2. Held = 0
      BY <2>1, Zenon DEF Held, SegmentWords
    <3>3. Piece(work.id, 0, 0) = <<>>
      <4>1. work.id \in Nat \ {0}
        BY <1>1, Kinds DEF Typed
      <4> QED
        BY <4>1, NoPiece
    <3> QED
      BY <1>1, <3>1, <3>2, <3>3 DEF SegmentHeard
  <2>2. CASE work.id = workerSentenceId /\ segment # NoSegment
    <3>1. Held = Len(segment)
      BY <2>2, Zenon DEF Held, SegmentWords
    <3>2. segment' = segment /\ (~pieceFailed' => ~pieceFailed)
      BY <1>1, <2>2
    <3> QED
      BY <1>1, <1>3, <2>2, <3>1, <3>2 DEF Texts, SegmentHeard
  <2> QED
    BY <2>1, <2>2
<1>10. PieceInHand' /\ FinalInHand'
  <2>1. ~Broken => Spans(work, Held)
    BY <1>1 DEF Texts, PieceInHand
  <2>2. ~pieceFailed' => Spans(work, Len(segment'))
    BY <1>5, <1>9, <2>1, Zenon
  <2> QED
    BY <1>1, <2>2 DEF PieceInHand, FinalInHand
<1> QED
  BY <1>6, <1>7, <1>8, <1>9, <1>10 DEF Texts

\* enterSentence, for a final.
LEMMA EnterFinalTexts ==
  ASSUME Typed, Order, Floor, Texts, Enter, work.kind = "Final"
  PROVE  Texts'
<1>1. /\ pc = "enter" /\ pc' \in {"append", "resolve"} /\ workerSentenceId' = work.id
      /\ work \in Finals /\ work' \in Finals /\ work'.source = work.source
  <2>1. work \in Finals
    BY EnterIs, Kinds
  <2>2. work' = work \/ work' = [work EXCEPT !.delta = work.source]
    BY EnterIs, Zenon
  <2>3. work' \in Finals /\ work'.source = work.source
    BY <2>1, <2>2 DEF Finals
  <2> QED
    BY <2>1, <2>3, EnterIs
<1>2. UNCHANGED <<setup, inputSentenceId, committed, queue, captions>>
  BY DEF Enter, inputVars, outputVars
<1>3. work'.kind = "Final" /\ Live /\ ~OnPiece /\ Live' /\ ~OnPiece' /\ Translating' /\ pc \in Working
  <2>1. work'.kind = "Final"
    BY <1>1 DEF Finals
  <2> QED
    BY <1>1, <2>1 DEF Live, Over, OnPiece, Translating, Working
<1>4. Undrafted' /\ PieceInHand' /\ SegmentHeard'
  BY <1>2, <1>3, Zenon DEF Texts, Undrafted, PieceInHand, SegmentHeard
<1>5. QueueTexts'
  <2>1. Chain(queue, Ahead, Reached, Lost, inputSentenceId, committed) /\ Sources(queue, setup.drafts)
    BY <1>3 DEF Texts, QueueTexts
  <2>2. Ahead = workerSentenceId /\ Ahead' = work.id
    BY <1>1, <1>3, Zenon DEF Ahead
  <2>3. Gone(queue, workerSentenceId, inputSentenceId) /\ Gone(queue, work.id, inputSentenceId)
    <3>1. /\ workerSentenceId \in Nat /\ workerSentenceId <= work.id
          /\ work.id \in Nat /\ work.id <= work.id
      BY <1>1 DEF Floor, Typed, Finals
    <3> QED
      BY <1>3, <3>1, BehindIsGone
  <2>4. Lost \in BOOLEAN /\ Lost' \in BOOLEAN
    BY Zenon DEF Lost
  <2>5. PICK m, x : m = Lost' /\ x = Reached' /\ m \in BOOLEAN
    BY <2>4
  <2>6. Chain(queue, work.id, x, m, inputSentenceId, committed)
    BY <2>1, <2>2, <2>3, <2>4, <2>5, ChainMoves
  <2> QED
    BY <1>2, <2>1, <2>2, <2>5, <2>6 DEF QueueTexts
<1>6. FinalTranslatesItsSentence'
  BY <1>2 DEF Texts, FinalTranslatesItsSentence
<1>7. /\ work.source # <<>> /\ work.source \in Seq(Word)
      /\ ~work.diverged /\ ~Broken => HeldText \o work.delta = work.source
  BY <1>1 DEF Texts, FinalInHand, Finals
<1>8. Broken = (pieceFailed /\ work.id = workerSentenceId)
  BY Zenon DEF Broken
<1>9. CASE /\ pc' = "append" /\ work' = [work EXCEPT !.delta = work.source] /\ segment' = <<>>
  <2>1. work'.delta = work.source
    BY <1>1, <1>9 DEF Finals
  <2>2. <<>> \o work.source = work.source
    BY <1>7, ConcatEmptySeq
  <2>3. FinalInHand'
    BY <1>1, <1>9, <2>1, <2>2 DEF FinalInHand
  <2> QED
    BY <1>4, <1>5, <1>6, <2>3 DEF Texts
<1>10. CASE /\ pc' = "append" /\ work' = work /\ ~work.diverged /\ ~(pieceFailed /\ work.id = workerSentenceId)
            /\ segment' = IF work.id # workerSentenceId \/ segment = NoSegment THEN <<>> ELSE segment
  <2>1. segment' = HeldText
    BY <1>10, Zenon DEF HeldText
  <2>2. FinalInHand'
    BY <1>1, <1>7, <1>8, <1>10, <2>1 DEF FinalInHand
  <2> QED
    BY <1>4, <1>5, <1>6, <2>2 DEF Texts
<1>11. CASE /\ pc' = "resolve" /\ work.delta = <<>> /\ work' = work
            /\ ~work.diverged /\ ~(pieceFailed /\ work.id = workerSentenceId)
            /\ segment' = IF work.id # workerSentenceId THEN NoSegment ELSE segment
  <2>1. HeldText \in Seq(Word) /\ HeldText \o <<>> = work.source
    <3>1. segment # NoSegment => segment \in Seq(Word)
      BY DEF Typed
    <3>2. HeldText \in Seq(Word)
      <4>1. HeldText = <<>> \/ (segment # NoSegment /\ HeldText = segment)
        BY Zenon DEF HeldText
      <4> QED
        BY <3>1, <4>1, EmptySeq
    <3> QED
      BY <1>7, <1>8, <1>11, <3>2
  <2>2. HeldText = work.source
    BY <2>1, ConcatEmptySeq
  <2>3. workerSentenceId = work.id /\ segment # NoSegment /\ segment = work.source
    BY <1>7, <2>2, Zenon DEF HeldText
  <2>4. segment' = work.source /\ segment' # NoSegment
    BY <1>11, <2>3, Zenon
  <2>5. FinalInHand'
    BY <1>1, <1>11, <2>4 DEF FinalInHand
  <2> QED
    BY <1>4, <1>5, <1>6, <2>5 DEF Texts
<1> QED
  BY <1>9, <1>10, <1>11, EnterIs, Zenon

\* A piece is translated: the segment now ends where the piece does.
LEMMA PieceDoneTexts ==
  ASSUME Typed, Order, Floor, Texts, AppendDone, work.kind = "Commit"
  PROVE  Texts'
<1>1. /\ pc = "append" /\ pc' = "take" /\ segment' = segment \o work.delta
      /\ UNCHANGED <<setup, inputSentenceId, committed, queue, work, workerSentenceId, pieceFailed, captions>>
  BY DEF AppendDone, inputVars, outputVars
<1>2. Live /\ OnPiece /\ Live' /\ ~OnPiece' /\ ~Translating /\ ~Translating'
  BY <1>1 DEF Live, Over, OnPiece, Pending, Translating
<1>3. /\ segment \in Seq(Word) /\ segment # NoSegment /\ work.delta \in Seq(Word) /\ work.id \in Nat \ {0}
      /\ pieceFailed \in BOOLEAN /\ workerSentenceId = work.id /\ setup.drafts
  <2>1. work \in Events /\ segment \in Seq(Word) \cup {NoSegment} /\ segment # NoSegment /\ pieceFailed \in BOOLEAN
    BY <1>1 DEF Typed
  <2>2. workerSentenceId = work.id /\ setup.drafts
    BY <1>1, <1>2 DEF Floor, Order, QueueInOrder
  <2> QED
    BY <2>1, <2>2, Kinds
<1>4. segment' \in Seq(Word) /\ segment' # NoSegment /\ Len(segment') = Len(segment) + Len(work.delta)
  <2>1. PICK d : d = work.delta
    OBVIOUS
  <2>2. segment \o d \in Seq(Word) /\ Len(segment \o d) = Len(segment) + Len(d)
    BY <1>3, <2>1, ConcatProperties
  <2>3. segment' = segment \o d
    BY <1>1, <2>1
  <2>4. segment' # NoSegment
    BY <2>2, <2>3, NoSegmentIsNoText
  <2> QED
    BY <2>1, <2>2, <2>3, <2>4
<1>5. Ahead = work.id /\ Ahead' = work.id /\ Reached = Upto(work) /\ Reached' = Len(segment')
  <2>1. Ahead = work.id /\ Reached = Upto(work)
    BY <1>2, Zenon DEF Ahead, Reached
  <2>2. Ahead' = work.id /\ Reached' = Len(segment')
    BY <1>1, <1>2, <1>3, <1>4, Zenon DEF Ahead, Reached, SegmentWords
  <2> QED
    BY <2>1, <2>2
<1>6. Lost = pieceFailed /\ Lost' = pieceFailed
  BY <1>1, <1>3, <1>5, Zenon DEF Lost
<1>7. ~pieceFailed => Len(segment') = Upto(work) /\ segment' = Piece(work.id, 0, Len(segment'))
  <2> SUFFICES ASSUME ~pieceFailed
               PROVE  Len(segment') = Upto(work) /\ segment' = Piece(work.id, 0, Len(segment'))
    OBVIOUS
  <2>1. Spans(work, Len(segment))
    BY <1>1, <1>2 DEF Texts, PieceInHand, OnPiece
  <2>2. PICK a \in Nat, b \in Nat : a = Len(segment) /\ b = Upto(work) /\ a <= b /\ work.delta = Piece(work.id, a, b)
    BY <2>1 DEF Spans
  <2>3. segment = Piece(work.id, 0, a)
    BY <1>2, <1>3, <2>2 DEF Texts, SegmentHeard
  <2>4. Len(work.delta) = b - a
    <3>1. PICK w, i : w = Piece(work.id, a, b) /\ i = work.id
      OBVIOUS
    <3>2. w = Piece(i, a, b) /\ i \in Nat \ {0}
      BY <1>3, <3>1
    <3>3. Len(w) = b - a
      BY <2>2, <3>2, PieceIs
    <3> QED
      BY <2>2, <3>1, <3>3
  <2>5. Len(segment') = b
    BY <1>4, <2>2, <2>4
  <2>6. Piece(work.id, 0, a) \o Piece(work.id, a, b) = Piece(work.id, 0, b)
    BY <1>3, <2>2, StartJoins
  <2> QED
    BY <1>1, <2>2, <2>3, <2>5, <2>6
<1>8. QueueTexts'
  <2>1. Chain(queue, Ahead, Reached, Lost, inputSentenceId, committed) /\ Sources(queue, setup.drafts)
    BY <1>2 DEF Texts, QueueTexts
  <2>2. PICK l, x : /\ l = pieceFailed /\ l \in BOOLEAN /\ x = Len(segment') /\ (l => l) /\ (l \/ x = Reached)
                    /\ Chain(queue, work.id, Reached, l, inputSentenceId, committed)
    BY <1>3, <1>5, <1>6, <1>7, <2>1
  <2>3. Chain(queue, work.id, x, l, inputSentenceId, committed)
    BY <2>2, ChainLoses
  <2> QED
    BY <1>1, <1>5, <1>6, <2>1, <2>2, <2>3, Zenon DEF QueueTexts
<1>9. FinalTranslatesItsSentence'
  BY <1>1 DEF Texts, FinalTranslatesItsSentence
<1>10. Undrafted' /\ PieceInHand' /\ FinalInHand'
  BY <1>1, <1>2, <1>3 DEF Undrafted, PieceInHand, FinalInHand
<1>11. SegmentHeard'
  BY <1>1, <1>3, <1>7 DEF SegmentHeard
<1> QED
  BY <1>8, <1>9, <1>10, <1>11 DEF Texts

\* A piece fails: its sentence is lost until its final.
LEMMA PieceFailsTexts ==
  ASSUME Typed, Order, Floor, Texts, AppendFails, work.kind = "Commit"
  PROVE  Texts'
<1>1. /\ pc = "append" /\ pc' = "take" /\ segment' = NoSegment /\ pieceFailed' = TRUE
      /\ UNCHANGED <<setup, inputSentenceId, committed, queue, work, workerSentenceId, captions>>
  BY Zenon DEF AppendFails, CloseSegment, inputVars, outputVars
<1>2. Live /\ OnPiece /\ Live' /\ ~OnPiece' /\ workerSentenceId = work.id
  BY <1>1 DEF Live, Over, OnPiece, Pending, Floor
<1>3. Ahead = work.id /\ Ahead' = work.id
  BY <1>1, <1>2, Zenon DEF Ahead
<1>4. Lost' = TRUE
  BY <1>1, <1>2, <1>3, Zenon DEF Lost
<1>5. QueueTexts'
  <2>1. Chain(queue, Ahead, Reached, Lost, inputSentenceId, committed) /\ Sources(queue, setup.drafts)
    BY <1>2 DEF Texts, QueueTexts
  <2>2. PICK l, m, x : /\ l = Lost /\ m = Lost' /\ x = Reached' /\ l \in BOOLEAN /\ m \in BOOLEAN
                       /\ (l => m) /\ (m \/ x = Reached)
    <3>1. Lost \in BOOLEAN
      BY Zenon DEF Lost
    <3> QED
      BY <1>4, <3>1
  <2>3. Chain(queue, work.id, x, m, inputSentenceId, committed)
    BY <1>3, <2>1, <2>2, ChainLoses
  <2> QED
    BY <1>1, <1>3, <2>1, <2>2, <2>3, Zenon DEF QueueTexts
<1>6. FinalTranslatesItsSentence'
  BY <1>1 DEF Texts, FinalTranslatesItsSentence
<1>7. Undrafted'
  BY <1>1, <1>2 DEF Texts, Undrafted
<1>8. PieceInHand' /\ FinalInHand' /\ SegmentHeard'
  BY <1>1 DEF PieceInHand, FinalInHand, SegmentHeard
<1> QED
  BY <1>5, <1>6, <1>7, <1>8 DEF Texts

\* The steps of a final that leave its sentence as it is: it is translated, it
\* fails, it gets its caption.
LEMMA FinalStaysTexts ==
  ASSUME Typed, Order, Floor, Texts, work.kind = "Final", pc \in {"append", "resolve"},
         pc' \in {"resolve", "reset"},
         UNCHANGED <<setup, inputSentenceId, committed, queue, work, workerSentenceId, pieceFailed>>,
         FinalTranslatesItsSentence', FinalInHand'
  PROVE  Texts'
<1>1. Live /\ ~OnPiece /\ Live' /\ ~OnPiece' /\ Translating' /\ pc \in Working /\ workerSentenceId = work.id
  BY DEF Live, Over, OnPiece, Translating, Working, Floor
<1>2. Undrafted' /\ PieceInHand' /\ SegmentHeard'
  BY <1>1, Zenon DEF Texts, Undrafted, PieceInHand, SegmentHeard
<1>3. QueueTexts'
  <2>1. Chain(queue, Ahead, Reached, Lost, inputSentenceId, committed) /\ Sources(queue, setup.drafts)
    BY <1>1 DEF Texts, QueueTexts
  <2>2. Ahead = work.id /\ Ahead' = work.id
    BY <1>1, Zenon DEF Ahead
  <2>3. Gone(queue, work.id, inputSentenceId)
    <3>1. work.id \in Nat /\ work.id <= work.id
      BY <1>1, WorkIsNext
    <3> QED
      BY <1>1, <3>1, BehindIsGone
  <2>4. PICK l, m, x : l = Lost /\ m = Lost' /\ x = Reached' /\ l \in BOOLEAN /\ m \in BOOLEAN
    BY Zenon DEF Lost
  <2>5. Chain(queue, work.id, x, m, inputSentenceId, committed)
    BY <2>1, <2>2, <2>3, <2>4, ChainMoves
  <2> QED
    BY <2>1, <2>2, <2>4, <2>5 DEF QueueTexts
<1> QED
  BY <1>2, <1>3 DEF Texts

\* Those steps.
LEMMA FinalTexts ==
  ASSUME Typed, Order, Floor, Texts, work.kind = "Final", AppendDone \/ AppendFails \/ Resolve
  PROVE  Texts'
<1>1. /\ pc \in {"append", "resolve"} /\ pc' \in {"resolve", "reset"}
      /\ UNCHANGED <<setup, inputSentenceId, committed, queue, work, workerSentenceId, pieceFailed>>
      /\ work \in Finals
  <2>1. pc \in {"append", "resolve"} => work \in Events
    BY DEF Typed, Events
  <2> QED
    BY <2>1, Kinds DEF AppendDone, AppendFails, Resolve, inputVars, sentenceVars
<1>2. FinalTranslatesItsSentence
  BY DEF Texts
<1>3. CASE AppendDone
  <2>1. UNCHANGED captions /\ pc = "append" /\ pc' = "resolve" /\ segment' = segment \o work.delta
    BY <1>3 DEF AppendDone, outputVars
  <2>2. segment \o work.delta = work.source /\ work.source \in Seq(Word)
    BY <1>1, <2>1 DEF Texts, FinalInHand, Finals
  <2>3. segment' # NoSegment
    BY <2>1, <2>2, NoSegmentIsNoText
  <2>4. FinalInHand' /\ FinalTranslatesItsSentence'
    BY <1>1, <1>2, <2>1, <2>2, <2>3 DEF FinalInHand, FinalTranslatesItsSentence
  <2> QED
    BY <1>1, <2>4, FinalStaysTexts
<1>4. CASE AppendFails \/ Resolve
  <2>1. pc' = "reset"
    BY <1>4 DEF AppendFails, Resolve
  <2>2. PICK e \in Captions : captions' = Append(captions, e) /\ (e.ok => e.text = e.source)
    <3>1. work.source \in Seq(Word)
      BY <1>1 DEF Finals
    <3>2. CASE AppendFails
      <4> DEFINE e == [source |-> work.source, ok |-> FALSE]
      <4>1. captions' = Append(captions, e)
        BY <1>1, <3>2 DEF AppendFails
      <4>2. e \in Captions
        BY <3>1 DEF Captions
      <4>3. ~e.ok
        OBVIOUS
      <4> HIDE DEF e
      <4> QED
        BY <4>1, <4>2, <4>3
    <3>3. CASE Resolve
      <4>1. PICK w : w = IF segment = NoSegment THEN workerTranslation ELSE segment
        OBVIOUS
      <4>2. captions' = Append(captions, [source |-> work.source, ok |-> TRUE, text |-> w]) /\ w = work.source
        BY <3>3, <4>1 DEF Resolve, Texts, FinalInHand
      <4> DEFINE e == [source |-> work.source, ok |-> TRUE, text |-> w]
      <4>3. e \in Captions
        BY <3>1, <4>2 DEF Captions
      <4>4. e.text = e.source
        BY <4>2
      <4>5. captions' = Append(captions, e)
        BY <4>2
      <4> HIDE DEF e
      <4> QED
        BY <4>3, <4>4, <4>5
    <3> QED
      BY <1>4, <3>2, <3>3
  <2>3. FinalTranslatesItsSentence'
    <3>1. captions \in Seq(Captions)
      BY DEF Typed
    <3>2. /\ Len(captions') = Len(captions) + 1 /\ captions'[Len(captions) + 1] = e
          /\ \A i \in 1 .. Len(captions) : captions'[i] = captions[i]
          /\ DOMAIN captions = 1 .. Len(captions) /\ DOMAIN captions' = 1 .. Len(captions')
          /\ Len(captions) \in Nat
      BY <2>2, <3>1, AppendProperties, LenProperties
    <3>3. \A i \in 1 .. Len(captions') : i \in 1 .. Len(captions) \/ i = Len(captions) + 1
      BY <3>2
    <3> QED
      BY <1>2, <2>2, <3>2, <3>3 DEF FinalTranslatesItsSentence
  <2>4. FinalInHand'
    BY <2>1 DEF FinalInHand
  <2> QED
    BY <1>1, <2>1, <2>3, <2>4, FinalStaysTexts
<1> QED
  BY <1>3, <1>4

\* finishSentence leaves its sentence for the next.
LEMMA ResetTexts ==
  ASSUME Typed, Order, Floor, Texts, ResetSentence
  PROVE  Texts'
<1>1. /\ pc = "reset" /\ segment' = NoSegment /\ workerSentenceId' = work.id + 1 /\ pieceFailed' = FALSE
      /\ work' = NoWork /\ pc' \in {"crashed", "take"}
      /\ UNCHANGED <<setup, inputSentenceId, committed, queue, captions>>
  BY Zenon DEF ResetSentence, CloseSegment, LeaveSentence, inputVars, outputVars
<1>2. CASE pc' = "crashed"
  BY <1>1, <1>2, OverTexts DEF Over
<1>3. CASE pc' = "take"
  <2>1. /\ Live /\ Live' /\ ~OnPiece /\ ~OnPiece' /\ pc \in Working
        /\ work \in Finals /\ work.kind = "Final" /\ work'.kind = "none"
    BY <1>1, <1>3 DEF Live, Over, OnPiece, Pending, Working, Typed, Finals, NoWork
  <2>2. Ahead' = work.id + 1 /\ Reached' = 0
    BY <1>1, <2>1, Zenon DEF Ahead, Reached, SegmentWords
  <2>3. Lost' = FALSE
    BY <1>1, Zenon DEF Lost
  <2>4. Ahead = work.id
    <3>1. workerSentenceId = work.id
      BY <1>1, <2>1 DEF Floor
    <3> QED
      BY <2>1, <3>1, Zenon DEF Ahead
  <2>5. Chain(queue, Ahead, Reached, Lost, inputSentenceId, committed) /\ Sources(queue, setup.drafts)
    BY <2>1 DEF Texts, QueueTexts
  <2>6. PICK f, g, l, m, x, r : /\ f = work.id /\ g = work.id + 1 /\ l = Lost /\ m = Lost' /\ x = Reached' /\ r = Reached
                             /\ l \in BOOLEAN /\ m \in BOOLEAN
    <3>1. Lost \in BOOLEAN /\ Lost' \in BOOLEAN
      BY <2>3, Zenon DEF Lost
    <3> QED
      BY <3>1
  <2>7. Gone(queue, f, inputSentenceId)
    <3>1. work.id \in Nat /\ work.id <= work.id
      BY <2>1 DEF Finals
    <3> QED
      BY <2>1, <2>6, <3>1, BehindIsGone
  <2>8. Chain(queue, f, r, l, inputSentenceId, committed) /\ x = 0 /\ ~m
    BY <2>2, <2>3, <2>4, <2>5, <2>6, Zenon
  <2>9. Chain(queue, g, x, m, inputSentenceId, committed)
    BY <2>6, <2>7, <2>8, ChainMoves
  <2>10. QueueTexts'
    <3>1. Chain(queue, Ahead', Reached', Lost', inputSentenceId, committed)
      BY <2>2, <2>6, <2>9, Zenon
    <3> QED
      BY <1>1, <2>5, <3>1, Zenon DEF QueueTexts
  <2>11. FinalTranslatesItsSentence'
    BY <1>1 DEF Texts, FinalTranslatesItsSentence
  <2>12. Undrafted'
    BY <1>1, <2>1 DEF Texts, Undrafted
  <2>13. PieceInHand' /\ FinalInHand' /\ SegmentHeard'
    BY <1>1, <2>1 DEF PieceInHand, FinalInHand, SegmentHeard
  <2> QED
    BY <2>10, <2>11, <2>12, <2>13 DEF Texts
<1> QED
  BY <1>1, <1>2, <1>3

\* Every step keeps the texts.
LEMMA NextTexts ==
  ASSUME Typed, Order, Floor, Texts, [Next]_vars
  PROVE  Texts'
<1>1. CASE Input
  <2>1. ASSUME NEW n \in 1 .. MaxWords, OnPartial(n) PROVE Texts'
    BY <2>1, OnPartialTexts
  <2>2. ASSUME NEW c \in Callers, NEW n \in 1 .. MaxWords, OnFinal(c, n) PROVE Texts'
    BY <2>2, OnFinalTexts
  <2>3. CASE Finish
    BY <2>3, QuietTexts DEF Finish, sentenceVars, outputVars
  <2> QED
    BY <1>1, <2>1, <2>2, <2>3 DEF Input
<1>2. ASSUME NEW c \in Callers, Signal(c) PROVE Texts'
  BY <1>2, QuietTexts DEF Signal, sentenceVars, outputVars
<1>3. CASE Worker
  <2>1. CASE TakeWork
    BY <2>1, TakeTexts
  <2>2. CASE CheckFinished
    <3>1. CASE pc' = "ended" /\ CloseSegment
      BY <2>2, <3>1, OverTexts DEF CheckFinished, CloseSegment, Over, outputVars
    <3>2. CASE pc = "empty" /\ pc' = "idle" /\ UNCHANGED segment
      BY <2>2, <3>2, QuietTexts DEF CheckFinished, Waiting, inputVars, outputVars
    <3> QED
      BY <2>2, <3>1, <3>2 DEF CheckFinished
  <2>3. CASE StartPreview \/ Receive \/ PreviewWoken \/ PreviewOver
    <3>1. pc \in Waiting /\ pc' \in Waiting
      BY <2>3 DEF StartPreview, Receive, PreviewWoken, PreviewOver, Waiting
    <3>2. UNCHANGED <<setup, inputSentenceId, committed, queue, segment, workerSentenceId, pieceFailed,
                     work, captions>>
      BY <2>3 DEF StartPreview, Receive, PreviewWoken, PreviewOver, inputVars, sentenceVars, outputVars
    <3> QED
      BY <3>1, <3>2, QuietTexts
  <2>4. CASE Enter
    <3>1. work.kind = "Commit" \/ work.kind = "Final"
      BY <2>4, Kinds DEF Enter, Typed, Events, Commits, Finals
    <3> QED
      BY <2>4, <3>1, EnterPieceTexts, EnterFinalTexts
  <2>5. CASE Token \/ ShowPartial
    <3>1. pc \in {"append", "show"} /\ pc' \in {"append", "show"}
      BY <2>5 DEF Token, ShowPartial
    <3>2. UNCHANGED <<setup, inputSentenceId, committed, queue, segment, workerSentenceId, pieceFailed,
                     work, captions>>
      BY <2>5 DEF Token, ShowPartial, inputVars, sentenceVars, outputVars
    <3> QED
      BY <3>1, <3>2, QuietTexts
  <2>6. CASE AppendDone \/ AppendFails
    <3>1. work.kind = "Commit" \/ work.kind = "Final"
      BY <2>6, Kinds DEF AppendDone, AppendFails, Typed, Events, Commits, Finals
    <3> QED
      BY <2>6, <3>1, PieceDoneTexts, PieceFailsTexts, FinalTexts
  <2>7. CASE Resolve
    <3>1. work.kind = "Final"
      BY <2>7 DEF Resolve, Typed, Finals
    <3> QED
      BY <2>7, <3>1, FinalTexts
  <2>8. CASE ResetSentence
    BY <2>8, ResetTexts
  <2>9. CASE Unwind
    BY <2>9, OverTexts DEF Unwind, CloseSegment, Over, outputVars
  <2> QED
    BY <1>3, <2>1, <2>2, <2>3, <2>4, <2>5, <2>6, <2>7, <2>8, <2>9 DEF Worker
<1>4. CASE Preview \/ Cancel \/ UNCHANGED vars
  <2>1. /\ pc' = pc /\ workerTranslation' = workerTranslation
        /\ UNCHANGED <<setup, inputSentenceId, committed, queue, segment, workerSentenceId, pieceFailed,
                       work, captions>>
    BY <1>4 DEF Preview, PreviewToken, PublishPreview, PreviewEnds, Cancel, vars, inputVars, sentenceVars,
       outputVars
  <2> QED
    BY <2>1, QuietTexts
<1> QED
  BY <1>1, <1>2, <1>3, <1>4 DEF Next

\* The texts hold at the start, with nothing queued and nothing translated.
LEMMA InitTexts ==
  Init => Texts
<1> SUFFICES ASSUME Init PROVE Texts
  OBVIOUS
<1>1. /\ pc = "take" /\ work = NoWork /\ segment = NoSegment /\ queue = <<>> /\ captions = <<>> /\ committed = 0
      /\ pieceFailed = FALSE /\ inputSentenceId = 1 /\ workerSentenceId = 1
  BY DEF Init
<1>2. work.kind = "none" /\ Len(queue) = 0 /\ DOMAIN captions = {}
  BY <1>1 DEF NoWork
<1>3. FinalTranslatesItsSentence
  BY <1>2 DEF FinalTranslatesItsSentence
<1>4. Undrafted /\ PieceInHand /\ FinalInHand /\ SegmentHeard
  BY <1>1, <1>2 DEF Undrafted, PieceInHand, FinalInHand, SegmentHeard
<1>5. Reached = 0
  BY <1>1, <1>2, Zenon DEF Reached, OnPiece, Pending, SegmentWords
<1>6. QueueTexts
  BY <1>1, <1>2, <1>5 DEF QueueTexts, Sources, Chain, Base
<1> QED
  BY <1>3, <1>4, <1>6 DEF Texts

\* The texts hold throughout.
LEMMA TextsAlways ==
  Spec => [](Ground /\ Texts)
<1>1. Init => Texts
  BY InitTexts
<1>2. Ground /\ Texts /\ [Next]_vars => Texts'
  BY NextTexts DEF Ground
<1> QED
  BY <1>1, <1>2, GroundAlways, PTL DEF Spec

\* A Finalized translation translates every word of its final, once, in order,
\* and no other word, whatever pieces went before it, failed, or were revised.
THEOREM FinalsAreTranslated ==
  Spec => []FinalTranslatesItsSentence
<1>1. Texts => FinalTranslatesItsSentence
  BY DEF Texts
<1> QED
  BY <1>1, TextsAlways, PTL
-----------------------------------------------------------------------------
(* The sentence of each word.                                              *)

OwnText(id) == Seq({id} \X Versions \X Nat)

\* A piece has words of its sentence only, and what the worker has translated of
\* the sentence being spoken too, and the preview of the sentence it was for.
QueueOwned == \A i \in 1 .. Len(queue) : queue[i].kind = "Commit" => queue[i].delta \in OwnText(queue[i].id)
PieceOwned == OnPiece => work.delta \in OwnText(work.id)
WorkerOwned ==
  workerSentenceId = inputSentenceId =>
     /\ workerTranslation \in OwnText(workerSentenceId)
     /\ segment # NoSegment => segment \in OwnText(workerSentenceId)
PreviewOwned ==
  \A i \in DOMAIN previewTranslation : previewTranslation[i][1] = previewTranslationSentenceId

Owned == QueueOwned /\ PieceOwned /\ WorkerOwned /\ PreviewOwned

\* The words of a sentence are its own.
LEMMA WordsOwn ==
  ASSUME NEW id \in Nat \ {0}, NEW v \in Versions, NEW a \in Nat \ {0}, NEW b \in Nat, a <= b + 1
  PROVE  Words(id, v, a, b) \in OwnText(id)
<1>1. b + 1 - a \in Nat
  OBVIOUS
<1>2. \A i \in 1 .. b + 1 - a : <<id, v, a + i - 1>> \in {id} \X Versions \X Nat
  BY <1>1
<1>3. Words(id, v, a, b) \in [1 .. b + 1 - a -> {id} \X Versions \X Nat]
  BY <1>2 DEF Words
<1> HIDE DEF Versions
<1> QED
  BY <1>1, <1>3 DEF OwnText

\* Texts of one sentence, put end to end.
LEMMA OwnJoins ==
  ASSUME NEW id, NEW s \in OwnText(id), NEW t \in OwnText(id)
  PROVE  s \o t \in OwnText(id)
BY ConcatProperties DEF OwnText

\* The pieces of one sentence, merged.
LEMMA OwnRun ==
  ASSUME NEW q, NEW t \in Nat, NEW id, \A i \in 1 .. t : q[i].delta \in OwnText(id)
  PROVE  FlattenSeq([k \in 1 .. t |-> q[k].delta]) \in OwnText(id)
<1>1. PICK S : S = {id} \X Versions \X Nat
  OBVIOUS
<1>2. [k \in 1 .. t |-> q[k].delta] \in [1 .. t -> Seq(S)]
  BY <1>1 DEF OwnText
<1>3. [k \in 1 .. t |-> q[k].delta] \in Seq(Seq(S)) /\ <<>> \in Seq(S)
  BY <1>2, EmptySeq
<1>4. FlattenSeq([k \in 1 .. t |-> q[k].delta]) \in Seq(S)
  BY <1>3, FlattenAppend
<1> QED
  BY <1>1, <1>4 DEF OwnText

\* A step that adds no text: the worker keeps what it has, or has nothing.
LEMMA QuietOwned ==
  ASSUME Owned, UNCHANGED <<queue, inputSentenceId, previewTranslation, previewTranslationSentenceId>>,
         OnPiece' => OnPiece /\ work' = work,
         workerTranslation' = <<>> \/ UNCHANGED <<workerTranslation, workerSentenceId>>,
         segment' = NoSegment \/ UNCHANGED <<segment, workerSentenceId>>
  PROVE  Owned'
<1>1. QueueOwned' /\ PieceOwned' /\ PreviewOwned'
  BY DEF Owned, QueueOwned, PieceOwned, PreviewOwned
<1>2. <<>> \in OwnText(workerSentenceId')
  BY EmptySeq DEF OwnText
<1>3. WorkerOwned'
  BY <1>2, Zenon DEF Owned, WorkerOwned
<1> QED
  BY <1>1, <1>3 DEF Owned

\* onPartial queues words of the sentence being spoken.
LEMMA OnPartialOwned ==
  ASSUME Typed, Owned, NEW n \in 1 .. MaxWords, OnPartial(n)
  PROVE  Owned'
<1>1. UNCHANGED <<inputSentenceId, pc, work, sentenceVars, previewVars>>
  BY DEF OnPartial
<1>2. PieceOwned' /\ WorkerOwned' /\ PreviewOwned'
  BY <1>1 DEF Owned, PieceOwned, WorkerOwned, PreviewOwned, OnPiece, Pending, sentenceVars, previewVars
<1>3. CASE UNCHANGED queue
  BY <1>2, <1>3 DEF Owned, QueueOwned
<1>4. CASE \E c \in (committed + 1) .. Min({n, previewSource}) :
              queue' = Append(queue, Commit(inputSentenceId,
                          Words(inputSentenceId, "heard", committed + 1, c)))
  <2>1. PICK c \in (committed + 1) .. Min({n, previewSource}) :
           queue' = Append(queue, Commit(inputSentenceId,
                          Words(inputSentenceId, "heard", committed + 1, c)))
    BY <1>4
  <2>2. n \in Nat /\ previewSource \in Nat /\ committed \in Nat /\ inputSentenceId \in Nat \ {0}
    BY ConstantsAssumption DEF Typed
  <2>3. Min({n, previewSource}) \in Nat
    BY <2>2, MinOfTwo
  <2>4. c \in Nat /\ committed + 1 \in Nat \ {0} /\ committed + 1 <= c + 1 /\ "heard" \in Versions
    BY <2>2, <2>3 DEF Versions
  <2> DEFINE e == Commit(inputSentenceId, Words(inputSentenceId, "heard", committed + 1, c))
  <2>5. e.delta \in OwnText(e.id)
    BY <2>2, <2>4, WordsOwn DEF Commit
  <2>6. queue' = Append(queue, e) /\ queue \in Seq(Events)
    BY <2>1 DEF Typed
  <2> HIDE DEF e
  <2>7. /\ Len(queue') = Len(queue) + 1 /\ queue'[Len(queue) + 1] = e
        /\ \A i \in 1 .. Len(queue) : queue'[i] = queue[i]
        /\ Len(queue) \in Nat
    BY <2>6, AppendProperties, LenProperties
  <2>8. \A i \in 1 .. Len(queue') : i \in 1 .. Len(queue) \/ i = Len(queue) + 1
    BY <2>7
  <2>9. QueueOwned'
    BY <2>5, <2>7, <2>8 DEF Owned, QueueOwned
  <2> QED
    BY <1>2, <2>9 DEF Owned
<1> QED
  BY <1>3, <1>4 DEF OnPartial

\* onFinal starts a sentence the worker has not got to.
LEMMA OnFinalOwned ==
  ASSUME Typed, Floor, Owned, NEW c \in Callers, NEW n \in 1 .. MaxWords, OnFinal(c, n)
  PROVE  Owned'
<1>1. /\ UNCHANGED <<pc, work, sentenceVars, previewVars>> /\ inputSentenceId' = inputSentenceId + 1
      /\ queue \in Seq(Events)
  BY DEF OnFinal, Typed
<1>2. PieceOwned' /\ PreviewOwned'
  BY <1>1 DEF Owned, PieceOwned, PreviewOwned, OnPiece, Pending, previewVars
<1>3. WorkerOwned'
  <2>1. workerSentenceId' # inputSentenceId'
    BY <1>1 DEF Floor, Typed, sentenceVars
  <2> QED
    BY <2>1 DEF WorkerOwned
<1>4. PICK e : queue' = Append(queue, e) /\ e.kind = "Final" /\ e \in Events
  <2>1. PICK diverged, source :
         /\ diverged \in BOOLEAN
         /\ source = Words(inputSentenceId, IF diverged THEN "revised" ELSE "heard", 1, n)
         /\ IF diverged THEN committed > 0 ELSE committed <= n
         /\ heard' = Append(heard, source)
         /\ queue' = Append(queue, Final(inputSentenceId, source,
                           IF diverged THEN <<>> ELSE SubSeq(source, committed + 1, n), diverged))
    BY DEF OnFinal
  <2>2. n \in Nat \ {0}
    BY ConstantsAssumption
  <2>3. PICK e \in Finals : queue' = Append(queue, e)
    BY <2>1, <2>2, FinalTyped DEF Final
  <2> QED
    BY <2>3 DEF Events, Finals
<1>5. /\ Len(queue') = Len(queue) + 1 /\ queue'[Len(queue) + 1] = e
      /\ \A i \in 1 .. Len(queue) : queue'[i] = queue[i]
      /\ Len(queue) \in Nat
  BY <1>1, <1>4, AppendProperties, LenProperties
<1>6. \A i \in 1 .. Len(queue') : i \in 1 .. Len(queue) \/ i = Len(queue) + 1
  BY <1>5
<1>7. QueueOwned'
  BY <1>4, <1>5, <1>6 DEF Owned, QueueOwned
<1> QED
  BY <1>2, <1>3, <1>7 DEF Owned

\* nextWork merges pieces of one sentence.
LEMMA TakeOwned ==
  ASSUME Ground, Texts, Owned, TakeWork
  PROVE  Owned'
<1>1. /\ pc = "take"
      /\ UNCHANGED <<inputSentenceId, sentenceVars, previewVars>>
  BY DEF TakeWork, inputVars
<1>2. WorkerOwned' /\ PreviewOwned'
  BY <1>1 DEF Owned, WorkerOwned, PreviewOwned, sentenceVars, previewVars
<1>3. CASE queue = <<>>
  <2>1. pc' = "empty" /\ UNCHANGED queue
    BY <1>3 DEF TakeWork
  <2> QED
    BY <1>2, <2>1 DEF Owned, QueueOwned, PieceOwned, OnPiece, Pending
<1>4. CASE queue # <<>>
  <2>1. /\ pc' = "enter" /\ work' = Merged(queue)
        /\ queue' = Cut(queue, Taken(queue), Len(queue))
    BY <1>4 DEF TakeWork, Cut
  <2>2. /\ queue \in Seq(Events) /\ setup.drafts \in BOOLEAN /\ (~setup.drafts => queue \in Seq(Finals))
        /\ resolved \in Nat /\ inputSentenceId \in Nat
    BY DEF Ground, Typed
  <2>3. PICK t \in 1 .. Len(queue) : t = Taken(queue)
    BY <1>4, <2>2, TakenIs
  <2>4. Len(queue) \in Nat /\ t \in Nat /\ IsCut(queue', queue, t, Len(queue))
    BY <2>1, <2>2, <2>3, RestIs, LenProperties
  <2>5. \A i \in 1 .. Len(queue') : t + i \in 1 .. Len(queue) /\ queue'[i] = queue[t + i]
    BY <2>4 DEF IsCut
  <2>6. QueueOwned'
    BY <2>5 DEF Owned, QueueOwned
  <2>7. PieceOwned'
    <3> SUFFICES ASSUME OnPiece' PROVE work'.delta \in OwnText(work'.id)
      BY DEF PieceOwned
    <3>1. work'.kind = "Commit" /\ work'.id = queue[t].id /\ queue[t].kind = "Commit"
      <4>1. work'.kind = queue[t].kind /\ work'.id = queue[t].id
        BY <1>4, <2>1, <2>2, <2>3, MergedIs
      <4> QED
        BY <4>1 DEF OnPiece
    <3>2. Ordered(queue, heard, resolved, inputSentenceId)
      BY <1>1, AtTake DEF Ground
    <3>3. \A i \in 1 .. t : queue[i].kind = "Commit" /\ queue[i].id = queue[t].id
      BY <1>4, <2>2, <2>3, <3>1, <3>2, TakenPiece
    <3>4. \A i \in 1 .. t : i \in 1 .. Len(queue)
      BY <2>4
    <3>5. \A i \in 1 .. t : queue[i].delta \in OwnText(queue[t].id)
      BY <3>3, <3>4 DEF Owned, QueueOwned
    <3>6. FlattenSeq([k \in 1 .. t |-> queue[k].delta]) \in OwnText(queue[t].id)
      BY <2>4, <3>5, OwnRun
    <3>7. work'.delta = FlattenSeq([k \in 1 .. t |-> queue[k].delta])
      BY <2>1, <2>3, <3>1 DEF Merged, Commit
    <3> QED
      BY <3>1, <3>6, <3>7
  <2> QED
    BY <1>2, <2>6, <2>7 DEF Owned
<1> QED
  BY <1>3, <1>4

\* enterSentence starts the sentence with nothing.
LEMMA EnterOwned ==
  ASSUME Ground, Owned, Enter
  PROVE  Owned'
<1>1. /\ pc = "enter" /\ work \in Events /\ workerSentenceId' = work.id
      /\ UNCHANGED <<inputSentenceId, queue, previewVars>>
  BY EnterIs DEF Ground, Enter, inputVars
<1>2. QueueOwned' /\ PreviewOwned'
  BY <1>1 DEF Owned, QueueOwned, PreviewOwned, previewVars
<1>3. CASE work.kind = "Final"
  <2>1. work.id < inputSentenceId /\ work.id \in Nat
    BY <1>1, <1>3, WorkIsNext DEF Ground, Live, Over, Working
  <2>2. work' = work \/ work' = [work EXCEPT !.delta = work.source]
    BY EnterIs DEF Ground
  <2>3. work'.kind = "Final"
    <3>1. work \in Finals
      BY <1>1, <1>3, Kinds
    <3> QED
      BY <1>3, <2>2, <3>1 DEF Finals
  <2>4. WorkerOwned'
    <3>1. inputSentenceId \in Nat
      BY DEF Ground, Typed
    <3> QED
      BY <1>1, <2>1, <3>1 DEF WorkerOwned
  <2>5. PieceOwned'
    BY <2>3 DEF PieceOwned, OnPiece
  <2> QED
    BY <1>2, <2>4, <2>5 DEF Owned
<1>4. CASE work.kind = "Commit"
  <2>1. /\ work' = work
        /\ workerTranslation' = IF work.id # workerSentenceId THEN <<>> ELSE workerTranslation
        /\ segment' = IF work.id # workerSentenceId \/ segment = NoSegment THEN <<>> ELSE segment
    BY <1>4, EnterIs, Zenon DEF Ground
  <2>2. OnPiece
    BY <1>1, <1>4 DEF OnPiece, Pending
  <2>3. PieceOwned'
    BY <2>1, <2>2 DEF Owned, PieceOwned
  <2>4. <<>> \in OwnText(work.id)
    BY EmptySeq DEF OwnText
  <2>5. WorkerOwned'
    BY <1>1, <2>1, <2>4, Zenon DEF Owned, WorkerOwned
  <2> QED
    BY <1>2, <2>3, <2>5 DEF Owned
<1> QED
  BY <1>1, <1>3, <1>4, Kinds

\* A generation adds the words of the piece in hand; a final in hand is not of the
\* sentence being spoken.
LEMMA GenerationOwned ==
  ASSUME Ground, Owned, Token \/ AppendDone
  PROVE  Owned'
<1>1. /\ pc = "append" /\ work' = work /\ workerTranslation' = segment \o work.delta
      /\ segment' = segment \/ segment' = segment \o work.delta
      /\ UNCHANGED <<inputSentenceId, queue, workerSentenceId, previewVars>>
  BY DEF Token, AppendDone, inputVars
<1>2. QueueOwned' /\ PreviewOwned'
  BY <1>1 DEF Owned, QueueOwned, PreviewOwned, previewVars
<1>3. PieceOwned'
  BY <1>1 DEF Owned, PieceOwned, OnPiece, Pending
<1>4. work \in Events /\ workerSentenceId = work.id /\ segment # NoSegment
  BY <1>1 DEF Ground, Typed, Floor
<1>5. WorkerOwned'
  <2> SUFFICES ASSUME workerSentenceId = inputSentenceId
               PROVE  workerTranslation' \in OwnText(workerSentenceId) /\ segment' \in OwnText(workerSentenceId)
    BY <1>1 DEF WorkerOwned
  <2>1. work.kind = "Commit"
    <3>1. work.kind = "Final" => work.id < inputSentenceId
      BY <1>1, WorkIsNext DEF Ground, Live, Over, Working
    <3>2. inputSentenceId \in Nat
      BY DEF Ground, Typed
    <3> QED
      BY <1>4, <3>1, <3>2, Kinds
  <2>2. OnPiece
    BY <1>1, <2>1 DEF OnPiece, Pending
  <2>3. work.delta \in OwnText(workerSentenceId) /\ segment \in OwnText(workerSentenceId)
    BY <1>4, <2>2 DEF Owned, PieceOwned, WorkerOwned
  <2>4. segment \o work.delta \in OwnText(workerSentenceId)
    BY <2>3, OwnJoins
  <2> QED
    BY <1>1, <2>3, <2>4
<1> QED
  BY <1>2, <1>3, <1>5 DEF Owned

\* Every step keeps each word with its sentence.
LEMMA NextOwned ==
  ASSUME Ground, Texts, Owned, [Next]_vars
  PROVE  Owned'
<1>1. ASSUME NEW n \in 1 .. MaxWords, OnPartial(n) PROVE Owned'
  BY <1>1, OnPartialOwned DEF Ground
<1>2. ASSUME NEW c \in Callers, NEW n \in 1 .. MaxWords, OnFinal(c, n) PROVE Owned'
  BY <1>2, OnFinalOwned DEF Ground
<1>3. CASE Finish \/ (\E c \in Callers : Signal(c)) \/ Cancel \/ PublishPreview \/ PreviewEnds \/ UNCHANGED vars
  <2>1. /\ UNCHANGED <<inputSentenceId, queue, pc, work, sentenceVars, previewTranslation,
                       previewTranslationSentenceId>>
    BY <1>3 DEF Finish, Signal, Cancel, PublishPreview, PreviewEnds, vars, inputVars, previewVars
  <2> QED
    BY <2>1, QuietOwned DEF OnPiece, Pending, sentenceVars
<1>4. CASE TakeWork
  BY <1>4, TakeOwned
<1>5. CASE Enter
  BY <1>5, EnterOwned
<1>6. CASE Token \/ AppendDone
  BY <1>6, GenerationOwned
<1>7. CASE CheckFinished \/ StartPreview \/ Receive \/ PreviewWoken \/ PreviewOver
  <2>1. /\ UNCHANGED <<inputSentenceId, queue, workerSentenceId, workerTranslation, previewTranslation,
                       previewTranslationSentenceId>>
        /\ pc' \in {"ended", "idle", "wait", "preview", "join", "take"}
        /\ segment' \in {segment, NoSegment}
    BY <1>7 DEF CheckFinished, StartPreview, Receive, PreviewWoken, PreviewOver, CloseSegment, inputVars,
       sentenceVars, previewVars
  <2> QED
    BY <2>1, QuietOwned DEF OnPiece, Pending
<1>8. CASE ShowPartial \/ AppendFails \/ Resolve
  <2>1. /\ UNCHANGED <<inputSentenceId, queue, workerSentenceId, workerTranslation, work, previewTranslation,
                       previewTranslationSentenceId>>
        /\ pc \in {"append", "show", "resolve"} /\ pc' \in {"append", "reset", "take"}
        /\ segment' \in {segment, NoSegment}
    BY <1>8 DEF ShowPartial, AppendFails, Resolve, CloseSegment, inputVars, sentenceVars, previewVars
  <2> QED
    BY <2>1, QuietOwned DEF OnPiece, Pending
<1>9. CASE ResetSentence \/ Unwind
  <2>1. /\ UNCHANGED <<inputSentenceId, queue, previewTranslation, previewTranslationSentenceId>>
        /\ pc' \in {"crashed", "take", "cancelled"} /\ segment' = NoSegment
        /\ workerTranslation' = <<>> \/ UNCHANGED <<workerTranslation, workerSentenceId>>
    BY <1>9 DEF ResetSentence, Unwind, CloseSegment, LeaveSentence, inputVars, previewVars
  <2> QED
    BY <2>1, QuietOwned DEF OnPiece, Pending
<1>10. CASE PreviewToken
  <2>1. /\ UNCHANGED <<inputSentenceId, queue, pc, work, sentenceVars>>
        /\ previewTranslation' = Words(preview.id, "heard", 1, preview.words)
        /\ previewTranslationSentenceId' = preview.id
    BY <1>10 DEF PreviewToken, inputVars
  <2>2. PreviewOwned'
    BY <2>1 DEF PreviewOwned, Words
  <2>3. QueueOwned' /\ PieceOwned' /\ WorkerOwned'
    BY <2>1 DEF Owned, QueueOwned, PieceOwned, WorkerOwned, OnPiece, Pending, sentenceVars
  <2> QED
    BY <2>2, <2>3 DEF Owned
<1> QED
  BY <1>1, <1>2, <1>3, <1>4, <1>5, <1>6, <1>7, <1>8, <1>9, <1>10, Zenon DEF Next, Input, Worker, Preview

\* Nothing is translated yet.
LEMMA InitOwned ==
  Init => Owned
<1> SUFFICES ASSUME Init PROVE Owned
  OBVIOUS
<1>1. /\ pc = "take" /\ segment = NoSegment /\ queue = <<>> /\ workerTranslation = <<>>
      /\ previewTranslation = <<>>
  BY DEF Init
<1>2. Len(queue) = 0 /\ DOMAIN previewTranslation = {} /\ workerTranslation \in OwnText(workerSentenceId)
  BY <1>1, EmptySeq DEF OwnText
<1> QED
  BY <1>1, <1>2 DEF Owned, QueueOwned, PieceOwned, WorkerOwned, PreviewOwned, OnPiece, Pending

\* translationForCurrentSentence returns words of the sentence being spoken only.
THEOREM CurrentIsOfItsSentence ==
  Spec => []CurrentTranslationIsCurrent
<1>1. Owned => CurrentTranslationIsCurrent
  <2> SUFFICES ASSUME Owned PROVE CurrentTranslationIsCurrent
    OBVIOUS
  <2>1. ASSUME workerSentenceId = inputSentenceId, NEW i \in DOMAIN workerTranslation
        PROVE  workerTranslation[i][1] = inputSentenceId
    <3>1. PICK S : S = {inputSentenceId} \X Versions \X Nat
      OBVIOUS
    <3>2. workerTranslation \in Seq(S)
      BY <2>1, <3>1 DEF Owned, WorkerOwned, OwnText
    <3>3. i \in 1 .. Len(workerTranslation)
      BY <2>1, <3>2, LenProperties
    <3>4. workerTranslation[i] \in S
      BY <3>2, <3>3, ElementOfSeq
    <3> QED
      BY <3>1, <3>4
  <2>2. ASSUME previewTranslationSentenceId = inputSentenceId, NEW i \in DOMAIN previewTranslation
        PROVE  previewTranslation[i][1] = inputSentenceId
    BY <2>2 DEF Owned, PreviewOwned
  <2> QED
    BY <2>1, <2>2 DEF CurrentTranslationIsCurrent
<1>2. Init => Owned
  BY InitOwned
<1>3. Ground /\ Texts /\ Owned /\ [Next]_vars => Owned'
  BY NextOwned
<1> QED
  BY <1>1, <1>2, <1>3, TextsAlways, PTL DEF Spec
=============================================================================
