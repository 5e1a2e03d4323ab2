-------------------------- MODULE ModelStoreProofs --------------------------
(***************************************************************************)
(* Proof that a model on the device is damaged only where a flow ended,    *)
(* for any models, number of flows and of faults, as long as no two flows  *)
(* ran at once.                                                            *)
(*                                                                         *)
(* The argument.  A file is under one name only, so a stream changes what  *)
(* is under the name it was opened for and nothing else: a download is     *)
(* written under a temporary name, which no loader looks at, and has there *)
(* all of its answer when it is given its final name.  A file of an        *)
(* archive is written under its final name, so what an unpacking leaves is *)
(* known by where it is in the list of entries, and what a loader finds    *)
(* before it unpacks is nothing, all, or what an unpacking that ended      *)
(* early has left.  Downloads of one model follow each other, each after   *)
(* the hash of the one before: a file is there only if those before it     *)
(* were hashed, so one that was not is the last.                           *)
(***************************************************************************)
EXTENDS ModelStore, FiniteSetTheorems, TLAPS

-----------------------------------------------------------------------------
(* The inductive invariant.                                                *)

Blocks == {"right", "other", "text", "-"}
DownloadSteps == {"download", "first", "second", "rename", "move", "renamed", "downloaded"}
UnpackSteps == {"unpack", "write"}
Steps == {"idle", "deleteArchive"} \cup DownloadSteps \cup UnpackSteps

Types ==
  /\ model \in Models
  /\ path \in [Names(model) -> Files \cup {None}]
  /\ temp \in [Names(model) -> Files \cup {None}]
  /\ data \in [Files -> Blocks \X Blocks]
  /\ pc \in [Flows -> Steps] /\ at \in [Flows -> Nat \ {0}]
  /\ answer \in [Flows -> Answers]
  /\ out \in [Flows -> Files \cup {None}] /\ src \in [Flows -> Files \cup {None}]
  /\ stopped \in 1..(Len(model.entries) + 1) /\ overlapped \in BOOLEAN

\* The place of a flow is one of the list it goes through.
Places ==
  \A c \in Flows :
    /\ pc[c] \in DownloadSteps => at[c] <= Len(model.downloads)
    /\ pc[c] = "write" => at[c] <= Len(model.entries)
    /\ pc[c] = "unpack" => at[c] <= Len(model.entries) + 1
    /\ pc[c] = "deleteArchive" => model.way = "zipped"

Alone == \A c, d \in Flows : pc[c] # "idle" /\ pc[d] # "idle" => c = d

\* A file has one name.
Apart ==
  /\ \A f, g \in Names(model) : path[f] = path[g] /\ path[f] # None => f = g
  /\ \A f, g \in Names(model) : temp[f] = temp[g] /\ temp[f] # None => f = g
  /\ \A f, g \in Names(model) : path[f] = temp[g] => path[f] = None

Hashed == \A f \in model.checked \ unchecked : Exists(f) => IsWhole(f)

Disk == Apart /\ DestinationsAreWhole /\ Hashed

\* Nothing of an archive is unpacked; the first n of its files are.
Barren == \A e \in Range(model.entries) : ~Exists(e)
Filled(n) == \A j \in 1..n : IsWhole(model.entries[j])

\* What a flow that is about to take a step may take for granted.
Downloads(c) ==
  /\ pc[c] \in DownloadSteps => Barren
  /\ pc[c] \in {"first", "second"} => out[c] # None /\ out[c] = temp[Wanted(c)]
  /\ pc[c] = "first" => data[out[c]] = Empty
  /\ pc[c] = "second" => data[out[c]] = <<answer[c][1], "-">>
  /\ pc[c] \in {"rename", "move"} =>
       temp[Wanted(c)] # None /\ data[temp[Wanted(c)]] \in Answers

Unpacks(c) ==
  /\ pc[c] \in {"unpack", "write"} => Filled(at[c] - 1)
  /\ pc[c] = "write" => out[c] # None /\ out[c] = path[Entry(c)]

AtRest ==
  (\A c \in Flows : pc[c] \in {"idle", "deleteArchive"}) => UnpackedAreWhole \/ Barren

Sole ==
  /\ Alone /\ Disk /\ AtRest
  /\ \A c \in Flows : Downloads(c) /\ Unpacks(c)

\* A file with a hash that is as its hash says, and was looked at.
Sure(f) == IsWhole(f) /\ f \notin unchecked

\* A file is there only if the ones with a hash before it are sure.
BehindSure ==
  \A i, j \in 1..Len(model.downloads) :
    i < j /\ model.downloads[i] \in model.checked /\ Exists(model.downloads[j]) =>
      Sure(model.downloads[i])

\* So are those a flow has passed; one it is about to replace has none behind it.
Passed(c) ==
  /\ pc[c] \in DownloadSteps =>
       \A i \in 1..(at[c] - 1) : model.downloads[i] \in model.checked => Sure(model.downloads[i])
  /\ pc[c] \in {"first", "second", "rename", "move"} /\ Wanted(c) \in model.checked =>
       \A j \in (at[c] + 1)..Len(model.downloads) : ~Exists(model.downloads[j])

InOrder == BehindSure /\ \A c \in Flows : Passed(c)

IInv == Types /\ Places /\ (~overlapped => Sole /\ InOrder)

-----------------------------------------------------------------------------
(* There is always a file for a stream that is opened.                     *)

\* A function takes at most as many values on S as S has elements.
LEMMA ValuesBound ==
  ASSUME NEW S, IsFiniteSet(S), NEW g
  PROVE  IsFiniteSet({g[x] : x \in S}) /\ Cardinality({g[x] : x \in S}) <= Cardinality(S)
<1> DEFINE h == [x \in S |-> g[x]]
           T == {g[x] : x \in S}
<1>1. h \in Surjection(S, T)
  BY DEF Surjection
<1> QED BY <1>1, FS_Surjection

\* A sequence has finitely many elements.
LEMMA FiniteRange ==
  ASSUME NEW T, NEW s \in Seq(T)
  PROVE  IsFiniteSet(Range(s))
<1> DEFINE D == DOMAIN s
<1>1. IsFiniteSet(D)
  BY FS_Interval
<1>2. IsFiniteSet({s[x] : x \in D})
  <2> HIDE DEF D
  <2> QED BY <1>1, ValuesBound
<1> QED BY <1>2 DEF Range

LEMMA UnionBound ==
  ASSUME NEW S, NEW T, IsFiniteSet(S), IsFiniteSet(T)
  PROVE  /\ IsFiniteSet(S \cup T)
         /\ Cardinality(S \cup T) <= Cardinality(S) + Cardinality(T)
<1>1. IsFiniteSet(S \cap T)
  BY FS_Intersection
<1>2. /\ Cardinality(S) \in Nat /\ Cardinality(T) \in Nat
      /\ Cardinality(S \cap T) \in Nat
  BY <1>1, FS_CardinalityType
<1>3. /\ IsFiniteSet(S \cup T)
      /\ Cardinality(S \cup T) = Cardinality(S) + Cardinality(T) - Cardinality(S \cap T)
  BY FS_Union
<1> QED BY <1>2, <1>3

\* Four finite sets with fewer than n elements together leave out one of 1..n.
LEMMA OneIsFree ==
  ASSUME NEW P, NEW Q, NEW R, NEW S, NEW n \in Nat,
         IsFiniteSet(P), IsFiniteSet(Q), IsFiniteSet(R), IsFiniteSet(S),
         Cardinality(P) + Cardinality(Q) + Cardinality(R) + Cardinality(S) < n
  PROVE  \E i \in 1..n : i \notin P /\ i \notin Q /\ i \notin R /\ i \notin S
<1> DEFINE U == P \cup Q
           V == R \cup S
           W == U \cup V
<1>1. /\ Cardinality(P) \in Nat /\ Cardinality(Q) \in Nat
      /\ Cardinality(R) \in Nat /\ Cardinality(S) \in Nat
  BY FS_CardinalityType
<1>2. IsFiniteSet(U) /\ Cardinality(U) <= Cardinality(P) + Cardinality(Q)
  BY UnionBound
<1>3. IsFiniteSet(V) /\ Cardinality(V) <= Cardinality(R) + Cardinality(S)
  BY UnionBound
<1>4. Cardinality(U) \in Nat /\ Cardinality(V) \in Nat
  BY <1>2, <1>3, FS_CardinalityType
<1>5. IsFiniteSet(W) /\ Cardinality(W) <= Cardinality(U) + Cardinality(V)
  <2> HIDE DEF U, V
  <2> QED BY <1>2, <1>3, UnionBound
<1>6. Cardinality(W) \in Nat
  BY <1>5, FS_CardinalityType
<1>7. Cardinality(1..n) = n
  BY FS_Interval
<1>8. ASSUME 1..n \subseteq W PROVE FALSE
  <2> HIDE DEF W
  <2>1. Cardinality(1..n) <= Cardinality(W)
    BY <1>5, <1>8, FS_Subset
  <2> HIDE DEF U, V
  <2> QED BY <2>1, <1>1, <1>2, <1>3, <1>4, <1>5, <1>6, <1>7
<1> QED BY <1>8

\* The names of a model, and the flows, are finitely many.
LEMMA FinitelyMany ==
  ASSUME model \in Models
  PROVE  /\ IsFiniteSet(Names(model)) /\ Cardinality(Names(model)) \in Nat
         /\ IsFiniteSet(Flows) /\ Cardinality(Flows) \in Nat
<1>1. IsFiniteSet(Range(model.downloads)) /\ IsFiniteSet(Range(model.entries))
  BY FiniteRange, StoreAssumption
<1> QED BY <1>1, FS_Union, FS_CardinalityType, StoreAssumption DEF Names

\* A new file is one that nothing leads to.
LEMMA NewFileIsNew ==
  ASSUME Types, NEW f \in Names(model), path[f] = None \/ temp[f] = None
  PROVE  NewFile \in Files /\ NewFile \notin Reached
<1> DEFINE N == Names(model)
           L == N \ {f}
           P == IF path[f] = None THEN L ELSE N
           Q == IF path[f] = None THEN N ELSE L
           PV == {path[x] : x \in P}
           QV == {temp[x] : x \in Q}
           OV == {out[x] : x \in Flows}
           SV == {src[x] : x \in Flows}
           k == Cardinality(N)
           m == Cardinality(Flows)
<1>1. IsFiniteSet(N) /\ k \in Nat /\ IsFiniteSet(Flows) /\ m \in Nat
  BY FinitelyMany DEF Types
<1>2. IsFiniteSet(L) /\ Cardinality(L) = k - 1 /\ Cardinality(L) \in Nat
  BY <1>1, FS_RemoveElement, FS_CardinalityType
<1>3. IsFiniteSet(P) /\ IsFiniteSet(Q) /\ Cardinality(P) + Cardinality(Q) = 2 * k - 1
      /\ Cardinality(P) \in Nat /\ Cardinality(Q) \in Nat
  <2> HIDE DEF L, k, N
  <2> QED BY <1>1, <1>2 DEF k
<1>4. /\ IsFiniteSet(PV) /\ Cardinality(PV) <= Cardinality(P)
      /\ IsFiniteSet(QV) /\ Cardinality(QV) <= Cardinality(Q)
      /\ IsFiniteSet(OV) /\ Cardinality(OV) <= m
      /\ IsFiniteSet(SV) /\ Cardinality(SV) <= m
  <2> HIDE DEF P, Q
  <2> QED BY <1>1, <1>3, ValuesBound
<1>5. /\ Cardinality(PV) \in Nat /\ Cardinality(QV) \in Nat
      /\ Cardinality(OV) \in Nat /\ Cardinality(SV) \in Nat
  BY <1>4, FS_CardinalityType
<1>6. 2 * (k + m) \in Nat /\ Files = 1..(2 * (k + m))
  BY <1>1 DEF Files
<1>7. Cardinality(PV) + Cardinality(QV) + Cardinality(OV) + Cardinality(SV) < 2 * (k + m)
  <2> HIDE DEF P, Q, PV, QV, OV, SV, k, m
  <2> QED BY <1>1, <1>3, <1>4, <1>5
<1>8. PICK i \in 1..(2 * (k + m)) : i \notin PV /\ i \notin QV /\ i \notin OV /\ i \notin SV
  <2> HIDE DEF PV, QV, OV, SV, k, m
  <2> QED BY <1>4, <1>6, <1>7, OneIsFree
<1>9. i # None
  <2> HIDE DEF k, m
  <2> QED BY <1>6, <1>8 DEF None
<1>10. i \in Files /\ i \notin Reached
  <2>1. i \notin Range(path)
    BY <1>8, <1>9 DEF Range, Types
  <2>2. i \notin Range(temp)
    BY <1>8, <1>9 DEF Range, Types
  <2>3. i \notin Range(out) /\ i \notin Range(src)
    BY <1>8 DEF Range, Types
  <2> QED BY <2>1, <2>2, <2>3, <1>6, <1>8 DEF Reached
<1> QED BY <1>10 DEF NewFile

\* What is opened under p[f]: the file that is there, or one without a name.
OpenedFor(p, f, o) ==
  /\ o \in Files /\ o # None
  /\ p[f] # None => o = p[f]
  /\ p[f] = None => \A g \in Names(model) : path[g] # o /\ temp[g] # o

LEMMA PathOpened ==
  ASSUME Types, NEW f \in Names(model)
  PROVE  OpenedFor(path, f, Opened(path, f))
<1>1. \A i \in Files : i # None
  BY FinitelyMany DEF Types, Files, None
<1>2. CASE path[f] = None
  <2>1. NewFile \in Files /\ NewFile \notin Reached
    BY <1>2, NewFileIsNew
  <2>2. \A g \in Names(model) : path[g] \in Reached /\ temp[g] \in Reached
    BY DEF Reached, Range, Types
  <2> QED BY <1>1, <1>2, <2>1, <2>2 DEF OpenedFor, Opened
<1>3. CASE path[f] # None
  BY <1>1, <1>3 DEF OpenedFor, Opened, Types
<1> QED BY <1>2, <1>3

LEMMA TempOpened ==
  ASSUME Types, NEW f \in Names(model)
  PROVE  OpenedFor(temp, f, Opened(temp, f))
<1>1. \A i \in Files : i # None
  BY FinitelyMany DEF Types, Files, None
<1>2. CASE temp[f] = None
  <2>1. NewFile \in Files /\ NewFile \notin Reached
    BY <1>2, NewFileIsNew
  <2>2. \A g \in Names(model) : path[g] \in Reached /\ temp[g] \in Reached
    BY DEF Reached, Range, Types
  <2> QED BY <1>1, <1>2, <2>1, <2>2 DEF OpenedFor, Opened
<1>3. CASE temp[f] # None
  BY <1>1, <1>3 DEF OpenedFor, Opened, Types
<1> QED BY <1>2, <1>3

-----------------------------------------------------------------------------
(* Names and places.                                                       *)

\* The name a flow downloads to, its archive and the entry it unpacks are
\* names of the model, and what is downloaded is not what is unpacked.
LEMMA WantedIsAName ==
  ASSUME Types, Places, NEW c \in Flows, pc[c] \in DownloadSteps
  PROVE  /\ Wanted(c) \in Range(model.downloads) /\ Wanted(c) \in Names(model)
         /\ Wanted(c) \notin Range(model.entries)
<1>1. at[c] \in 1..Len(model.downloads)
  BY DEF Types, Places
<1>2. model.downloads \in Seq(Range(model.downloads))
      /\ Range(model.downloads) \cap Range(model.entries) = {}
  BY StoreAssumption DEF Types
<1>3. Wanted(c) \in Range(model.downloads)
  BY <1>1, <1>2 DEF Wanted
<1> QED BY <1>2, <1>3 DEF Names

LEMMA EntryIsAName ==
  ASSUME model \in Models, NEW j \in 1..Len(model.entries)
  PROVE  /\ model.entries[j] \in Range(model.entries) /\ model.entries[j] \in Names(model)
         /\ model.entries[j] \notin Range(model.downloads)
<1>1. model.entries \in Seq(Range(model.entries))
      /\ Range(model.downloads) \cap Range(model.entries) = {}
  BY StoreAssumption
<1>2. model.entries[j] \in Range(model.entries)
  BY <1>1
<1> QED BY <1>1, <1>2 DEF Names

LEMMA NamesDiffer ==
  ASSUME model \in Models
  PROVE  /\ \A i, j \in 1..Len(model.entries) : i # j => model.entries[i] # model.entries[j]
         /\ \A i, j \in 1..Len(model.downloads) : i # j => model.downloads[i] # model.downloads[j]
<1>1. /\ model.downloads \in Seq(Range(model.downloads)) /\ IsInjective(model.downloads)
      /\ model.entries \in Seq(Range(model.entries)) /\ IsInjective(model.entries)
  BY StoreAssumption
<1> QED BY <1>1 DEF IsInjective

LEMMA ArchiveIsAName ==
  ASSUME model \in Models, model.way \in {"plain", "sized", "zipped"}
  PROVE  /\ Archive \in Range(model.downloads) /\ Archive \in Names(model)
         /\ Archive \notin Range(model.entries)
         /\ Range(model.downloads) = {Archive}
<1>1. /\ model.downloads \in Seq(Range(model.downloads)) /\ Len(model.downloads) = 1
      /\ Range(model.downloads) \cap Range(model.entries) = {}
  BY StoreAssumption
<1>2. DOMAIN model.downloads = {1}
  BY <1>1
<1>3. Range(model.downloads) = {Archive}
  BY <1>2 DEF Range, Archive
<1> QED BY <1>1, <1>3 DEF Names

-----------------------------------------------------------------------------
(* A step of the one flow that runs.                                       *)

\* It is enough to know what the step leaves on the device and to its flow.
LEMMA OnlyStep ==
  ASSUME Types, NEW c \in Flows, \A d \in Flows : d # c => pc[d] = "idle",
         NEW l \in Steps, Goto(c, l), Disk', Downloads(c)', Unpacks(c)',
         l \in {"idle", "deleteArchive"} => (UnpackedAreWhole \/ Barren)'
  PROVE  Sole'
<1>1. \A d \in Flows : d # c => pc'[d] = "idle"
  BY DEF Types, Goto
<1>2. pc'[c] = l
  BY DEF Types, Goto
<1>3. Alone'
  BY <1>1 DEF Alone
<1>4. AtRest'
  BY <1>2 DEF AtRest
<1>5. ASSUME NEW d \in Flows PROVE (Downloads(d) /\ Unpacks(d))'
  <2>1. CASE d = c
    BY <2>1
  <2>2. CASE d # c
    <3>1. pc'[d] = "idle"
      BY <1>1, <2>2
    <3> QED BY <3>1 DEF Downloads, Unpacks, DownloadSteps
  <2> QED BY <2>1, <2>2
<1> QED BY <1>3, <1>4, <1>5 DEF Sole

LEMMA SoleStep ==
  ASSUME Types, Alone, NEW c \in Flows, pc[c] # "idle", NEW l \in Steps, Goto(c, l),
         Disk', Downloads(c)', Unpacks(c)',
         l \in {"idle", "deleteArchive"} => (UnpackedAreWhole \/ Barren)'
  PROVE  Sole'
<1>1. \A d \in Flows : d # c => pc[d] = "idle"
  BY DEF Alone
<1> QED BY <1>1, OnlyStep

\* A step that leaves the device as it is.
LEMMA SameDevice ==
  ASSUME UNCHANGED <<model, disk, unchecked>>
  PROVE  /\ Disk => Disk'
         /\ Barren <=> Barren'
         /\ \A n : Filled(n) <=> Filled(n)'
BY DEF disk, Disk, Apart, DestinationsAreWhole, Hashed, Barren, Filled, IsWhole, Exists, Names

\* The place at which an unpacking ends early is one of its list, or behind it.
LEMMA EndsAPlace ==
  ASSUME model \in Models
  PROVE  /\ Len(model.entries) \in Nat
         /\ Behind \in 1..(Len(model.entries) + 1) /\ 1 \in 1..(Len(model.entries) + 1)
<1>1. Len(model.entries) \in Nat
  BY StoreAssumption
<1> QED BY <1>1 DEF Behind

-----------------------------------------------------------------------------
(* Types and places, also of flows that ran at once.                       *)

LEMMA ProvisionTypes ==
  ASSUME Types, Places, NEW c \in Flows, Provision(c)
  PROVE  Types' /\ Places'
<1>1. Types'
  <2>1. at' \in [Flows -> Nat \ {0}]
    BY DEF Types, Provision
  <2>2. pc' \in [Flows -> Steps]
    BY DEF Types, Provision, Goto, Steps, DownloadSteps, UnpackSteps
  <2>3. path' \in [Names(model) -> Files \cup {None}]
    BY DEF Types, Provision
  <2>4. stopped' \in 1..(Len(model.entries) + 1)
    BY EndsAPlace DEF Types, Provision
  <2> QED BY <2>1, <2>2, <2>3, <2>4 DEF Types, Provision, Files, Names
<1>2. model.way # "bundled" => 1 <= Len(model.downloads)
  BY StoreAssumption DEF Types
<1>3. Places'
  BY <1>2, EndsAPlace DEF Types, Places, Provision, Goto, DownloadSteps
<1> QED BY <1>1, <1>3

LEMMA ConnectTypes ==
  ASSUME Types, Places, NEW c \in Flows, Connect(c)
  PROVE  Types' /\ Places'
<1>1. OpenedFor(temp, Wanted(c), Opened(temp, Wanted(c))) /\ Wanted(c) \in Names(model)
  BY TempOpened, WantedIsAName DEF Connect, DownloadSteps
<1>2. Empty \in Blocks \X Blocks
  BY DEF Empty, Blocks
<1>3. Types'
  <2> DEFINE o == Opened(temp, Wanted(c))
  <2> HIDE DEF o
  <2>1. o \in Files
    BY <1>1 DEF OpenedFor, o
  <2>2. /\ out' = [out EXCEPT ![c] = o] /\ data' = [data EXCEPT ![o] = Empty]
        /\ temp' = [temp EXCEPT ![Wanted(c)] = o]
        /\ answer' \in [Flows -> Answers] /\ pc' = [pc EXCEPT ![c] = "first"]
        /\ UNCHANGED <<model, path, at, src, stopped, overlapped>>
    BY DEF Connect, Open, Goto, history, o, Types
  <2> QED BY <1>1, <1>2, <2>1, <2>2 DEF Types, Steps, DownloadSteps, Files, Names
<1>4. Places'
  BY DEF Types, Places, Connect, Goto, DownloadSteps
<1> QED BY <1>3, <1>4

LEMMA WriteTypes ==
  ASSUME Types, Places, NEW c \in Flows, NEW block \in {1, 2}, NEW next \in DownloadSteps,
         pc[c] \in DownloadSteps, Write(c, block, next),
         out' \in {out, [out EXCEPT ![c] = None]}
  PROVE  Types' /\ Places'
<1>1. answer[c][block] \in Blocks
  <2>1. answer[c] \in Answers
    BY DEF Types
  <2> QED BY <2>1 DEF Answers, Blocks
<1>2. data' \in [Files -> Blocks \X Blocks]
  <2>1. CASE answer[c][block] = "-"
    BY <2>1 DEF Write, Types
  <2>2. CASE answer[c][block] # "-"
    <3>1. data' = [data EXCEPT ![out[c]] = [data[out[c]] EXCEPT ![block] = answer[c][block]]]
      BY <2>2 DEF Write
    <3>2. CASE out[c] \in Files
      <4>1. data[out[c]] \in Blocks \X Blocks
        BY <3>2 DEF Types
      <4>2. [data[out[c]] EXCEPT ![block] = answer[c][block]] \in Blocks \X Blocks
        BY <4>1, <1>1
      <4> QED BY <3>1, <3>2, <4>2 DEF Types
    <3>3. CASE out[c] \notin Files
      BY <3>1, <3>3 DEF Types
    <3> QED BY <3>2, <3>3
  <2> QED BY <2>1, <2>2
<1>3. out' \in [Flows -> Files \cup {None}]
  BY DEF Types
<1>4. Types'
  BY <1>2, <1>3 DEF Write, Types, Goto, Steps, Files, Names, history
<1>5. Places'
  BY DEF Write, Types, Places, Goto, DownloadSteps
<1> QED BY <1>4, <1>5

LEMMA VerifyTypes ==
  ASSUME Types, Places, NEW c \in Flows, Verify(c)
  PROVE  Types' /\ Places'
<1>1. Types'
  <2>1. at' \in [Flows -> Nat \ {0}]
    BY DEF Types, Verify
  <2>2. pc' \in [Flows -> Steps]
    BY DEF Types, Verify, Goto, Steps, DownloadSteps
  <2>3. path' \in [Names(model) -> Files \cup {None}]
    BY DEF Types, Verify
  <2> QED BY <2>1, <2>2, <2>3 DEF Types, Verify, Files, Names
<1>2. Len(model.downloads) \in Nat
  BY StoreAssumption DEF Types
<1>3. Places'
  BY <1>2 DEF Types, Places, Verify, Goto, DownloadSteps
<1> QED BY <1>1, <1>3

LEMMA OpenEntryTypes ==
  ASSUME Types, Places, NEW c \in Flows, OpenEntry(c)
  PROVE  Types' /\ Places'
<1>1. at[c] \in 1..Len(model.entries)
  <2>1. Len(model.entries) \in Nat
    BY StoreAssumption DEF Types
  <2> QED BY <2>1 DEF Types, OpenEntry
<1>2. OpenedFor(path, Entry(c), Opened(path, Entry(c))) /\ Entry(c) \in Names(model)
  BY <1>1, PathOpened, EntryIsAName DEF Entry, Types
<1>3. Empty \in Blocks \X Blocks
  BY DEF Empty, Blocks
<1>4. Types'
  <2> DEFINE o == Opened(path, Entry(c))
  <2> HIDE DEF o
  <2>1. o \in Files
    BY <1>2 DEF OpenedFor, o
  <2>2. /\ out' = [out EXCEPT ![c] = o] /\ data' = [data EXCEPT ![o] = Empty]
        /\ path' = [path EXCEPT ![Entry(c)] = o]
        /\ pc' = [pc EXCEPT ![c] = "write"]
        /\ UNCHANGED <<model, temp, at, answer, src, stopped, overlapped>>
    BY DEF OpenEntry, Open, Goto, history, o
  <2> QED BY <1>2, <1>3, <2>1, <2>2 DEF Types, Steps, UnpackSteps, Files, Names
<1>5. Places'
  BY DEF Types, Places, OpenEntry, Goto, DownloadSteps
<1> QED BY <1>4, <1>5

LEMMA WriteEntryTypes ==
  ASSUME Types, Places, NEW c \in Flows, WriteEntry(c)
  PROVE  Types' /\ Places'
<1>1. Whole \in Blocks \X Blocks
  BY DEF Whole, Blocks
<1>2. data' \in [Files -> Blocks \X Blocks]
  BY <1>1 DEF Types, WriteEntry
<1>3. Types'
  <2>1. at' \in [Flows -> Nat \ {0}]
    BY DEF Types, WriteEntry
  <2>2. pc' \in [Flows -> Steps]
    BY DEF Types, WriteEntry, Goto, Steps, UnpackSteps
  <2> QED BY <1>2, <2>1, <2>2 DEF Types, WriteEntry, Files, Names, history
<1>4. Places'
  BY EndsAPlace DEF Types, Places, WriteEntry, Goto, DownloadSteps
<1> QED BY <1>3, <1>4

\* Every step leaves each variable in its type and each flow in its list.
LEMMA TypesKept ==
  ASSUME Types, Places, [Next]_vars
  PROVE  Types' /\ Places'
<1> USE DEF Goto, Steps, DownloadSteps, UnpackSteps
<1>1. CASE UNCHANGED vars
  BY <1>1 DEF vars, disk, flow, history, Types, Places, Files, Names
<1>2. ASSUME NEW c \in Flows, Provision(c) PROVE Types' /\ Places'
  BY <1>2, ProvisionTypes
<1>3. ASSUME NEW c \in Flows, AlreadyThere(c) PROVE Types' /\ Places'
  BY <1>3 DEF AlreadyThere, Types, Places, disk, history, Files, Names
<1>4. ASSUME NEW c \in Flows, Connect(c) PROVE Types' /\ Places'
  BY <1>4, ConnectTypes
<1>5. ASSUME NEW c \in Flows, WriteFirst(c) PROVE Types' /\ Places'
  BY <1>5, WriteTypes DEF WriteFirst
<1>6. ASSUME NEW c \in Flows, WriteSecond(c) PROVE Types' /\ Places'
  BY <1>6, WriteTypes DEF WriteSecond
<1>7. ASSUME NEW c \in Flows, DeleteOld(c) PROVE Types' /\ Places'
  BY <1>7 DEF DeleteOld, Types, Places, history, Files, Names
<1>8. ASSUME NEW c \in Flows, Rename(c) PROVE Types' /\ Places'
  <2>1. Wanted(c) \in Names(model)
    BY <1>8, WantedIsAName DEF Rename
  <2> QED BY <1>8, <2>1 DEF Rename, Types, Places, Files, Names
<1>9. ASSUME NEW c \in Flows, RenameFails(c) PROVE Types' /\ Places'
  BY <1>9 DEF RenameFails, Types, Places, disk, history, Files, Names
<1>10. ASSUME NEW c \in Flows, EmitLast(c) PROVE Types' /\ Places'
  BY <1>10 DEF EmitLast, Types, Places, disk, history, Files, Names
<1>11. ASSUME NEW c \in Flows, Verify(c) PROVE Types' /\ Places'
  BY <1>11, VerifyTypes
<1>12. ASSUME NEW c \in Flows, Finish(c) PROVE Types' /\ Places'
  BY <1>12 DEF Finish, Types, Places, disk, history, Files, Names
<1>13. ASSUME NEW c \in Flows, Unpack(c) PROVE Types' /\ Places'
  <2>1. HasBytes(Archive) => path[Archive] \in Files
    BY <1>13, ArchiveIsAName DEF Unpack, HasBytes, Exists, Types
  <2>2. at' \in [Flows -> Nat \ {0}]
    BY <1>13 DEF Unpack, Types
  <2>3. pc' \in [Flows -> Steps] /\ src' \in [Flows -> Files \cup {None}]
    BY <1>13, <2>1 DEF Unpack, Types
  <2>4. Types'
    BY <1>13, <2>2, <2>3 DEF Unpack, Types, disk, history, Files, Names
  <2>5. Places'
    BY <1>13, EndsAPlace DEF Unpack, Types, Places, disk
  <2> QED BY <2>4, <2>5
<1>14. ASSUME NEW c \in Flows, OpenEntry(c) PROVE Types' /\ Places'
  BY <1>14, OpenEntryTypes
<1>15. ASSUME NEW c \in Flows, WriteEntry(c) PROVE Types' /\ Places'
  BY <1>15, WriteEntryTypes
<1>16. ASSUME NEW c \in Flows, Unpacked(c) \/ Damaged(c) \/ UnpackFails(c)
       PROVE  Types' /\ Places'
  <2>1. Close(c) /\ stopped' \in 1..(Len(model.entries) + 1)
    BY <1>16, EndsAPlace DEF Unpacked, Damaged, UnpackFails, Types, Places
  <2> QED BY <2>1 DEF Close, Types, Places, disk, Files, Names
<1>17. ASSUME NEW c \in Flows, DeleteArchive(c) PROVE Types' /\ Places'
  BY <1>17 DEF DeleteArchive, Types, Places, history, Files, Names
<1>18. ASSUME NEW c \in Flows, DownloadFails(c) PROVE Types' /\ Places'
  BY <1>18 DEF DownloadFails, Types, Places, history, Files, Names
<1>19. CASE Die
  <2>1. stopped' \in 1..(Len(model.entries) + 1)
    BY <1>19, EndsAPlace DEF Die, Types, Places
  <2> QED BY <1>19, <2>1 DEF Die, Types, Places, disk, Files, Names
<1>20. CASE Start
  BY <1>20 DEF Start, Types, Places, disk, flow, history, Files, Names
<1> QED
  BY <1>1, <1>2, <1>3, <1>4, <1>5, <1>6, <1>7, <1>8, <1>9, <1>10, <1>11, <1>12, <1>13,
     <1>14, <1>15, <1>16, <1>17, <1>18, <1>19, <1>20
     DEF Next, Downloading, Loading, Unpacking, Failing

-----------------------------------------------------------------------------
(* Steps that leave the device as it is.                                   *)

LEMMA DeviceKept ==
  ASSUME Types, Sole, NEW c \in Flows, pc[c] # "idle", NEW l \in Steps, Goto(c, l),
         UNCHANGED <<model, disk, unchecked>>,
         l \notin {"first", "second", "rename", "move", "write"},
         l \in DownloadSteps => Barren,
         l = "unpack" => at'[c] = 1,
         l \in {"idle", "deleteArchive"} => Filled(stopped' - 1) \/ Barren
  PROVE  Sole'
<1>1. pc'[c] = l
  BY DEF Types, Goto
<1>2. Disk' /\ (Barren <=> Barren') /\ (Filled(stopped' - 1) => UnpackedAreWhole')
  BY SameDevice DEF Sole, Filled, UnpackedAreWhole, IsWhole, Exists, disk
<1>3. Downloads(c)'
  BY <1>1, <1>2 DEF Downloads
<1>4. Unpacks(c)'
  BY <1>1 DEF Unpacks, Filled
<1>5. l \in {"idle", "deleteArchive"} => (UnpackedAreWhole \/ Barren)'
  BY <1>2
<1> QED BY <1>2, <1>3, <1>4, <1>5, SoleStep DEF Sole

\* A download that is there, or is done with, and what a loader does next.
LEMMA DownloadDone ==
  ASSUME Types, Places, Sole, NEW c \in Flows,
         \/ AlreadyThere(c) \/ RenameFails(c) \/ EmitLast(c) \/ Finish(c) \/ Unpack(c)
  PROVE  Sole'
<1> USE DEF Steps, DownloadSteps, UnpackSteps
<1>1. Barren
  BY DEF Sole, Downloads, AlreadyThere, RenameFails, EmitLast, Finish, Unpack
<1>2. CASE AlreadyThere(c)
  BY <1>1, <1>2, DeviceKept DEF AlreadyThere, history
<1>3. CASE RenameFails(c)
  BY <1>1, <1>3, DeviceKept DEF RenameFails, history
<1>4. CASE EmitLast(c)
  BY <1>1, <1>4, DeviceKept DEF EmitLast, history
<1>5. CASE Finish(c)
  BY <1>1, <1>5, DeviceKept DEF Finish, history
<1>6. CASE Unpack(c)
  <2>1. at'[c] = 1
    BY <1>6 DEF Unpack, Types
  <2> QED BY <1>1, <1>6, <2>1, DeviceKept DEF Unpack, history
<1> QED BY <1>2, <1>3, <1>4, <1>5, <1>6

\* The end of an unpacking.
LEMMA UnpackingEnds ==
  ASSUME Types, Sole, NEW c \in Flows, Unpacked(c) \/ Damaged(c) \/ UnpackFails(c)
  PROVE  Sole'
<1> DEFINE l == IF model.way = "zipped" THEN "deleteArchive" ELSE "idle"
<1>1. Close(c) /\ pc[c] # "idle"
  BY DEF Unpacked, Damaged, UnpackFails
<1>2. Goto(c, l) /\ l \in Steps /\ l \in {"idle", "deleteArchive"}
      /\ UNCHANGED <<model, disk, unchecked>>
  BY <1>1 DEF Close, Steps
<1>3. Filled(stopped' - 1)
  <2>1. CASE Unpacked(c)
    <3>1. at[c] > Len(model.entries) /\ Filled(at[c] - 1)
      BY <2>1 DEF Unpacked, Sole, Unpacks
    <3>2. Len(model.entries) \in Nat /\ at[c] \in Nat \ {0} /\ model \in Models
      BY StoreAssumption DEF Types
    <3>3. stopped' \in 1..(Len(model.entries) + 1)
      BY <2>1 DEF Unpacked, Types
    <3>4. \A j \in 1..(stopped' - 1) : j \in 1..(at[c] - 1)
      <4> DEFINE k == Len(model.entries)
                 m == stopped'
                 n == at[c]
      <4>1. k \in Nat /\ n \in Nat /\ n > k /\ m \in 1..(k + 1)
        BY <3>1, <3>2, <3>3
      <4> HIDE DEF k, m, n
      <4>2. \A j \in 1..(m - 1) : j \in 1..(n - 1)
        BY <4>1
      <4> QED BY <4>2 DEF m, n
    <3> QED BY <3>1, <3>4 DEF Filled
  <2>2. CASE Damaged(c) \/ UnpackFails(c)
    <3>1. pc[c] \in {"unpack", "write"} /\ stopped' = at[c]
      BY <2>2 DEF Damaged, UnpackFails
    <3> QED BY <3>1 DEF Sole, Unpacks
  <2> QED BY <2>1, <2>2
<1> HIDE DEF l
<1> QED BY <1>1, <1>2, <1>3, DeviceKept DEF DownloadSteps

-----------------------------------------------------------------------------
(* Steps that take a name away.                                            *)

\* What is left of the device when f is no longer the final name of a file.
LEMMA PathRemoved ==
  ASSUME Types, Disk, NEW f \in Names(model), path' = [path EXCEPT ![f] = None],
         UNCHANGED <<model, temp, data>>,
         \A g \in model.checked \ unchecked' : g = f \/ g \notin unchecked
  PROVE  /\ Disk'
         /\ Barren => Barren'
         /\ f \notin Range(model.entries) => \A n \in 0..Len(model.entries) : Filled(n) => Filled(n)'
<1>1. \A g \in Names(model) : path'[g] = IF g = f THEN None ELSE path[g]
  BY DEF Types
<1>2. Range(model.downloads) \subseteq Names(model) /\ Range(model.entries) \subseteq Names(model)
      /\ model.checked \subseteq Range(model.downloads)
  BY StoreAssumption DEF Names, Types
<1>3. Apart'
  BY <1>1 DEF Disk, Apart, Names
<1>4. DestinationsAreWhole'
  BY <1>1, <1>2 DEF Disk, DestinationsAreWhole, Exists, Names
<1>5. Hashed'
  BY <1>1, <1>2 DEF Disk, Hashed, Exists, IsWhole, Names
<1>6. Barren => Barren'
  BY <1>1, <1>2 DEF Barren, Exists, Names
<1>7. ASSUME f \notin Range(model.entries), NEW n \in 0..Len(model.entries), Filled(n)
      PROVE  Filled(n)'
  <2> SUFFICES ASSUME NEW j \in 1..n PROVE IsWhole(model.entries[j])'
    BY DEF Filled
  <2>1. j \in 1..Len(model.entries)
    BY EndsAPlace DEF Types
  <2>2. model.entries[j] \in Names(model) /\ model.entries[j] # f
    BY <1>7, <2>1, EntryIsAName DEF Types
  <2>3. IsWhole(model.entries[j])
    BY <1>7 DEF Filled
  <2> QED BY <1>1, <2>2, <2>3 DEF IsWhole, Exists
<1> QED BY <1>3, <1>4, <1>5, <1>6, <1>7 DEF Disk

LEMMA TempRemoved ==
  ASSUME Types, Disk, NEW f \in Names(model),
         temp' \in {temp, [temp EXCEPT ![f] = None]},
         UNCHANGED <<model, path, data, unchecked>>
  PROVE  Disk' /\ (Barren => Barren')
<1>1. \A g \in Names(model) : temp'[g] \in {None, temp[g]}
  BY DEF Types
<1>2. Apart'
  BY <1>1 DEF Disk, Apart, Names
<1> QED
  BY <1>2 DEF Disk, DestinationsAreWhole, Hashed, Barren, Exists, IsWhole, Names

LEMMA DeleteOldKeeps ==
  ASSUME Types, Places, Sole, NEW c \in Flows, DeleteOld(c)
  PROVE  Sole'
<1>1. Wanted(c) \in Names(model)
  BY WantedIsAName DEF DeleteOld, DownloadSteps
<1>2. Disk' /\ (Barren => Barren')
  BY <1>1, PathRemoved DEF DeleteOld, history, Sole
<1>3. pc'[c] = "move" /\ Wanted(c)' = Wanted(c)
  BY DEF DeleteOld, Goto, Types, Wanted
<1>4. Downloads(c)'
  BY <1>2, <1>3 DEF Sole, Downloads, DeleteOld, DownloadSteps
<1>5. Unpacks(c)'
  BY <1>3 DEF Unpacks
<1> QED BY <1>2, <1>4, <1>5, SoleStep DEF Sole, DeleteOld, Steps, DownloadSteps

LEMMA DeleteArchiveKeeps ==
  ASSUME Types, Places, Sole, NEW c \in Flows, DeleteArchive(c)
  PROVE  Sole'
<1>1. Archive \in Names(model) /\ Archive \notin Range(model.entries)
  BY ArchiveIsAName DEF DeleteArchive, Places, Types
<1>2. /\ Disk' /\ (Barren => Barren')
      /\ \A n \in 0..Len(model.entries) : Filled(n) => Filled(n)'
  BY <1>1, PathRemoved DEF DeleteArchive, history, Sole
<1>3. pc'[c] = "idle"
  BY DEF DeleteArchive, Goto, Types
<1>4. Downloads(c)' /\ Unpacks(c)'
  BY <1>3 DEF Downloads, Unpacks, DownloadSteps
<1>5. UnpackedAreWhole \/ Barren
  <2>1. \A d \in Flows : pc[d] \in {"idle", "deleteArchive"}
    BY DEF Sole, Alone, DeleteArchive
  <2> QED BY <2>1 DEF Sole, AtRest
<1>6. (UnpackedAreWhole \/ Barren)'
  <2>1. stopped - 1 \in 0..Len(model.entries) /\ stopped' = stopped
    BY EndsAPlace DEF Types, DeleteArchive, history
  <2>2. Filled(stopped - 1) => Filled(stopped - 1)'
    BY <1>2, <2>1 DEF Filled, DeleteArchive
  <2> QED BY <1>2, <1>5, <2>2 DEF UnpackedAreWhole, Filled
<1> QED BY <1>2, <1>4, <1>6, SoleStep DEF Sole, DeleteArchive, Steps

LEMMA VerifyKeeps ==
  ASSUME Types, Places, Sole, NEW c \in Flows, Verify(c)
  PROVE  Sole'
<1>1. Wanted(c) \in Names(model) /\ Barren
  BY WantedIsAName DEF Verify, Sole, Downloads, DownloadSteps
<1>2. Disk' /\ Barren'
  <2>1. CASE Wanted(c) \in model.checked /\ ~IsWhole(Wanted(c))
    <3>1. /\ path' = [path EXCEPT ![Wanted(c)] = None]
          /\ UNCHANGED <<model, temp, data>>
          /\ unchecked' = unchecked \ {Wanted(c)}
      BY <2>1 DEF Verify
    <3> HIDE DEF Wanted
    <3> QED BY <1>1, <3>1, PathRemoved DEF Sole
  <2>2. CASE ~(Wanted(c) \in model.checked /\ ~IsWhole(Wanted(c)))
    <3>1. UNCHANGED <<model, path, temp, data>> /\ unchecked' = unchecked \ {Wanted(c)}
      BY <2>2 DEF Verify
    <3> QED
      BY <1>1, <2>2, <3>1
         DEF Sole, Disk, Apart, DestinationsAreWhole, Hashed, Barren, Exists, IsWhole, Names
  <2> QED BY <2>1, <2>2
<1>3. PICK l \in {"download", "idle"} : Goto(c, l)
  BY DEF Verify
<1>4. pc'[c] = l
  BY <1>3 DEF Goto, Types
<1>5. Downloads(c)' /\ Unpacks(c)'
  BY <1>2, <1>4 DEF Downloads, Unpacks
<1> QED BY <1>2, <1>3, <1>5, SoleStep DEF Sole, Verify, Steps, DownloadSteps

LEMMA DownloadFailsKeeps ==
  ASSUME Types, Places, Sole, NEW c \in Flows, DownloadFails(c)
  PROVE  Sole'
<1>1. Wanted(c) \in Names(model) /\ Barren
  BY WantedIsAName DEF DownloadFails, Sole, Downloads, DownloadSteps
<1>2. Disk' /\ Barren'
  <2>1. temp' \in {temp, [temp EXCEPT ![Wanted(c)] = None]}
    BY DEF DownloadFails
  <2> QED BY <1>1, <2>1, TempRemoved DEF DownloadFails, history, Sole
<1>3. pc'[c] = "idle"
  BY DEF DownloadFails, Goto, Types
<1>4. Downloads(c)' /\ Unpacks(c)'
  BY <1>3 DEF Downloads, Unpacks, DownloadSteps
<1> QED BY <1>2, <1>4, SoleStep DEF Sole, DownloadFails, Steps

-----------------------------------------------------------------------------
(* The first step.                                                         *)

LEMMA ProvisionKeeps ==
  ASSUME Types, ~overlapped => Sole, NEW c \in Flows, Provision(c), ~overlapped'
  PROVE  Sole'
<1>1. ~overlapped /\ Sole /\ \A d \in Flows : pc[d] = "idle"
  BY DEF Provision
<1>2. /\ Range(model.downloads) \subseteq Names(model) /\ Range(model.entries) \subseteq Names(model)
      /\ model.checked \subseteq Range(model.downloads)
      /\ model.way \notin {"zipped", "bundled"} => model.entries = <<>>
  BY StoreAssumption DEF Names, Types
<1>3. CASE model.way \in {"zipped", "sized"}
  <2>1. /\ \A g \in Names(model) : path'[g] = None
        /\ UNCHANGED <<model, temp, data>> /\ unchecked' = unchecked \ Names(model)
    BY <1>3 DEF Provision, Discarded
  <2>2. Disk'
    BY <1>1, <1>2, <2>1
       DEF Sole, Disk, Apart, DestinationsAreWhole, Hashed, Exists, IsWhole, Names
  <2>3. Barren'
    BY <1>2, <2>1 DEF Barren, Exists, Names
  <2>4. Goto(c, "download") /\ pc'[c] = "download"
    BY <1>3 DEF Provision, Goto, Types
  <2>5. Downloads(c)' /\ Unpacks(c)'
    BY <2>3, <2>4 DEF Downloads, Unpacks
  <2> QED BY <1>1, <2>2, <2>4, <2>5, OnlyStep DEF Steps, DownloadSteps
<1>4. CASE model.way \notin {"zipped", "sized"}
  <2>1. \A g \in Names(model) : path'[g] = path[g]
    BY <1>4 DEF Provision, Discarded
  <2>2. UNCHANGED <<model, temp, data, unchecked>>
    BY <1>4 DEF Provision, Discarded
  <2>3. Disk'
    BY <1>1, <1>2, <2>1, <2>2
       DEF Sole, Disk, Apart, DestinationsAreWhole, Hashed, Exists, IsWhole, Names
  <2>4. PICK l \in {"download", "unpack"} :
          Goto(c, l) /\ l = IF model.way = "bundled" THEN "unpack" ELSE "download"
    BY DEF Provision
  <2>5. pc'[c] = l /\ at'[c] = 1
    BY <2>4 DEF Provision, Goto, Types
  <2>6. model.way # "bundled" => Barren'
    <3>1. model.entries = <<>> => Range(model.entries) = {}
      BY DEF Range
    <3> QED BY <1>2, <1>4, <2>2, <3>1 DEF Barren
  <2>7. Downloads(c)' /\ Unpacks(c)'
    BY <2>4, <2>5, <2>6 DEF Downloads, Unpacks, DownloadSteps, Filled
  <2> QED BY <1>1, <2>3, <2>4, <2>7, OnlyStep DEF Steps, DownloadSteps, UnpackSteps
<1> QED BY <1>3, <1>4

-----------------------------------------------------------------------------
(* Steps that write under a temporary name.                                *)

\* File o is, or becomes, the one under the temporary name f only.
LEMMA TempWritten ==
  ASSUME Types, Types', Disk, NEW f \in Names(model), NEW o \in Files, o # None,
         \A g \in Names(model) : path[g] # o,
         \A g \in Names(model) : temp[g] = o => g = f,
         temp' = [temp EXCEPT ![f] = o],
         \A i \in Files : i # o => data'[i] = data[i],
         UNCHANGED <<model, path, unchecked>>
  PROVE  /\ Disk'
         /\ Barren => Barren'
<1>1. \A g \in Names(model) : temp'[g] = IF g = f THEN o ELSE temp[g]
  BY DEF Types
<1>2. \A g \in Names(model) : path[g] # None => data'[path[g]] = data[path[g]]
  BY DEF Types
<1>3. Range(model.downloads) \subseteq Names(model) /\ Range(model.entries) \subseteq Names(model)
      /\ model.checked \subseteq Range(model.downloads)
  BY StoreAssumption DEF Names, Types
<1>4. Apart'
  BY <1>1 DEF Disk, Apart, Names
<1>5. DestinationsAreWhole'
  BY <1>2, <1>3 DEF Disk, DestinationsAreWhole, Exists, Names
<1>6. Hashed'
  BY <1>2, <1>3 DEF Disk, Hashed, Exists, IsWhole, Names
<1>7. Barren => Barren'
  BY DEF Barren, Exists
<1> QED BY <1>4, <1>5, <1>6, <1>7 DEF Disk

LEMMA ConnectKeeps ==
  ASSUME Types, Places, Types', Sole, NEW c \in Flows, Connect(c)
  PROVE  Sole'
<1> DEFINE f == Wanted(c)
           o == Opened(temp, f)
<1>1. f \in Names(model) /\ OpenedFor(temp, f, o) /\ Barren
  BY WantedIsAName, TempOpened DEF Connect, Sole, Downloads, DownloadSteps
<1>2. /\ out' = [out EXCEPT ![c] = o] /\ data' = [data EXCEPT ![o] = Empty]
      /\ temp' = [temp EXCEPT ![f] = o] /\ Goto(c, "first")
      /\ UNCHANGED <<model, path, unchecked, at>>
  BY DEF Connect, Open, history
<1>3. f' = f
  BY <1>2 DEF Wanted
<1> HIDE DEF f, o
<1>4. Apart
  BY DEF Sole, Disk
<1>5. /\ \A g \in Names(model) : path[g] # o
      /\ \A g \in Names(model) : temp[g] = o => g = f
  BY <1>1, <1>4 DEF Apart, OpenedFor
<1>6. o \in Files /\ o # None
  BY <1>1 DEF OpenedFor
<1>7. Disk' /\ Barren'
  <2>1. \A i \in Files : i # o => data'[i] = data[i]
    BY <1>2 DEF Types
  <2> QED BY <1>1, <1>2, <1>5, <1>6, <2>1, TempWritten DEF Sole
<1>8. /\ pc'[c] = "first" /\ out'[c] = o /\ temp'[f] = o /\ data'[o] = Empty
  BY <1>1, <1>2, <1>6 DEF Goto, Types
<1>9. Downloads(c)' /\ Unpacks(c)'
  BY <1>3, <1>6, <1>7, <1>8 DEF Downloads, Unpacks, f
<1> QED BY <1>2, <1>7, <1>9, SoleStep DEF Sole, Connect, Steps, DownloadSteps

\* A stream of a download writes to the file under the temporary name.
LEMMA WriteOnDisk ==
  ASSUME Types, Places, Types', Sole, NEW c \in Flows, pc[c] \in {"first", "second"},
         NEW block \in {1, 2}, NEW next, Write(c, block, next)
  PROVE  /\ Disk' /\ Barren'
         /\ out[c] \in Files /\ out[c] = temp[Wanted(c)]
         /\ data' = [data EXCEPT ![out[c]] =
                       IF answer[c][block] = "-" THEN @ ELSE [@ EXCEPT ![block] = answer[c][block]]]
<1> DEFINE f == Wanted(c)
           o == out[c]
<1>1. f \in Names(model) /\ Barren /\ o # None /\ o = temp[f]
  BY WantedIsAName DEF Sole, Downloads, DownloadSteps
<1>2. o \in Files /\ Apart
  BY <1>1 DEF Types, Sole, Disk
<1>3. data' = [data EXCEPT ![o] = IF answer[c][block] = "-" THEN @
                                  ELSE [@ EXCEPT ![block] = answer[c][block]]]
  BY <1>2 DEF Write, Types
<1> HIDE DEF f, o
<1>4. /\ \A g \in Names(model) : path[g] # o
      /\ \A g \in Names(model) : temp[g] = o => g = f
  BY <1>1, <1>2 DEF Apart
<1>5. temp' = [temp EXCEPT ![f] = o] /\ UNCHANGED <<model, path, unchecked>>
  BY <1>1 DEF Write, Types, history
<1>6. \A i \in Files : i # o => data'[i] = data[i]
  BY <1>3 DEF Types
<1>7. Disk' /\ Barren'
  BY <1>1, <1>2, <1>4, <1>5, <1>6, TempWritten DEF Sole
<1> QED BY <1>1, <1>2, <1>3, <1>7 DEF f, o

LEMMA WriteFirstKeeps ==
  ASSUME Types, Places, Types', Sole, NEW c \in Flows, WriteFirst(c)
  PROVE  Sole'
<1>1. pc[c] = "first" /\ Write(c, 1, "second") /\ out' = out
  BY DEF WriteFirst
<1>2. /\ Disk' /\ Barren' /\ out[c] \in Files /\ out[c] = temp[Wanted(c)]
      /\ data' = [data EXCEPT ![out[c]] =
                    IF answer[c][1] = "-" THEN @ ELSE [@ EXCEPT ![1] = answer[c][1]]]
  BY <1>1, WriteOnDisk
<1>3. Goto(c, "second") /\ UNCHANGED <<model, temp, at, answer>>
  BY <1>1 DEF Write
<1>4. pc'[c] = "second" /\ Wanted(c)' = Wanted(c)
  BY <1>3 DEF Goto, Types, Wanted
<1>5. data[out[c]] = <<"-", "-">>
  BY <1>1 DEF Sole, Downloads, Empty
<1>6. data'[out[c]] = <<answer[c][1], "-">>
  BY <1>2, <1>5 DEF Types
<1>7. out[c] # None
  BY <1>1 DEF Sole, Downloads
<1>8. Downloads(c)' /\ Unpacks(c)'
  BY <1>1, <1>2, <1>3, <1>4, <1>6, <1>7 DEF Downloads, Unpacks
<1> QED BY <1>1, <1>2, <1>3, <1>8, SoleStep DEF Sole, Steps, DownloadSteps

LEMMA WriteSecondKeeps ==
  ASSUME Types, Places, Types', Sole, NEW c \in Flows, WriteSecond(c)
  PROVE  Sole'
<1>1. pc[c] = "second" /\ Write(c, 2, "rename")
  BY DEF WriteSecond
<1>2. /\ Disk' /\ Barren' /\ out[c] \in Files /\ out[c] = temp[Wanted(c)]
      /\ data' = [data EXCEPT ![out[c]] =
                    IF answer[c][2] = "-" THEN @ ELSE [@ EXCEPT ![2] = answer[c][2]]]
  BY <1>1, WriteOnDisk
<1>3. Goto(c, "rename") /\ UNCHANGED <<model, temp, at, answer>>
  BY <1>1 DEF Write
<1>4. pc'[c] = "rename" /\ Wanted(c)' = Wanted(c)
  BY <1>3 DEF Goto, Types, Wanted
<1>5. data[out[c]] = <<answer[c][1], "-">>
  BY <1>1 DEF Sole, Downloads
<1>6. data'[out[c]] = <<answer[c][1], answer[c][2]>>
  BY <1>2, <1>5 DEF Types
<1>7. <<answer[c][1], answer[c][2]>> \in Answers
  BY DEF Types, Answers
<1>8. out[c] # None
  BY <1>1 DEF Sole, Downloads
<1>9. Downloads(c)' /\ Unpacks(c)'
  BY <1>2, <1>3, <1>4, <1>6, <1>7, <1>8 DEF Downloads, Unpacks
<1> QED BY <1>1, <1>2, <1>3, <1>9, SoleStep DEF Sole, Steps, DownloadSteps

\* A file that is given its final name holds all of an answer; what is new under
\* a name is not hashed yet.
LEMMA RenameKeeps ==
  ASSUME Types, Places, Sole, NEW c \in Flows, Rename(c)
  PROVE  Sole'
<1> DEFINE f == Wanted(c)
<1>1. /\ f \in Names(model) /\ f \notin Range(model.entries) /\ Barren
      /\ temp[f] # None /\ data[temp[f]] \in Answers
  BY WantedIsAName DEF Rename, Sole, Downloads, DownloadSteps
<1>2. /\ path' = [path EXCEPT ![f] = temp[f]] /\ temp' = [temp EXCEPT ![f] = None]
      /\ unchecked' = unchecked \cup {f} /\ UNCHANGED <<model, data>> /\ Goto(c, "renamed")
  BY DEF Rename
<1> HIDE DEF f
<1>3. /\ \A g \in Names(model) : path'[g] = IF g = f THEN temp[f] ELSE path[g]
      /\ \A g \in Names(model) : temp'[g] = IF g = f THEN None ELSE temp[g]
  BY <1>2 DEF Types
<1>4. Range(model.downloads) \subseteq Names(model) /\ Range(model.entries) \subseteq Names(model)
      /\ model.checked \subseteq Range(model.downloads)
  BY StoreAssumption DEF Names, Types
<1>5. Apart /\ DestinationsAreWhole /\ Hashed
  BY DEF Sole, Disk
<1>6. Apart'
  <2>1. \A g, h \in Names(model) : path'[g] = path'[h] /\ path'[g] # None => g = h
    BY <1>1, <1>3, <1>5 DEF Apart
  <2>2. \A g, h \in Names(model) : temp'[g] = temp'[h] /\ temp'[g] # None => g = h
    BY <1>1, <1>3, <1>5 DEF Apart
  <2>3. \A g, h \in Names(model) : path'[g] = temp'[h] => path'[g] = None
    BY <1>1, <1>3, <1>5 DEF Apart
  <2> QED BY <1>2, <2>1, <2>2, <2>3 DEF Apart
<1>7. DestinationsAreWhole'
  BY <1>1, <1>2, <1>3, <1>4, <1>5 DEF DestinationsAreWhole, Exists
<1>8. Hashed'
  BY <1>2, <1>3, <1>4, <1>5 DEF Hashed, Exists, IsWhole
<1>9. Barren'
  BY <1>1, <1>2, <1>3, <1>4 DEF Barren, Exists
<1>10. pc'[c] = "renamed"
  BY <1>2 DEF Goto, Types
<1>11. Downloads(c)' /\ Unpacks(c)'
  BY <1>9, <1>10 DEF Downloads, Unpacks
<1> QED
  BY <1>2, <1>6, <1>7, <1>8, <1>11, SoleStep DEF Sole, Disk, Rename, Steps, DownloadSteps

-----------------------------------------------------------------------------
(* Steps that unpack.                                                      *)

\* The step leaves all of file g under its name.
LeftWhole(g) == path'[g] # None /\ data'[path'[g]] = Whole

\* File o is, or becomes, the one under the name of entry f only.
LEMMA EntryWritten ==
  ASSUME Types, Types', Disk, NEW f \in Range(model.entries), NEW o \in Files, o # None,
         \A g \in Names(model) : temp[g] # o,
         \A g \in Names(model) : path[g] = o => g = f,
         path' = [path EXCEPT ![f] = o],
         \A i \in Files : i # o => data'[i] = data[i],
         UNCHANGED <<model, temp, unchecked>>
  PROVE  /\ Disk'
         /\ \A g \in Names(model) \ {f} : IsWhole(g) => LeftWhole(g)
<1>1. \A g \in Names(model) : path'[g] = IF g = f THEN o ELSE path[g]
  BY DEF Types
<1>2. \A g \in Names(model) : g # f /\ path[g] # None => data'[path[g]] = data[path[g]]
  BY DEF Types
<1>3. /\ Range(model.downloads) \subseteq Names(model) \ {f}
      /\ model.checked \subseteq Range(model.downloads)
  BY StoreAssumption DEF Names, Types
<1>4. Apart'
  <2>1. Apart
    BY DEF Disk
  <2>2. \A g, h \in Names(model) : path'[g] = path'[h] /\ path'[g] # None => g = h
    BY <1>1, <2>1 DEF Apart
  <2>3. \A g, h \in Names(model) : path'[g] = temp'[h] => path'[g] = None
    BY <1>1, <2>1 DEF Apart
  <2> QED BY <2>1, <2>2, <2>3 DEF Apart
<1>5. DestinationsAreWhole'
  BY <1>1, <1>2, <1>3 DEF Disk, DestinationsAreWhole, Exists
<1>6. Hashed'
  BY <1>1, <1>2, <1>3 DEF Disk, Hashed, Exists, IsWhole
<1>7. \A g \in Names(model) \ {f} : IsWhole(g) => LeftWhole(g)
  BY <1>1, <1>2 DEF Exists, IsWhole, LeftWhole
<1> QED BY <1>4, <1>5, <1>6, <1>7 DEF Disk

\* The entries before the one that is opened stay whole, unless it is one of them.
LEMMA OpenEntryKeeps ==
  ASSUME Types, Places, Types', Sole, NEW c \in Flows, OpenEntry(c)
  PROVE  Sole'
<1> DEFINE f == Entry(c)
           o == Opened(path, f)
<1>1. at[c] \in 1..Len(model.entries) /\ Len(model.entries) \in Nat
  <2>1. Len(model.entries) \in Nat
    BY StoreAssumption DEF Types
  <2> QED BY <2>1 DEF Types, OpenEntry
<1>2. f \in Range(model.entries) /\ f \in Names(model) /\ model \in Models
  BY <1>1, EntryIsAName DEF Entry, Types
<1>3. OpenedFor(path, f, o)
  BY <1>2, PathOpened
<1>4. /\ out' = [out EXCEPT ![c] = o] /\ data' = [data EXCEPT ![o] = Empty]
      /\ path' = [path EXCEPT ![f] = o] /\ Goto(c, "write")
      /\ UNCHANGED <<model, temp, unchecked, at>>
  BY DEF OpenEntry, Open, history
<1>5. f' = f
  BY <1>4 DEF Entry
<1>6. Filled(at[c] - 1) /\ Apart
  BY DEF OpenEntry, Sole, Unpacks, Disk
<1> HIDE DEF f, o
<1>7. /\ \A g \in Names(model) : temp[g] # o
      /\ \A g \in Names(model) : path[g] = o => g = f
  BY <1>2, <1>3, <1>6 DEF Apart, OpenedFor
<1>8. o \in Files /\ o # None
  BY <1>3 DEF OpenedFor
<1>9. Disk' /\ \A g \in Names(model) \ {f} : IsWhole(g) => LeftWhole(g)
  <2>1. \A i \in Files : i # o => data'[i] = data[i]
    BY <1>4 DEF Types
  <2> QED BY <1>2, <1>4, <1>7, <1>8, <2>1, EntryWritten DEF Sole
<1>10. pc'[c] = "write" /\ out'[c] = o /\ path'[f] = o
  BY <1>2, <1>4 DEF Goto, Types
<1>11. \A j \in 1..(at[c] - 1) : LeftWhole(model.entries[j])
  <2> SUFFICES ASSUME NEW j \in 1..(at[c] - 1)
               PROVE  LeftWhole(model.entries[j])
    OBVIOUS
  <2>1. j \in 1..Len(model.entries) /\ j # at[c]
    BY <1>1
  <2>2. model.entries[j] # f
    BY <1>1, <1>2, <2>1, NamesDiffer DEF f, Entry
  <2>3. model.entries[j] \in Names(model) \ {f} /\ IsWhole(model.entries[j])
    BY <1>2, <1>6, <2>1, <2>2, EntryIsAName DEF Filled
  <2> QED BY <1>9, <2>3
<1>12. Filled(at[c] - 1)'
  BY <1>4, <1>11 DEF Filled, LeftWhole, IsWhole, Exists
<1>13. Downloads(c)' /\ Unpacks(c)'
  BY <1>4, <1>5, <1>8, <1>10, <1>12 DEF Downloads, Unpacks, DownloadSteps, f
<1> QED
  BY <1>4, <1>9, <1>13, SoleStep DEF Sole, OpenEntry, Steps, UnpackSteps

LEMMA WriteEntryKeeps ==
  ASSUME Types, Places, Types', Sole, NEW c \in Flows, WriteEntry(c)
  PROVE  Sole'
<1> DEFINE f == Entry(c)
           o == out[c]
<1>1. at[c] \in 1..Len(model.entries) /\ Len(model.entries) \in Nat
  <2>1. Len(model.entries) \in Nat
    BY StoreAssumption DEF Types
  <2> QED BY <2>1 DEF Types, Places, WriteEntry
<1>2. f \in Range(model.entries) /\ f \in Names(model) /\ model \in Models
  BY <1>1, EntryIsAName DEF Entry, Types
<1>3. o \in Files /\ o # None /\ o = path[f] /\ Apart
  BY DEF WriteEntry, Sole, Unpacks, Disk, Types
<1>4. Filled(at[c] - 1)
  BY DEF WriteEntry, Sole, Unpacks
<1>5. /\ data' = [data EXCEPT ![o] = Whole] /\ at' = [at EXCEPT ![c] = at[c] + 1]
      /\ Goto(c, "unpack") /\ UNCHANGED <<model, path, temp, unchecked>>
  BY DEF WriteEntry, history
<1>6. f = model.entries[at[c]]
  BY DEF Entry
<1> HIDE DEF f, o
<1>7. /\ \A g \in Names(model) : temp[g] # o
      /\ \A g \in Names(model) : path[g] = o => g = f
      /\ path' = [path EXCEPT ![f] = o]
  BY <1>2, <1>3, <1>5 DEF Apart, Types
<1>8. Disk' /\ \A g \in Names(model) \ {f} : IsWhole(g) => LeftWhole(g)
  <2>1. \A i \in Files : i # o => data'[i] = data[i]
    BY <1>5 DEF Types
  <2> QED BY <1>2, <1>3, <1>5, <1>7, <2>1, EntryWritten DEF Sole
<1>9. LeftWhole(f)
  <2>1. path'[f] = o /\ data'[o] = Whole
    BY <1>2, <1>3, <1>5 DEF Types
  <2> QED BY <1>3, <2>1 DEF LeftWhole
<1>10. pc'[c] = "unpack" /\ at'[c] = at[c] + 1
  BY <1>5 DEF Goto, Types
<1>11. \A j \in 1..at[c] : LeftWhole(model.entries[j])
  <2> SUFFICES ASSUME NEW j \in 1..at[c], model.entries[j] # f
               PROVE  LeftWhole(model.entries[j])
    BY <1>9
  <2>1. j \in 1..Len(model.entries) /\ j \in 1..(at[c] - 1)
    BY <1>1, <1>6
  <2>2. model.entries[j] \in Names(model) \ {f} /\ IsWhole(model.entries[j])
    BY <1>2, <1>4, <2>1, EntryIsAName DEF Filled
  <2> QED BY <1>8, <2>2
<1>12. Filled(at[c] - 1)' /\ at'[c] - 1 = at[c]
  BY <1>1, <1>5, <1>10, <1>11 DEF Filled, LeftWhole, IsWhole, Exists
<1>13. Downloads(c)' /\ Unpacks(c)'
  BY <1>10, <1>12 DEF Downloads, Unpacks, DownloadSteps
<1> QED
  BY <1>5, <1>8, <1>13, SoleStep DEF Sole, WriteEntry, Steps, UnpackSteps

-----------------------------------------------------------------------------
(* The process ends, at any step of a flow.                                *)

LEMMA DieKeeps ==
  ASSUME Types, Sole, Die
  PROVE  Sole'
<1>1. \A d \in Flows : pc'[d] = "idle"
  BY DEF Die
<1>2. UNCHANGED <<model, disk, unchecked>>
  BY DEF Die
<1>3. Disk' /\ (Barren => Barren') /\ (Filled(stopped' - 1) => UnpackedAreWhole')
  BY <1>2, SameDevice DEF Sole, Filled, UnpackedAreWhole, IsWhole, Exists, disk
<1>4. Filled(stopped' - 1) \/ Barren
  <2>1. CASE \E d \in Flows : pc[d] \in UnpackSteps
    <3>1. PICK d \in Flows : pc[d] \in {"unpack", "write"} /\ stopped' = at[d]
      BY <2>1 DEF Die, UnpackSteps
    <3> QED BY <3>1 DEF Sole, Unpacks
  <2>2. CASE \E d \in Flows : pc[d] \in DownloadSteps
    BY <2>2 DEF Sole, Downloads
  <2>3. CASE \A d \in Flows : pc[d] \in {"idle", "deleteArchive"}
    <3>1. stopped' = stopped
      BY <2>3 DEF Die
    <3> QED BY <2>3, <3>1 DEF Sole, AtRest, UnpackedAreWhole, Filled
  <2> QED BY <2>1, <2>2, <2>3 DEF Types, Steps
<1>5. AtRest'
  BY <1>3, <1>4 DEF AtRest
<1>6. Alone' /\ \A d \in Flows : (Downloads(d) /\ Unpacks(d))'
  BY <1>1 DEF Alone, Downloads, Unpacks, DownloadSteps
<1> QED BY <1>3, <1>5, <1>6 DEF Sole

-----------------------------------------------------------------------------
(* The order of the files with a hash.                                     *)

LEMMA DownloadIsAName ==
  ASSUME model \in Models, NEW j \in 1..Len(model.downloads)
  PROVE  model.downloads[j] \in Range(model.downloads) /\ model.downloads[j] \in Names(model)
<1>1. model.downloads \in Seq(Range(model.downloads))
  BY StoreAssumption
<1> QED BY <1>1 DEF Names

\* A step of the one flow that runs, by what it leaves under the names.
LEMMA OrderStep ==
  ASSUME Types, NEW c \in Flows, \A d \in Flows : d # c => pc[d] = "idle",
         NEW l, Goto(c, l), BehindSure', Passed(c)'
  PROVE  InOrder'
<1> SUFFICES ASSUME NEW d \in Flows, d # c PROVE Passed(d)'
  BY DEF InOrder
<1>1. pc'[d] = "idle"
  BY DEF Types, Goto
<1> QED BY <1>1 DEF Passed, DownloadSteps

\* The final names stay, and what they lead to when it is whole.
LEMMA NamesKept ==
  ASSUME Types, Places, Sole, InOrder, NEW c \in Flows, pc[c] # "idle", NEW l, Goto(c, l),
         UNCHANGED <<model, path, at, unchecked>>,
         \A f \in Names(model) : IsWhole(f) => IsWhole(f)',
         l \in DownloadSteps => pc[c] \in DownloadSteps,
         l \in {"first", "second", "rename", "move"} =>
           pc[c] \in {"first", "second", "rename", "move"} \/ ~HasBytes(Wanted(c))
  PROVE  InOrder'
<1>1. \A d \in Flows : d # c => pc[d] = "idle"
  BY DEF Sole, Alone
<1>2. \A j \in 1..Len(model.downloads) :
        /\ Sure(model.downloads[j]) => Sure(model.downloads[j])'
        /\ Exists(model.downloads[j]) <=> Exists(model.downloads[j])'
  BY DownloadIsAName DEF Types, Sure, Exists
<1>3. BehindSure'
  BY <1>2 DEF InOrder, BehindSure
<1>4. pc'[c] = l /\ Wanted(c)' = Wanted(c)
  BY DEF Goto, Types, Wanted
<1>5. ASSUME l \in DownloadSteps, NEW i \in 1..(at[c] - 1), model.downloads[i] \in model.checked
      PROVE  Sure(model.downloads[i])'
  <2>1. i \in 1..Len(model.downloads)
    <3>1. at[c] \in Nat /\ at[c] <= Len(model.downloads) /\ Len(model.downloads) \in Nat
      BY <1>5, StoreAssumption DEF Types, Places
    <3> QED BY <3>1
  <2> QED BY <1>2, <1>5, <2>1 DEF InOrder, Passed
<1>6. ASSUME l \in {"first", "second", "rename", "move"}, Wanted(c) \in model.checked,
             NEW j \in (at[c] + 1)..Len(model.downloads), Exists(model.downloads[j])
      PROVE  FALSE
  <2>1. CASE pc[c] \in {"first", "second", "rename", "move"}
    BY <1>6, <2>1 DEF InOrder, Passed
  <2>2. CASE ~HasBytes(Wanted(c))
    <3>1. at[c] \in 1..Len(model.downloads) /\ j \in 1..Len(model.downloads) /\ at[c] < j
      <4>1. at[c] \in Nat \ {0} /\ Len(model.downloads) \in Nat
        BY StoreAssumption DEF Types
      <4> QED BY <4>1
    <3>2. Sure(Wanted(c))
      BY <1>6, <3>1 DEF InOrder, BehindSure, Wanted
    <3> QED BY <2>2, <3>2 DEF Sure, IsWhole, HasBytes, Whole, Empty
  <2> QED BY <1>6, <2>1, <2>2
<1>7. \A j \in (at[c] + 1)..Len(model.downloads) :
        Exists(model.downloads[j])' => Exists(model.downloads[j])
  BY DEF Exists
<1>8. Passed(c)'
  BY <1>4, <1>5, <1>6, <1>7 DEF Passed
<1> QED BY <1>1, <1>3, <1>8, OrderStep

\* A download is written to a file that is under no final name.
LEMMA WholeWhileDownloading ==
  ASSUME Types, Places, Sole, NEW c \in Flows, Connect(c) \/ WriteFirst(c) \/ WriteSecond(c)
  PROVE  \A f \in Names(model) : IsWhole(f) => IsWhole(f)'
<1>1. Apart
  BY DEF Sole, Disk
<1>2. Wanted(c) \in Names(model)
  BY WantedIsAName DEF Connect, WriteFirst, WriteSecond, DownloadSteps
<1>3. PICK o : /\ \A f \in Names(model) : path[f] # o
               /\ \A i \in Files : i # o => data'[i] = data[i]
  <2>1. CASE Connect(c)
    <3> DEFINE o == Opened(temp, Wanted(c))
    <3>1. OpenedFor(temp, Wanted(c), o)
      BY <1>2, TempOpened
    <3>2. data' = [data EXCEPT ![o] = Empty]
      BY <2>1 DEF Connect, Open
    <3> HIDE DEF o
    <3>3. \A f \in Names(model) : path[f] # o
      BY <1>1, <1>2, <3>1 DEF OpenedFor, Apart
    <3>4. \A i \in Files : i # o => data'[i] = data[i]
      BY <3>2 DEF Types
    <3> QED BY <3>3, <3>4
  <2>2. CASE WriteFirst(c) \/ WriteSecond(c)
    <3>1. out[c] # None /\ out[c] = temp[Wanted(c)]
      BY <2>2 DEF WriteFirst, WriteSecond, Sole, Downloads
    <3>2. \A f \in Names(model) : path[f] # out[c]
      BY <1>1, <1>2, <3>1 DEF Apart
    <3>3. \A i \in Files : i # out[c] => data'[i] = data[i]
      BY <2>2 DEF WriteFirst, WriteSecond, Write, Types
    <3> QED BY <3>2, <3>3
  <2> QED BY <2>1, <2>2
<1>4. UNCHANGED path
  BY DEF Connect, WriteFirst, WriteSecond, Write
<1> QED BY <1>3, <1>4 DEF IsWhole, Exists, Types

\* The steps that leave the final names as they are.
LEMMA OrderWhileNamesStay ==
  ASSUME Types, Places, Sole, InOrder, NEW c \in Flows,
         \/ AlreadyThere(c) \/ Connect(c) \/ WriteFirst(c) \/ WriteSecond(c)
         \/ RenameFails(c) \/ EmitLast(c) \/ Finish(c) \/ DownloadFails(c)
  PROVE  InOrder'
<1> USE DEF DownloadSteps
<1>1. CASE Connect(c)
  <2>1. Goto(c, "first") /\ UNCHANGED <<model, path, at, unchecked>>
        /\ pc[c] = "download" /\ ~HasBytes(Wanted(c))
    BY <1>1 DEF Connect, history
  <2> QED BY <1>1, <2>1, WholeWhileDownloading, NamesKept
<1>2. CASE WriteFirst(c)
  <2>1. Goto(c, "second") /\ UNCHANGED <<model, path, at, unchecked>> /\ pc[c] = "first"
    BY <1>2 DEF WriteFirst, Write, history
  <2> QED BY <1>2, <2>1, WholeWhileDownloading, NamesKept
<1>3. CASE WriteSecond(c)
  <2>1. Goto(c, "rename") /\ UNCHANGED <<model, path, at, unchecked>> /\ pc[c] = "second"
    BY <1>3 DEF WriteSecond, Write, history
  <2> QED BY <1>3, <2>1, WholeWhileDownloading, NamesKept
<1>4. CASE AlreadyThere(c) \/ RenameFails(c) \/ EmitLast(c) \/ Finish(c) \/ DownloadFails(c)
  <2>1. PICK l \in {"downloaded", "renamed", "idle"} : Goto(c, l)
    BY <1>4 DEF AlreadyThere, RenameFails, EmitLast, Finish, DownloadFails
  <2>2. UNCHANGED <<model, path, data, at, unchecked>> /\ pc[c] \in DownloadSteps
    BY <1>4 DEF AlreadyThere, RenameFails, EmitLast, Finish, DownloadFails, history, disk
  <2>3. \A f \in Names(model) : IsWhole(f) => IsWhole(f)'
    BY <2>2 DEF IsWhole, Exists
  <2> QED BY <2>1, <2>2, <2>3, NamesKept
<1> QED BY <1>1, <1>2, <1>3, <1>4

\* A step on the name of the file that is downloaded leaves the other ones.
LEMMA OthersKept ==
  ASSUME Types, Places, NEW c \in Flows, pc[c] \in DownloadSteps,
         NEW o, path' \in {path, [path EXCEPT ![Wanted(c)] = o]}, UNCHANGED <<model, data>>,
         unchecked' \in {unchecked \cup {Wanted(c)}, unchecked \ {Wanted(c)}, unchecked}
  PROVE  \A j \in 1..Len(model.downloads) : j # at[c] =>
           /\ Sure(model.downloads[j]) => Sure(model.downloads[j])'
           /\ Exists(model.downloads[j]) <=> Exists(model.downloads[j])'
<1> SUFFICES ASSUME NEW j \in 1..Len(model.downloads), j # at[c]
             PROVE  /\ Sure(model.downloads[j]) => Sure(model.downloads[j])'
                    /\ Exists(model.downloads[j]) <=> Exists(model.downloads[j])'
  OBVIOUS
<1> DEFINE g == model.downloads[j]
           f == Wanted(c)
<1>1. at[c] \in 1..Len(model.downloads) /\ model \in Models
  <2>1. Len(model.downloads) \in Nat
    BY StoreAssumption DEF Types
  <2> QED BY <2>1 DEF Types, Places
<1>2. g # f
  BY <1>1, NamesDiffer DEF Wanted
<1>3. g \in Names(model) /\ g' = g
  BY <1>1, DownloadIsAName
<1> HIDE DEF g, f
<1>4. path'[g] = path[g] /\ (g \notin unchecked => g \notin unchecked')
  BY <1>2, <1>3 DEF Types, f
<1> QED BY <1>3, <1>4 DEF Sure, IsWhole, Exists, g

\* Before a file with a hash is renamed, no file behind it is there, and after it
\* the ones before it are as their hashes say.
LEMMA OrderWhileRenaming ==
  ASSUME Types, Places, Sole, InOrder, NEW c \in Flows, DeleteOld(c) \/ Rename(c)
  PROVE  InOrder'
<1> DEFINE n == Len(model.downloads)
<1>1. pc[c] \in {"rename", "move"} /\ pc[c] \in DownloadSteps /\ UNCHANGED <<model, data, at>>
  BY DEF DeleteOld, Rename, DownloadSteps
<1>2. PICK l \in {"move", "renamed"} : Goto(c, l)
  BY DEF DeleteOld, Rename
<1>3. /\ at[c] \in 1..n /\ n \in Nat
      /\ \A d \in Flows : d # c => pc[d] = "idle"
  <2>1. n \in Nat
    BY StoreAssumption DEF Types
  <2> QED BY <1>1, <2>1 DEF Types, Places, Sole, Alone
<1>4. \A j \in 1..n : j # at[c] =>
        /\ Sure(model.downloads[j]) => Sure(model.downloads[j])'
        /\ Exists(model.downloads[j]) <=> Exists(model.downloads[j])'
  <2>1. PICK o : path' = [path EXCEPT ![Wanted(c)] = o]
    BY DEF DeleteOld, Rename
  <2>2. unchecked' \in {unchecked \cup {Wanted(c)}, unchecked \ {Wanted(c)}, unchecked}
    BY DEF DeleteOld, Rename, history
  <2>3. path' \in {path, [path EXCEPT ![Wanted(c)] = o]}
    BY <2>1
  <2> QED BY <1>1, <2>2, <2>3, OthersKept
<1>5. /\ \A i \in 1..(at[c] - 1) : model.downloads[i] \in model.checked => Sure(model.downloads[i])
      /\ Wanted(c) \in model.checked => \A j \in (at[c] + 1)..n : ~Exists(model.downloads[j])
  BY <1>1 DEF InOrder, Passed
<1> HIDE DEF n
<1>6. ASSUME NEW i \in 1..n, NEW j \in 1..n, i < j, model.downloads[i] \in model.checked,
             Exists(model.downloads[j])'
      PROVE  Sure(model.downloads[i])'
  <2>1. CASE j = at[c]
    BY <1>3, <1>4, <1>5, <1>6, <2>1
  <2>2. CASE i = at[c]
    BY <1>3, <1>4, <1>5, <1>6, <2>2 DEF Wanted
  <2>3. CASE i # at[c] /\ j # at[c]
    BY <1>4, <1>6, <2>3 DEF InOrder, BehindSure, n
  <2> QED BY <2>1, <2>2, <2>3
<1>7. BehindSure'
  BY <1>1, <1>6 DEF BehindSure, n
<1>8. \A i \in 1..(at[c] - 1) : model.downloads[i] \in model.checked => Sure(model.downloads[i])'
  BY <1>3, <1>4, <1>5
<1>9. Wanted(c) \in model.checked => \A j \in (at[c] + 1)..n : ~Exists(model.downloads[j])'
  BY <1>3, <1>4, <1>5
<1>10. Wanted(c)' = Wanted(c)
  BY <1>1 DEF Wanted
<1>11. Passed(c)'
  BY <1>1, <1>8, <1>9, <1>10 DEF Passed, n
<1> QED BY <1>2, <1>3, <1>7, <1>11, OrderStep

\* A file that is not as its hash says has none behind it; one that is is passed.
LEMMA OrderWhileVerifying ==
  ASSUME Types, Places, Sole, InOrder, NEW c \in Flows, Verify(c)
  PROVE  InOrder'
<1> DEFINE n == Len(model.downloads)
<1>1. pc[c] = "downloaded" /\ pc[c] \in DownloadSteps /\ UNCHANGED <<model, data>>
      /\ unchecked' = unchecked \ {Wanted(c)}
  BY DEF Verify, DownloadSteps
<1>2. PICK l \in {"idle", "download"} : Goto(c, l)
  BY DEF Verify
<1>3. /\ at[c] \in 1..n /\ n \in Nat
      /\ \A d \in Flows : d # c => pc[d] = "idle"
  <2>1. n \in Nat
    BY StoreAssumption DEF Types
  <2> QED BY <1>1, <2>1 DEF Types, Places, Sole, Alone
<1>4. \A j \in 1..n : j # at[c] =>
        /\ Sure(model.downloads[j]) => Sure(model.downloads[j])'
        /\ Exists(model.downloads[j]) <=> Exists(model.downloads[j])'
  <2>1. path' \in {path, [path EXCEPT ![Wanted(c)] = None]}
    BY DEF Verify
  <2> QED BY <1>1, <2>1, OthersKept
<1>5. \A i \in 1..(at[c] - 1) : model.downloads[i] \in model.checked => Sure(model.downloads[i])
  BY <1>1 DEF InOrder, Passed
<1>6. pc'[c] = l
  BY <1>2 DEF Goto, Types
<1>7. CASE Wanted(c) \in model.checked /\ ~IsWhole(Wanted(c))
  <2>1. l = "idle"
    BY <1>2, <1>6, <1>7 DEF Verify, Goto, Types
  <2>2. \A j \in (at[c] + 1)..n : ~Exists(model.downloads[j])
    BY <1>3, <1>7 DEF InOrder, BehindSure, Wanted, Sure
  <2>3. ~Exists(Wanted(c))'
    <3>1. path' = [path EXCEPT ![Wanted(c)] = None] /\ UNCHANGED at
      BY <1>7 DEF Verify
    <3>2. Wanted(c) \in Names(model)
      BY <1>1, WantedIsAName
    <3> QED BY <1>1, <3>1, <3>2 DEF Exists, Types, Wanted
  <2>4. UNCHANGED at
    BY <1>7 DEF Verify
  <2> HIDE DEF n
  <2>5. ASSUME NEW i \in 1..n, NEW j \in 1..n, i < j, model.downloads[i] \in model.checked,
               Exists(model.downloads[j])'
        PROVE  Sure(model.downloads[i])'
    <3>1. j # at[c]
      BY <1>1, <2>3, <2>4, <2>5 DEF Wanted
    <3>2. j < at[c] /\ i # at[c] /\ Exists(model.downloads[j])
      BY <1>3, <1>4, <2>2, <2>5, <3>1
    <3> QED BY <1>4, <2>5, <3>2 DEF InOrder, BehindSure, n
  <2>6. BehindSure'
    BY <1>1, <2>5 DEF BehindSure, n
  <2>7. Passed(c)'
    BY <1>6, <2>1 DEF Passed, DownloadSteps
  <2> QED BY <1>2, <1>3, <2>6, <2>7, OrderStep
<1>8. CASE ~(Wanted(c) \in model.checked /\ ~IsWhole(Wanted(c)))
  <2>1. UNCHANGED path /\ at' = [at EXCEPT ![c] = @ + 1]
    BY <1>8 DEF Verify
  <2>2. at'[c] = at[c] + 1
    BY <2>1 DEF Types
  <2> PICK k \in 1..n : k = at[c]
    BY <1>3
  <2>3. Wanted(c) \in model.checked => Sure(model.downloads[k])'
    BY <1>1, <1>8, <2>1 DEF Sure, IsWhole, Exists, Wanted
  <2>4. \A j \in 1..n : Exists(model.downloads[j]) <=> Exists(model.downloads[j])'
    BY <1>1, <2>1 DEF Exists
  <2> HIDE DEF n
  <2>5. ASSUME NEW i \in 1..n, NEW j \in 1..n, i < j, model.downloads[i] \in model.checked,
               Exists(model.downloads[j])'
        PROVE  Sure(model.downloads[i])'
    <3>1. CASE i = at[c]
      BY <2>3, <2>5, <3>1 DEF Wanted
    <3>2. CASE i # at[c]
      BY <1>4, <2>4, <2>5, <3>2 DEF InOrder, BehindSure, n
    <3> QED BY <3>1, <3>2
  <2>6. BehindSure'
    BY <1>1, <2>5 DEF BehindSure, n
  <2>7. ASSUME NEW i \in 1..at[c], model.downloads[i] \in model.checked
        PROVE  Sure(model.downloads[i])'
    <3>1. CASE i = at[c]
      BY <2>3, <2>7, <3>1 DEF Wanted
    <3>2. CASE i # at[c]
      <4>1. i \in 1..(at[c] - 1) /\ i \in 1..n
        BY <1>3, <3>2
      <4> QED BY <1>4, <1>5, <2>7, <3>2, <4>1
    <3> QED BY <3>1, <3>2
  <2>8. Passed(c)'
    <3>1. at'[c] - 1 = at[c]
      BY <1>3, <2>2
    <3> QED BY <1>1, <1>6, <2>7, <3>1 DEF Passed
  <2> QED BY <1>2, <1>3, <2>6, <2>8, OrderStep
<1> QED BY <1>7, <1>8

\* A flow that starts, or the process, leaves the files as they are.
LEMMA OrderAtRest ==
  ASSUME Types, InOrder, UNCHANGED <<model, data, unchecked>>,
         \A f \in Names(model) : path'[f] = path[f],
         \A d \in Flows : pc'[d] \in DownloadSteps => pc'[d] = "download" /\ at'[d] = 1
  PROVE  InOrder'
<1>1. \A j \in 1..Len(model.downloads) :
        /\ Sure(model.downloads[j]) => Sure(model.downloads[j])'
        /\ Exists(model.downloads[j]) <=> Exists(model.downloads[j])'
  BY DownloadIsAName DEF Types, Sure, IsWhole, Exists
<1>2. BehindSure'
  BY <1>1 DEF InOrder, BehindSure
<1>3. \A d \in Flows : Passed(d)'
  BY DEF Passed, DownloadSteps
<1> QED BY <1>2, <1>3 DEF InOrder

LEMMA NotYetOverlapped ==
  ASSUME ~overlapped', [Next]_vars
  PROVE  ~overlapped
BY DEF Next, vars, history, Provision, Die, Start, Downloading, Loading, Unpacking, Failing,
   AlreadyThere, Connect, WriteFirst, WriteSecond, Write, DeleteOld, Rename,
   RenameFails, EmitLast, DownloadFails, Verify, Finish, Unpack, OpenEntry, WriteEntry,
   Unpacked, UnpackFails, Damaged, Close, DeleteArchive

LEMMA OrderKept ==
  ASSUME Types, Places, ~overlapped => Sole /\ InOrder, ~overlapped', [Next]_vars
  PROVE  InOrder'
<1>1. CASE model.way # "checked"
  <2>1. model' = model
    BY DEF Next, vars, disk, flow, Provision, Die, Start, Downloading, Loading, Unpacking,
       Failing, AlreadyThere, Connect, WriteFirst, WriteSecond, Write, DeleteOld, Rename,
       RenameFails, EmitLast, DownloadFails, Verify, Finish, Unpack, OpenEntry, WriteEntry,
       Unpacked, UnpackFails, Damaged, Close, DeleteArchive
  <2>2. model'.checked = {}
    BY <1>1, <2>1, StoreAssumption DEF Types
  <2> QED BY <2>2 DEF InOrder, BehindSure, Passed
<1>2. CASE model.way = "checked"
  <2>1. model.entries = <<>> /\ ~overlapped /\ Sole /\ InOrder
    BY <1>2, StoreAssumption, NotYetOverlapped DEF Types
  <2>2. ASSUME NEW c \in Flows, Provision(c) PROVE InOrder'
    <3>1. Discarded = {} /\ \A d \in Flows : pc[d] = "idle"
      BY <1>2, <2>2 DEF Discarded, Provision
    <3>2. UNCHANGED <<model, data, unchecked>> /\ \A f \in Names(model) : path'[f] = path[f]
      BY <2>2, <3>1 DEF Provision
    <3>3. \A d \in Flows : pc'[d] \in DownloadSteps => pc'[d] = "download" /\ at'[d] = 1
      BY <1>2, <2>2, <3>1 DEF Provision, Goto, Types, DownloadSteps
    <3> QED BY <2>1, <3>2, <3>3, OrderAtRest
  <2>3. ASSUME NEW c \in Flows, Downloading(c) PROVE InOrder'
    BY <2>1, <2>3, OrderWhileNamesStay, OrderWhileRenaming DEF Downloading
  <2>4. ASSUME NEW c \in Flows, Loading(c) PROVE InOrder'
    BY <1>2, <2>1, <2>4, OrderWhileVerifying DEF Loading, Finish, Unpack
  <2>5. ASSUME NEW c \in Flows, DownloadFails(c) PROVE InOrder'
    BY <2>1, <2>5, OrderWhileNamesStay
  <2>6. ASSUME NEW c \in Flows, Unpacking(c) \/ UnpackFails(c) PROVE InOrder'
    <3>1. pc[c] # "write" /\ pc[c] # "deleteArchive" /\ ~OpenEntry(c)
      BY <1>2, <2>1 DEF Types, Places, OpenEntry
    <3>2. Unpacked(c) \/ Damaged(c) \/ UnpackFails(c)
      BY <2>6, <3>1 DEF Unpacking, WriteEntry, DeleteArchive
    <3>3. Close(c) /\ pc[c] = "unpack"
      BY <3>1, <3>2 DEF Unpacked, Damaged, UnpackFails
    <3>4. Goto(c, "idle") /\ UNCHANGED <<model, disk, at, unchecked>>
      BY <1>2, <3>3 DEF Close
    <3>5. \A f \in Names(model) : IsWhole(f) => IsWhole(f)'
      BY <3>4 DEF disk, IsWhole, Exists
    <3> QED BY <2>1, <3>3, <3>4, <3>5, NamesKept DEF disk, DownloadSteps
  <2>7. CASE Die
    BY <2>1, <2>7, OrderAtRest DEF Die, disk, DownloadSteps
  <2>8. CASE Start \/ UNCHANGED vars
    <3>1. UNCHANGED <<model, path, data, unchecked, pc, at>>
      BY <2>8 DEF Start, vars, disk, flow, history
    <3> QED
      BY <2>1, <3>1 DEF InOrder, BehindSure, Passed, Sure, IsWhole, Exists, Wanted
  <2> QED BY <2>2, <2>3, <2>4, <2>5, <2>6, <2>7, <2>8 DEF Next, Failing
<1> QED BY <1>1, <1>2

-----------------------------------------------------------------------------
(* The invariant, and what it says of a model.                             *)

LEMMA InitIInv ==
  Init => IInv
<1> SUFFICES ASSUME Init PROVE IInv
  OBVIOUS
<1>1. Types
  <2>1. Empty \in Answers /\ Empty \in Blocks \X Blocks
    BY DEF Empty, Answers, Blocks
  <2>2. 1 \in Nat \ {0}
    OBVIOUS
  <2>3. stopped \in 1..(Len(model.entries) + 1)
    BY EndsAPlace DEF Init
  <2> QED BY <2>1, <2>2, <2>3 DEF Init, Types, Steps
<1>2. Places
  BY DEF Init, Places, DownloadSteps
<1>3. \A g \in Names(model) : path[g] = None /\ temp[g] = None
  BY DEF Init
<1>4. Range(model.downloads) \subseteq Names(model) /\ Range(model.entries) \subseteq Names(model)
      /\ model.checked \subseteq Range(model.downloads)
  BY <1>1, StoreAssumption DEF Names, Types
<1>5. Disk /\ Barren
  BY <1>3, <1>4 DEF Disk, Apart, DestinationsAreWhole, Hashed, Barren, Exists
<1>6. Sole
  BY <1>5 DEF Init, Sole, Alone, AtRest, Downloads, Unpacks, DownloadSteps
<1>7. InOrder
  <2>1. \A j \in 1..Len(model.downloads) : ~Exists(model.downloads[j])
    BY <1>1, <1>3, DownloadIsAName DEF Exists, Types
  <2> QED BY <2>1 DEF Init, InOrder, BehindSure, Passed, DownloadSteps
<1> QED BY <1>1, <1>2, <1>6, <1>7 DEF IInv

\* A step of a flow that runs alone, or of the process.
LEMMA SoleKept ==
  ASSUME Types, Places, Types', ~overlapped => Sole, ~overlapped', [Next]_vars
  PROVE  Sole'
<1>1. ASSUME NEW c \in Flows, Provision(c) PROVE Sole'
  BY <1>1, ProvisionKeeps
<1>2. ASSUME ~overlapped, Sole, NEW c \in Flows, Downloading(c) PROVE Sole'
  BY <1>2, DownloadDone, ConnectKeeps, WriteFirstKeeps, WriteSecondKeeps, DeleteOldKeeps,
     RenameKeeps DEF Downloading
<1>3. ASSUME Sole, NEW c \in Flows, Loading(c) PROVE Sole'
  BY <1>3, VerifyKeeps, DownloadDone DEF Loading
<1>4. ASSUME Sole, NEW c \in Flows, Unpacking(c) PROVE Sole'
  BY <1>4, OpenEntryKeeps, WriteEntryKeeps, UnpackingEnds, DeleteArchiveKeeps DEF Unpacking
<1>5. ASSUME Sole, NEW c \in Flows, Failing(c) PROVE Sole'
  BY <1>5, DownloadFailsKeeps, UnpackingEnds DEF Failing
<1>6. ASSUME Sole, Die PROVE Sole'
  BY <1>6, DieKeeps
<1>7. ASSUME Sole, Start \/ UNCHANGED vars PROVE Sole'
  <2>1. UNCHANGED <<model, disk, unchecked, stopped, pc, at, answer, out>>
    BY <1>7 DEF Start, vars, flow, history
  <2>2. Disk' /\ (Barren <=> Barren') /\ (UnpackedAreWhole <=> UnpackedAreWhole')
    BY <1>7, <2>1, SameDevice DEF Sole, UnpackedAreWhole, IsWhole, Exists, disk
  <2>3. Alone' /\ AtRest'
    BY <1>7, <2>1, <2>2 DEF Sole, Alone, AtRest
  <2>4. \A d \in Flows : (Downloads(d) /\ Unpacks(d))'
    BY <1>7, <2>1, <2>2
       DEF Sole, Downloads, Unpacks, Wanted, Entry, Filled, IsWhole, Exists, disk
  <2> QED BY <2>2, <2>3, <2>4 DEF Sole
<1>8. ~overlapped
  BY NotYetOverlapped
<1> QED BY <1>1, <1>2, <1>3, <1>4, <1>5, <1>6, <1>7, <1>8 DEF Next

LEMMA IInvInductive ==
  IInv /\ [Next]_vars => IInv'
BY TypesKept, SoleKept, OrderKept DEF IInv

LEMMA Invariance ==
  Spec => []IInv
BY InitIInv, IInvInductive, PTL DEF Spec

\* When every flow rests, what the loader looks for is there only with the rest
\* of its model.
LEMMA SoundAtRest ==
  ASSUME Types, Sole, InOrder, Resting, IsReady
  PROVE  HashesAreKept /\ UnpackedAreWhole
<1>1. UnpackedAreWhole \/ Barren
  BY DEF Sole, AtRest, Resting
<1>2. /\ model.way \in {"zipped", "bundled"} =>
           model.required # {} /\ model.required \subseteq Range(model.entries)
      /\ model.way \notin {"zipped", "bundled"} => model.entries = <<>>
      /\ model.way = "checked" => model.checked \subseteq model.required
      /\ model.way # "checked" => model.checked = {}
  BY StoreAssumption DEF Types
<1>3. model.way \notin {"plain", "sized"} => \A f \in model.required : Exists(f)
  BY DEF IsReady
<1>4. UnpackedAreWhole
  <2>1. CASE model.way \in {"zipped", "bundled"}
    BY <1>1, <1>2, <1>3, <2>1 DEF Barren
  <2>2. CASE model.way \notin {"zipped", "bundled"}
    <3>1. stopped = 1
      BY <1>2, <2>2 DEF Types
    <3> QED BY <3>1 DEF UnpackedAreWhole
  <2> QED BY <2>1, <2>2
<1>5. HashesAreKept
  <2> SUFFICES ASSUME NEW i \in DOMAIN model.downloads, model.downloads[i] \in model.checked,
                      ~IsWhole(model.downloads[i])
               PROVE  /\ model.downloads[i] \in unchecked
                      /\ \A j \in DOMAIN model.downloads : j > i => ~Exists(model.downloads[j])
    BY DEF HashesAreKept
  <2>1. DOMAIN model.downloads = 1..Len(model.downloads)
    BY StoreAssumption DEF Types
  <2>2. model.downloads[i] \in unchecked
    BY <1>2, <1>3 DEF Sole, Disk, Hashed
  <2>3. \A j \in 1..Len(model.downloads) : j > i => ~Exists(model.downloads[j])
    BY <2>1 DEF InOrder, BehindSure, Sure
  <2> QED BY <2>1, <2>2, <2>3
<1> QED BY <1>4, <1>5

\* Unless two flows ran at once, and also when flows failed or the process died at
\* any step: at no time is less than an answer under the final name of a download;
\* and in a model that a loader takes for ready when no flow runs, only the last
\* file that is there may differ from its hash, if it was not hashed since it got
\* its name, and the entries before the one at which the last unpacking ended
\* early are whole.  Of that file, that entry and the entries behind it nothing is
\* said: the loaders take a model in which they are wrong or missing for ready.
THEOREM ModelsAreDamagedOnlyWhereAFlowEnded ==
  Spec => []DamageIsWhereAFlowEnded
<1>1. IInv => DamageIsWhereAFlowEnded
  BY SoundAtRest DEF IInv, Sole, Disk, DamageIsWhereAFlowEnded
<1> QED BY <1>1, Invariance, PTL

=============================================================================
