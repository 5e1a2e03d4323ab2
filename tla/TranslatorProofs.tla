------------------------- MODULE TranslatorProofs -------------------------
(***************************************************************************)
(* Proofs about the translators.                                           *)
(*                                                                         *)
(* The language model's translator and its crash guard: for any delegates, *)
(* any number of preparations and users, and any exits, an engine outlives *)
(* its use, no engine is lost from sight, a delegate rests after its crash *)
(* and is only skipped if it earned it.                                    *)
(*                                                                         *)
(* The translator that hands over from the fast engine to the primary one: *)
(* for any number of preparations, a sentence has an engine that is ready  *)
(* for its pair.                                                           *)
(***************************************************************************)
EXTENDS LiteRtLmTranslator, HandoverTranslator, SequenceTheorems, TLAPS

-----------------------------------------------------------------------------
(* LiteRtLmTranslator *)

\* A preparation under way is at a delegate of the order.
AtADelegate == \A p \in Preps : pc[p] # "out" => at[p] \in 1..Len(Order)

\* The lock is held by the user that generates, and on the engine in use.
LockedWhileUsed ==
  /\ \A u \in Users : using[u] # None => lock = u /\ using[u] = engine
  /\ \A u \in Users : user[u] = "generating" <=> using[u] # None
  /\ lock # None => using[lock] # None

\* The engine in use exists, and nobody's candidate is it.
EngineExists ==
  /\ engine # None => engine \in open
  /\ \A p \in Preps : engine # None /\ engine[1] = p => pc[p] \in {"out", "test"}
  /\ \A p \in Preps : pc[p] = "install" => <<p, Delegate(p)>> \in open

\* Preparations that do not overlap load one after the other, and only without
\* an engine.
OneLoads ==
  ~overlapped =>
    /\ \A p, q \in Preps : Loading(p) /\ Loading(q) => p = q
    /\ \A p \in Preps : Loading(p) => engine = None

\* The first exit the platform knows of is the one the delegate is blamed for.
MarkersTell ==
  \A d \in Delegates \ {CPU} : marker[d] # None =>
    /\ marker[d].exits = <<>> => \E p \in Preps : Inside(p, d)
    /\ marker[d].exits # <<>> /\ Head(marker[d].exits) # "lowMemory" =>
         d \in blamed \cup excused

\* A delegate that is blamed has a marker that says so.
BlameIsMarked ==
  \A d \in Delegates \ {CPU} : d \in blamed \ excused =>
    marker[d] # None /\ marker[d].exits # <<>> /\ Head(marker[d].exits) # "lowMemory"

\* An attempt is marked while it lasts, and the delegate is not blamed meanwhile.
AttemptsAreMarked ==
  \A p \in Preps, d \in Delegates \ {CPU} :
    /\ Inside(p, d) /\ d \notin excused /\ ~overlapped =>
         marker[d] # None /\ marker[d].exits = <<>>
    /\ Inside(p, d) => d \notin blamed
    /\ pc[p] = "arm" /\ Delegate(p) = d => d \notin blamed

Engine == AtADelegate /\ LockedWhileUsed /\ EngineExists /\ OneLoads /\ NoEngineLeaks
Blame == MarkersTell /\ BlameIsMarked /\ AttemptsAreMarked
IInv == TypeOK /\ Engine /\ Blame

-----------------------------------------------------------------------------
(* What the platform remembers. *)

\* The exits after one more, of which the platform keeps MaxExits.
Remember(s, r) == Append(IF Len(s) = MaxExits THEN Tail(s) ELSE s, r)

LEMMA BoundedIsShort ==
  ASSUME NEW s PROVE s \in BoundedSeq(Reasons, MaxExits) <=>
                       s \in Seq(Reasons) /\ Len(s) <= MaxExits
<1> USE TranslatorAssumption DEF BoundedSeq, SeqOf
<1>1. ASSUME s \in BoundedSeq(Reasons, MaxExits)
      PROVE  s \in Seq(Reasons) /\ Len(s) <= MaxExits
  <2>1. PICK m \in 0..MaxExits : s \in [1..m -> Reasons]
    BY <1>1
  <2>2. s \in Seq(Reasons)
    BY <2>1, SeqDef
  <2>3. Len(s) \in Nat /\ 1..Len(s) = 1..m
    BY <2>1, <2>2, LenProperties
  <2>4. Len(s) = m
    BY <2>3
  <2> QED
    BY <2>2, <2>4
<1>2. ASSUME s \in Seq(Reasons), Len(s) <= MaxExits
      PROVE  s \in BoundedSeq(Reasons, MaxExits)
  <2>1. Len(s) \in 0..MaxExits /\ s \in [1..Len(s) -> Reasons]
    BY <1>2, LenProperties
  <2> QED
    BY <2>1
<1> QED
  BY <1>1, <1>2

\* One more exit is the first only if there was none, or the first is forgotten.
LEMMA RememberTells ==
  ASSUME NEW s \in BoundedSeq(Reasons, MaxExits), NEW r \in Reasons
  PROVE  /\ Remember(s, r) \in BoundedSeq(Reasons, MaxExits)
         /\ Remember(s, r) # <<>>
         /\ s = <<>> => Head(Remember(s, r)) = r
         /\ s # <<>> /\ Len(s) # MaxExits => Head(Remember(s, r)) = Head(s)
<1> USE TranslatorAssumption
<1>0. s \in Seq(Reasons) /\ Len(s) <= MaxExits
  BY BoundedIsShort
<1>1. CASE Len(s) = MaxExits
  <2>1. s # <<>> /\ Tail(s) \in Seq(Reasons) /\ Len(Tail(s)) = MaxExits - 1
    BY <1>0, <1>1, HeadTailProperties, EmptySeq
  <2>2. Remember(s, r) = Append(Tail(s), r)
    BY <1>1 DEF Remember
  <2>3. Remember(s, r) \in Seq(Reasons) /\ Len(Remember(s, r)) = MaxExits
    BY <2>1, <2>2, AppendProperties
  <2>4. Remember(s, r) # <<>>
    BY <2>3, EmptySeq
  <2> QED
    BY <2>1, <2>3, <2>4, <1>1, BoundedIsShort
<1>2. CASE Len(s) # MaxExits
  <2>1. Remember(s, r) = Append(s, r)
    BY <1>2 DEF Remember
  <2>2. /\ Remember(s, r) \in Seq(Reasons) /\ Len(Remember(s, r)) = Len(s) + 1
        /\ Remember(s, r) # <<>>
    BY <1>0, <2>1, AppendProperties
  <2>3. Len(s) \in Nat /\ Len(s) + 1 <= MaxExits
    BY <1>0, <1>2, LenProperties
  <2>4. Head(Remember(s, r)) = IF s = <<>> THEN r ELSE Head(s)
    <3>1. CASE s = <<>>
      BY <3>1, <2>1
    <3>2. CASE s # <<>>
      <4>1. Head(Append(s, r)) = Append(s, r)[1] /\ Append(s, r)[1] = s[1]
        BY <1>0, <3>2, AppendProperties, LenProperties, EmptySeq
      <4> QED
        BY <4>1, <3>2, <2>1, <1>0
    <3> QED
      BY <3>1, <3>2
  <2> QED
    BY <2>2, <2>3, <2>4, BoundedIsShort
<1> QED
  BY <1>1, <1>2

-----------------------------------------------------------------------------
(* Types. *)

Labels == {"out", "test", "space", "guard", "arm", "init", "probe", "disarm",
           "install"}

LEMMA DelegateType ==
  ASSUME NEW p, at[p] \in 1..Len(Order) PROVE Delegate(p) \in Delegates
<1>1. DOMAIN Order = 1..Len(Order)
  BY TranslatorAssumption, LenProperties
<1> QED
  BY <1>1 DEF Delegate, Delegates, Range

LEMMA CountTypes == Len(Order) \in Nat \ {0} /\ Ttl \in Nat \ {0} /\ MaxFaults \in Nat
  BY TranslatorAssumption, EmptySeq, LenProperties

LEMMA FaultTypes == TypeOK /\ Fault => faults' \in 0..MaxFaults
  BY CountTypes DEF TypeOK, Fault

\* What a death leaves of the markers.
LEMMA DieTells ==
  ASSUME TypeOK, NEW reason \in Reasons, Die(reason), NEW d \in Delegates
  PROVE  /\ marker[d] = None => marker'[d] = None
         /\ marker[d] # None =>
              /\ marker[d] \in Markers
              /\ marker'[d] = [age |-> marker[d].age,
                              exits |-> Remember(marker[d].exits, reason)]
<1>1. CASE marker[d] = None
  BY <1>1 DEF Die
<1>2. CASE marker[d] # None
  <2>1. marker[d] \in Markers
    BY <1>2 DEF TypeOK
  <2>2. marker'[d] = [marker[d] EXCEPT !.exits =
          Append(IF Len(marker[d].exits) = MaxExits
                 THEN Tail(marker[d].exits) ELSE marker[d].exits, reason)]
    BY <1>2 DEF Die
  <2>3. marker'[d] = [marker[d] EXCEPT !.exits = Remember(marker[d].exits, reason)]
    BY <2>2 DEF Remember
  <2>4. marker'[d] = [age |-> marker[d].age, exits |-> Remember(marker[d].exits, reason)]
    BY <2>1, <2>3 DEF Markers
  <2> QED
    BY <1>2, <2>1, <2>4
<1> QED
  BY <1>1, <1>2

LEMMA DieTypes ==
  ASSUME TypeOK, NEW reason \in Reasons, Die(reason), faults' \in 0..MaxFaults
  PROVE  TypeOK'
<1> USE CountTypes
<1>1. marker' \in [Delegates -> {None} \cup Markers]
  <2>1. DOMAIN marker' = Delegates /\ marker' = [d \in Delegates |-> marker'[d]]
    BY DEF Die
  <2>2. ASSUME NEW d \in Delegates PROVE marker'[d] \in {None} \cup Markers
    <3>1. CASE marker[d] = None
      BY <3>1, DieTells
    <3>2. CASE marker[d] # None
      <4>1. marker[d].exits \in BoundedSeq(Reasons, MaxExits) /\ marker[d].age \in 0..Ttl
        BY <3>2, DieTells DEF Markers
      <4>2. Remember(marker[d].exits, reason) \in BoundedSeq(Reasons, MaxExits)
        BY <4>1, RememberTells
      <4>3. marker'[d] = [age |-> marker[d].age, exits |-> Remember(marker[d].exits, reason)]
        BY <3>2, DieTells
      <4> QED
        BY <4>1, <4>2, <4>3 DEF Markers
    <3> QED
      BY <3>1, <3>2
  <2> QED
    BY <2>1, <2>2
<1>2. /\ engine' = None /\ lock' = None /\ released' = "no" /\ cancelled' = {}
      /\ open' = {} /\ overlapped' = FALSE /\ up' = FALSE /\ proven' = proven
  BY DEF Die, NewProcess
<1>3. /\ pc' \in [Preps -> Labels] /\ at' \in [Preps -> 1..(Len(Order) + 1)]
  BY DEF Die, NewProcess, Labels
<1>4. /\ user' \in [Users -> {"out", "waiting", "generating"}]
      /\ using' \in [Users -> Engines \cup {None}]
  BY DEF Die, NewProcess
<1>5. blamed' \subseteq Delegates /\ excused' \subseteq Delegates
  BY DEF Die, TypeOK
<1> QED
  BY <1>1, <1>2, <1>3, <1>4, <1>5 DEF TypeOK, Labels

LEMMA InitTypes == Init => TypeOK
<1> SUFFICES ASSUME Init PROVE TypeOK
  OBVIOUS
<1> USE CountTypes DEF Init
<1>1. up \in BOOLEAN /\ overlapped \in BOOLEAN
  OBVIOUS
<1>4. faults \in 0..MaxFaults
  OBVIOUS
<1>2. marker \in [Delegates -> {None} \cup Markers]
  OBVIOUS
<1>3. /\ pc \in [Preps -> Labels] /\ at \in [Preps -> 1..(Len(Order) + 1)]
      /\ user \in [Users -> {"out", "waiting", "generating"}]
      /\ using \in [Users -> Engines \cup {None}]
  BY DEF Labels
<1> QED
  BY <1>1, <1>2, <1>3, <1>4 DEF TypeOK, Labels

\* The step of one preparation.
LEMMA PrepareTypes ==
  ASSUME TypeOK, AtADelegate, NEW p \in Preps, Prepare(p) PROVE TypeOK'
<1> USE CountTypes
<1>t. /\ pc \in [Preps -> Labels] /\ at \in [Preps -> 1..(Len(Order) + 1)]
      /\ marker \in [Delegates -> {None} \cup Markers]
  BY DEF TypeOK, Labels
<1>d. pc[p] # "out" => at[p] \in 1..Len(Order) /\ Delegate(p) \in Delegates
  BY DelegateType DEF AtADelegate
<1>e. pc[p] # "out" => <<p, Delegate(p)>> \in Engines
  BY <1>d DEF Engines
<1>1. CASE TestEngine(p)
  <2>1. pc' \in [Preps -> Labels]
    BY <1>1, <1>t DEF TestEngine, Goto, Labels
  <2>2. overlapped' \in BOOLEAN
    BY <1>1 DEF TestEngine
  <2> QED
    BY <1>1, <2>1, <2>2 DEF TestEngine, TypeOK, Labels, disk, users
<1>2. CASE Provision(p)
  <2>1. pc' \in [Preps -> Labels]
    BY <1>2, <1>t DEF Provision, Goto, Labels
  <2>2. faults' \in 0..MaxFaults
    BY <1>2, FaultTypes DEF Provision, TypeOK
  <2> QED
    BY <1>2, <2>1, <2>2 DEF Provision, TypeOK, Labels, disk, users
<1>3. CASE CheckGuard(p)
  <2>0. at[p] \in 1..Len(Order) /\ Delegate(p) \in Delegates
    BY <1>3, <1>d DEF CheckGuard
  <2>1. pc' \in [Preps -> Labels]
    BY <1>3, <1>t DEF CheckGuard, Goto, Labels
  <2>2. at' \in [Preps -> 1..(Len(Order) + 1)]
    BY <1>3, <1>t, <2>0 DEF CheckGuard
  <2>3. marker' \in [Delegates -> {None} \cup Markers]
    BY <1>3, <1>t, <2>0 DEF CheckGuard, Delete
  <2>4. blamed' \subseteq Delegates
    BY <1>3 DEF CheckGuard, TypeOK
  <2> QED
    BY <1>3, <2>1, <2>2, <2>3, <2>4 DEF CheckGuard, TypeOK, Labels, users
<1>4. CASE Arm(p)
  <2>0. Delegate(p) \in Delegates /\ <<p, Delegate(p)>> \in Engines
    BY <1>4, <1>d, <1>e DEF Arm
  <2>1. pc' \in [Preps -> Labels]
    BY <1>4, <1>t DEF Arm, Goto, Labels
  <2>2. marker' \in [Delegates -> {None} \cup Markers]
    <3>1. <<>> \in BoundedSeq(Reasons, MaxExits)
      <4>1. <<>> \in Seq(Reasons) /\ Len(<<>>) = 0
        BY EmptySeq
      <4>2. Len(<<>>) <= MaxExits
        BY <4>1, TranslatorAssumption
      <4> QED
        BY <4>1, <4>2, BoundedIsShort
    <3>2. [age |-> 0, exits |-> <<>>] \in Markers
      BY <3>1 DEF Markers
    <3> QED
      BY <1>4, <1>t, <2>0, <3>2 DEF Arm
  <2>3. faults' \in 0..MaxFaults
    BY <1>4, FaultTypes DEF Arm, TypeOK
  <2>4. excused' \subseteq Delegates /\ open' \subseteq Engines
    BY <1>4, <2>0 DEF Arm, TypeOK
  <2> QED
    BY <1>4, <2>1, <2>2, <2>3, <2>4 DEF Arm, TypeOK, Labels, users
<1>5. CASE NativeOk(p)
  <2>0. Delegate(p) \in Delegates
    BY <1>5, <1>d DEF NativeOk
  <2>1. pc' \in [Preps -> Labels]
    BY <1>5, <1>t DEF NativeOk, Goto, Labels
  <2>2. proven' \subseteq Delegates
    BY <1>5, <2>0 DEF NativeOk, TypeOK
  <2> QED
    BY <1>5, <2>1, <2>2 DEF NativeOk, TypeOK, Labels, users, history
<1>6. CASE NativeThrows(p)
  <2>1. pc' \in [Preps -> Labels]
    BY <1>6, <1>t DEF NativeThrows, Goto, Labels
  <2> QED
    BY <1>6, <2>1 DEF NativeThrows, TypeOK, Labels, disk, users, history
<1>7. CASE Crash(p)
  <2>1. faults' \in 0..MaxFaults
    BY <1>7 DEF Crash, TypeOK
  <2> QED
    BY <1>7, <2>1, DieTypes DEF Crash, Reasons
<1>8. CASE Attempted(p)
  <2>0. at[p] \in 1..Len(Order) /\ Delegate(p) \in Delegates
    BY <1>8, <1>d DEF Attempted
  <2>1. pc' \in [Preps -> Labels]
    BY <1>8, <1>t DEF Attempted, Goto, Labels
  <2>2. at' \in [Preps -> 1..(Len(Order) + 1)]
    BY <1>8, <1>t, <2>0 DEF Attempted
  <2>3. marker' \in [Delegates -> {None} \cup Markers]
    BY <1>8, <1>t, <2>0 DEF Attempted, Delete
  <2> QED
    BY <1>8, <2>1, <2>2, <2>3 DEF Attempted, TypeOK, Labels, users, history
<1>9. CASE Install(p)
  <2>1. pc' \in [Preps -> Labels]
    BY <1>9, <1>t DEF Install, Goto, Labels
  <2>2. engine' \in Engines \cup {None}
    BY <1>9, <1>e DEF Install, TypeOK
  <2> QED
    BY <1>9, <2>1, <2>2 DEF Install, TypeOK, Labels, disk, users, history
<1> QED
  BY <1>1, <1>2, <1>3, <1>4, <1>5, <1>6, <1>7, <1>8, <1>9 DEF Prepare

LEMMA OtherTypes ==
  ASSUME TypeOK,
         \/ \E p \in Preps : Call(p) \/ CancelPrep(p)
         \/ \E u \in Users : Translate(u) \/ Inference(u)
         \/ Release \/ FreeEngine \/ Kill \/ Start \/ Tick
  PROVE  TypeOK'
<1> USE CountTypes
<1>1. ASSUME NEW p \in Preps, Call(p) PROVE TypeOK'
  <2>1. pc' \in [Preps -> Labels] /\ at' \in [Preps -> 1..(Len(Order) + 1)]
    BY <1>1 DEF Call, Goto, TypeOK, Labels
  <2> QED
    BY <1>1, <2>1 DEF Call, TypeOK, Labels, disk, users, history
<1>2. ASSUME NEW p \in Preps, CancelPrep(p) PROVE TypeOK'
  <2>1. faults' \in 0..MaxFaults
    BY <1>2, FaultTypes DEF CancelPrep
  <2> QED
    BY <1>2, <2>1 DEF CancelPrep, TypeOK, disk, users
<1>3. ASSUME NEW u \in Users, Translate(u) \/ Inference(u) PROVE TypeOK'
  <2>1. user' \in [Users -> {"out", "waiting", "generating"}]
    BY <1>3 DEF Translate, Inference, Generate, Generated, TypeOK
  <2>2. using' \in [Users -> Engines \cup {None}] /\ lock' \in Users \cup {None}
    BY <1>3 DEF Translate, Inference, Generate, Generated, TypeOK
  <2>3. UNCHANGED <<marker, proven, up, engine, released, pc, at, cancelled, open,
                    blamed, excused, overlapped, faults>>
    BY <1>3 DEF Translate, Inference, Generate, Generated, disk, prep, history
  <2> QED
    BY <2>1, <2>2, <2>3 DEF TypeOK
<1>4. CASE Release
  BY <1>4 DEF Release, TypeOK, disk, users, history
<1>5. CASE FreeEngine
  BY <1>5 DEF FreeEngine, TypeOK, disk, prep, users, history
<1>6. CASE Kill
  <2>1. faults' \in 0..MaxFaults
    BY <1>6, FaultTypes DEF Kill
  <2> QED
    BY <1>6, <2>1, DieTypes DEF Kill, Reasons
<1>7. CASE Start
  <2>1. up' \in BOOLEAN
    BY <1>7 DEF Start
  <2> QED
    BY <1>7, <2>1 DEF Start, TypeOK, disk, prep, users, history
<1>8. CASE Tick
  <2>1. faults' \in 0..MaxFaults
    BY <1>8, FaultTypes DEF Tick
  <2>2. ASSUME NEW d \in Delegates PROVE marker'[d] \in {None} \cup Markers
    <3>1. CASE Young(d)
      <4>1. marker[d] \in Markers /\ marker[d].age < Ttl
        BY <3>1 DEF Young, TypeOK
      <4>2. marker'[d] = [marker[d] EXCEPT !.age = @ + 1]
        BY <1>8, <3>1 DEF Tick
      <4> QED
        BY <4>1, <4>2 DEF Markers
    <3>2. CASE ~Young(d)
      BY <1>8, <3>2 DEF Tick, TypeOK
    <3> QED
      BY <3>1, <3>2
  <2>3. marker' = [d \in Delegates |-> marker'[d]]
    BY <1>8 DEF Tick
  <2>4. marker' \in [Delegates -> {None} \cup Markers]
    BY <2>2, <2>3
  <2> QED
    BY <1>8, <2>1, <2>4 DEF Tick, TypeOK, prep, users
<1> QED
  BY <1>1, <1>2, <1>3, <1>4, <1>5, <1>6, <1>7, <1>8

LEMMA NextTypes == TypeOK /\ AtADelegate /\ [Next]_vars => TypeOK'
<1> SUFFICES ASSUME TypeOK, AtADelegate, [Next]_vars PROVE TypeOK'
  OBVIOUS
<1>1. CASE UNCHANGED vars
  BY <1>1 DEF vars, disk, prep, users, history, TypeOK
<1> QED
  BY <1>1, PrepareTypes, OtherTypes DEF Next

-----------------------------------------------------------------------------
(* The engine.  A step of one preparation leaves where the others are. *)

LEMMA Untouched ==
  ASSUME TypeOK, UNCHANGED <<pc, at, engine, lock, released, using, open, overlapped>>,
         Engine, \A u \in Users : user'[u] = "generating" <=> user[u] = "generating"
  PROVE  Engine'
<1> USE DEF Engine, Delegate
<1>1. AtADelegate' /\ OneLoads'
  BY DEF AtADelegate, OneLoads, Loading
<1>2. LockedWhileUsed'
  BY DEF LockedWhileUsed
<1>3. EngineExists'
  BY DEF EngineExists
<1>4. NoEngineLeaks'
  BY DEF NoEngineLeaks
<1> QED
  BY <1>1, <1>2, <1>3, <1>4

\* A preparation that changes its place without touching an engine.
LEMMA MoveEngine ==
  ASSUME TypeOK, Engine, NEW p \in Preps,
         UNCHANGED <<engine, lock, released, using, user, open, overlapped>>,
         \A q \in Preps : q # p => pc'[q] = pc[q] /\ at'[q] = at[q],
         pc'[p] # "out" => at'[p] \in 1..Len(Order),
         pc'[p] # "install" \/ <<p, Delegate(p)>> \in open,
         Loading(p)' => Loading(p),
         engine # None /\ engine[1] = p => pc'[p] \in {"out", "test"},
         \/ pc'[p] \in {"init", "probe", "disarm", "install"} /\ at'[p] = at[p]
         \/ <<p, Delegate(p)>> \notin open
         \/ pc[p] \notin {"init", "probe", "disarm", "install"},
         pc'[p] = "install" => at'[p] = at[p]
  PROVE  Engine'
<1>1. AtADelegate'
  BY DEF Engine, AtADelegate
<1>2. LockedWhileUsed'
  BY DEF Engine, LockedWhileUsed
<1>3. EngineExists'
  BY DEF Engine, EngineExists, Delegate
<1>4. OneLoads'
  BY DEF Engine, OneLoads, Loading
<1>5. NoEngineLeaks'
  BY DEF Engine, NoEngineLeaks, Delegate
<1> QED
  BY <1>1, <1>2, <1>3, <1>4, <1>5 DEF Engine

LEMMA PrepareEngine ==
  ASSUME TypeOK, Engine, NEW p \in Preps, Prepare(p), ~Crash(p) PROVE Engine'
<1> USE CountTypes
<1>t. pc \in [Preps -> Labels] /\ at \in [Preps -> 1..(Len(Order) + 1)]
  BY DEF TypeOK, Labels
<1>e. engine # None /\ engine[1] = p => pc[p] \in {"out", "test"}
  BY DEF Engine, EngineExists
<1>a. pc[p] # "out" => at[p] \in 1..Len(Order)
  BY DEF Engine, AtADelegate
<1>1. CASE TestEngine(p)
  <2>1. /\ \A q \in Preps : pc'[q] = IF q = p THEN pc'[p] ELSE pc[q]
        /\ pc[p] = "test" /\ pc'[p] \in {"out", "space"}
        /\ pc'[p] = "space" => engine = None
        /\ UNCHANGED <<at, engine, open, lock, using, user, released>>
    BY <1>1, <1>t DEF TestEngine, Goto, users
  <2>2. ~overlapped' => ~overlapped /\ \A q \in Preps \ {p} : ~(pc'[p] = "space" /\ Loading(q))
    BY <1>1 DEF TestEngine
  <2>3. AtADelegate' /\ LockedWhileUsed' /\ EngineExists'
    BY <2>1 DEF Engine, AtADelegate, LockedWhileUsed, EngineExists, Delegate
  <2>4. OneLoads'
    BY <2>1, <2>2 DEF Engine, OneLoads, Loading
  <2>5. NoEngineLeaks'
    BY <2>1, <2>2 DEF Engine, NoEngineLeaks, Delegate
  <2> QED
    BY <2>3, <2>4, <2>5 DEF Engine
<1>2. CASE Provision(p)
  <2>1. /\ \A q \in Preps : q # p => pc'[q] = pc[q]
        /\ pc[p] = "space" /\ pc'[p] \in {"out", "guard"}
        /\ UNCHANGED <<at, engine, open, lock, using, user, released, overlapped>>
    BY <1>2, <1>t DEF Provision, Goto, users
  <2> QED
    BY <2>1, <1>a, <1>e, MoveEngine DEF Loading
<1>3. CASE CheckGuard(p)
  <2>1. /\ \A q \in Preps : q # p => pc'[q] = pc[q] /\ at'[q] = at[q]
        /\ pc[p] = "guard" /\ pc'[p] \in {"out", "guard", "arm"}
        /\ pc'[p] = "guard" => at[p] < Len(Order) /\ at'[p] = at[p] + 1
        /\ pc'[p] = "arm" => at'[p] = at[p]
        /\ UNCHANGED <<engine, open, lock, using, user, released, overlapped>>
    BY <1>3, <1>t DEF CheckGuard, Goto, users
  <2>2. pc'[p] # "out" => at'[p] \in 1..Len(Order)
    BY <2>1, <1>a
  <2> QED
    BY <2>1, <2>2, <1>e, MoveEngine DEF Loading
<1>4. CASE Arm(p)
  <2>1. /\ \A q \in Preps : pc'[q] = IF q = p THEN "init" ELSE pc[q]
        /\ pc[p] = "arm" /\ open' = open \cup {<<p, Delegate(p)>>}
        /\ UNCHANGED <<at, engine, lock, using, user, released, overlapped>>
    BY <1>4, <1>t DEF Arm, Goto, users
  <2>3. AtADelegate' /\ LockedWhileUsed' /\ EngineExists'
    BY <2>1 DEF Engine, AtADelegate, LockedWhileUsed, EngineExists, Delegate
  <2>4. OneLoads'
    BY <2>1 DEF Engine, OneLoads, Loading
  <2>5. NoEngineLeaks'
    BY <2>1 DEF Engine, NoEngineLeaks, Delegate
  <2> QED
    BY <2>3, <2>4, <2>5 DEF Engine
<1>5. CASE NativeOk(p)
  <2>1. /\ \A q \in Preps : q # p => pc'[q] = pc[q]
        /\ pc[p] \in {"init", "probe"} /\ pc'[p] \in {"probe", "disarm"}
        /\ UNCHANGED <<at, engine, open, lock, using, user, released, overlapped>>
    BY <1>5, <1>t DEF NativeOk, Goto, users, history
  <2> QED
    BY <2>1, <1>a, <1>e, MoveEngine DEF Loading
<1>6. CASE NativeThrows(p)
  <2>1. /\ \A q \in Preps : pc'[q] = IF q = p THEN "disarm" ELSE pc[q]
        /\ pc[p] \in {"init", "probe"} /\ open' = open \ {<<p, Delegate(p)>>}
        /\ UNCHANGED <<at, engine, lock, using, user, released, overlapped>>
    BY <1>6, <1>t DEF NativeThrows, Goto, users, history
  <2>2. AtADelegate' /\ LockedWhileUsed'
    BY <2>1 DEF Engine, AtADelegate, LockedWhileUsed
  <2>3. EngineExists'
    BY <2>1 DEF Engine, EngineExists, Delegate
  <2>4. OneLoads'
    BY <2>1 DEF Engine, OneLoads, Loading
  <2>5. NoEngineLeaks'
    BY <2>1 DEF Engine, NoEngineLeaks, Delegate
  <2> QED
    BY <2>2, <2>3, <2>4, <2>5 DEF Engine
<1>8. CASE Attempted(p)
  <2>1. /\ \A q \in Preps : q # p => pc'[q] = pc[q] /\ at'[q] = at[q]
        /\ pc[p] = "disarm" /\ pc'[p] \in {"out", "guard", "install"}
        /\ pc'[p] = "guard" => at[p] < Len(Order) /\ at'[p] = at[p] + 1
        /\ pc'[p] = "install" <=> <<p, Delegate(p)>> \in open
        /\ pc'[p] = "install" => at'[p] = at[p]
        /\ UNCHANGED <<engine, open, lock, using, user, released, overlapped>>
    BY <1>8, <1>t DEF Attempted, Goto, users, history
  <2>2. pc'[p] # "out" => at'[p] \in 1..Len(Order)
    BY <2>1, <1>a
  <2> QED
    BY <2>1, <2>2, <1>e, MoveEngine DEF Loading
<1>9. CASE Install(p)
  <2>1. /\ \A q \in Preps : pc'[q] = IF q = p THEN "out" ELSE pc[q]
        /\ pc[p] = "install"
        /\ UNCHANGED <<at, open, lock, using, user, released, overlapped>>
    BY <1>9, <1>t DEF Install, Goto, users, history
  <2>2. \/ lock = None /\ engine' = <<p, Delegate(p)>>
        \/ lock # None /\ engine' = engine
    BY <1>9 DEF Install
  <2>3. <<p, Delegate(p)>> \in open /\ <<p, Delegate(p)>> # None
    BY <2>1, TranslatorAssumption DEF Engine, EngineExists, TypeOK
  <2>4. AtADelegate'
    BY <2>1 DEF Engine, AtADelegate
  <2>5. LockedWhileUsed'
    <3>1. lock = None => \A u \in Users : using[u] = None
      BY TranslatorAssumption DEF Engine, LockedWhileUsed
    <3> QED
      BY <2>1, <2>2, <3>1 DEF Engine, LockedWhileUsed
  <2>6. EngineExists'
    BY <2>1, <2>2, <2>3 DEF Engine, EngineExists, Delegate
  <2>7. OneLoads'
    BY <2>1, <2>2 DEF Engine, OneLoads, Loading
  <2>8. NoEngineLeaks'
    <3>1. ~overlapped => lock = None /\ engine = None
      BY <2>1, <2>2, TranslatorAssumption
      DEF Engine, OneLoads, LockedWhileUsed, Loading, TypeOK
    <3>2. ~overlapped => \A q \in Preps : Loading(q) => q = p
      BY <2>1 DEF Engine, OneLoads, Loading
    <3>3. ASSUME ~overlapped, released = "no", NEW e \in open
          PROVE  e = <<p, Delegate(p)>>
      <4>1. e # None
        BY TranslatorAssumption DEF TypeOK
      <4>2. PICK q \in Preps : /\ pc[q] \in {"init", "probe", "disarm", "install"}
                              /\ e = <<q, Delegate(q)>>
        BY <3>1, <3>3, <4>1 DEF Engine, NoEngineLeaks
      <4>3. Loading(q)
        BY <4>2 DEF Loading
      <4> QED
        BY <3>2, <3>3, <4>2, <4>3
    <3> QED
      BY <2>1, <2>2, <3>1, <3>3 DEF NoEngineLeaks
  <2> QED
    BY <2>4, <2>5, <2>6, <2>7, <2>8 DEF Engine
<1> QED
  BY <1>1, <1>2, <1>3, <1>4, <1>5, <1>6, <1>8, <1>9 DEF Prepare

LEMMA UsersEngine ==
  ASSUME TypeOK, Engine, NEW u \in Users, Translate(u) \/ Inference(u) PROVE Engine'
<1>1. CASE Translate(u)
  <2>1. \A v \in Users : user'[v] = "generating" <=> user[v] = "generating"
    BY <1>1 DEF Translate, TypeOK
  <2> QED
    BY <1>1, <2>1, Untouched DEF Translate, prep, history
<1>2. CASE Generate(u) \/ Generated(u)
  <2>1. UNCHANGED <<pc, at, engine, open, released, overlapped>>
    BY <1>2 DEF Generate, Generated, prep, history
  <2>2. LockedWhileUsed'
    <3>1. CASE Generate(u)
      <4>1. \A v \in Users : user[v] # "generating" /\ using[v] = None
        BY <3>1, TranslatorAssumption DEF Generate, Engine, LockedWhileUsed
      <4>2. CASE engine = None
        <5>1. UNCHANGED <<lock, using, engine>> /\ user' = [user EXCEPT ![u] = "out"]
          BY <3>1, <4>2 DEF Generate
        <5>2. \A v \in Users : user'[v] # "generating"
          BY <4>1, <5>1 DEF TypeOK
        <5> QED
          BY <3>1, <4>1, <5>1, <5>2 DEF Generate, LockedWhileUsed
      <4>3. CASE engine # None
        <5>1. /\ user' = [user EXCEPT ![u] = "generating"] /\ lock' = u
              /\ using' = [using EXCEPT ![u] = engine] /\ engine' = engine
          BY <3>1, <4>3 DEF Generate
        <5> QED
          BY <4>1, <4>3, <5>1 DEF LockedWhileUsed, TypeOK
      <4> QED
        BY <4>2, <4>3
    <3>2. CASE Generated(u)
      BY <3>2, TranslatorAssumption DEF Generated, Engine, LockedWhileUsed, TypeOK
    <3> QED
      BY <1>2, <3>1, <3>2
  <2>3. AtADelegate' /\ EngineExists' /\ OneLoads' /\ NoEngineLeaks'
    BY <2>1 DEF Engine, AtADelegate, EngineExists, OneLoads, NoEngineLeaks, Loading, Delegate
  <2> QED
    BY <2>2, <2>3 DEF Engine
<1> QED
  BY <1>1, <1>2 DEF Inference

LEMMA DieEngine ==
  ASSUME NEW reason, Die(reason) PROVE Engine'
<1> USE CountTypes DEF Die, NewProcess
<1>1. AtADelegate' /\ LockedWhileUsed' /\ EngineExists'
  BY DEF AtADelegate, LockedWhileUsed, EngineExists
<1>2. OneLoads' /\ NoEngineLeaks'
  BY DEF OneLoads, NoEngineLeaks, Loading
<1> QED
  BY <1>1, <1>2 DEF Engine

LEMMA NextEngine == TypeOK /\ Engine /\ [Next]_vars => Engine'
<1> SUFFICES ASSUME TypeOK, Engine, [Next]_vars PROVE Engine'
  OBVIOUS
<1> USE CountTypes
<1>1. ASSUME NEW p \in Preps, Call(p) PROVE Engine'
  <2>1. /\ \A q \in Preps : q # p => pc'[q] = pc[q] /\ at'[q] = at[q]
        /\ pc[p] = "out" /\ pc'[p] = "test" /\ at'[p] = 1
        /\ UNCHANGED <<engine, open, lock, using, user, released, overlapped>>
    BY <1>1 DEF Call, Goto, TypeOK, users, history
  <2>2. at'[p] \in 1..Len(Order)
    BY <2>1
  <2> QED
    BY <2>1, <2>2, MoveEngine DEF Loading
<1>2. ASSUME NEW p \in Preps, Crash(p) PROVE Engine'
  BY <1>2, DieEngine DEF Crash
<1>3. ASSUME NEW p \in Preps, CancelPrep(p) PROVE Engine'
  BY <1>3, Untouched DEF CancelPrep, users
<1>4. CASE Release
  <2>1. /\ UNCHANGED <<pc, at, engine, open, lock, using, user, overlapped>>
        /\ released' = "called"
    BY <1>4 DEF Release, users, history
  <2> QED
    BY <2>1 DEF Engine, AtADelegate, LockedWhileUsed, EngineExists, OneLoads,
                NoEngineLeaks, Loading, Delegate
<1>5. CASE FreeEngine
  <2>1. /\ UNCHANGED <<pc, at, lock, using, user, overlapped>>
        /\ released' = "done" /\ lock = None
        /\ engine' = None /\ open' = open \ {engine}
    BY <1>5 DEF FreeEngine, prep, users, history
  <2>2. LockedWhileUsed'
    BY <2>1, TranslatorAssumption DEF Engine, LockedWhileUsed
  <2>3. EngineExists'
    BY <2>1, TranslatorAssumption DEF Engine, EngineExists, Delegate, TypeOK
  <2>4. AtADelegate' /\ OneLoads' /\ NoEngineLeaks'
    BY <2>1 DEF Engine, AtADelegate, OneLoads, NoEngineLeaks, Loading
  <2> QED
    BY <2>2, <2>3, <2>4 DEF Engine
<1>6. CASE Kill
  BY <1>6, DieEngine DEF Kill
<1>7. CASE Start \/ Tick \/ UNCHANGED vars
  BY <1>7, Untouched DEF Start, Tick, vars, prep, users, history
<1> QED
  BY <1>1, <1>2, <1>3, <1>4, <1>5, <1>6, <1>7, PrepareEngine, UsersEngine DEF Next

-----------------------------------------------------------------------------
(* The crash guard. *)

\* A preparation that stays inside or outside its attempt, and does not arm.
LEMMA MoveBlame ==
  ASSUME Blame, UNCHANGED <<marker, blamed, excused>>, overlapped => overlapped',
         \A p \in Preps : \A d \in Delegates : Inside(p, d)' <=> Inside(p, d),
         \A p \in Preps : pc'[p] = "arm" => pc[p] = "arm" /\ at'[p] = at[p]
  PROVE  Blame'
<1>1. MarkersTell' /\ BlameIsMarked'
  BY DEF Blame, MarkersTell, BlameIsMarked
<1>2. AttemptsAreMarked'
  BY DEF Blame, AttemptsAreMarked, Delegate
<1> QED
  BY <1>1, <1>2 DEF Blame

LEMMA PrepareBlame ==
  ASSUME TypeOK, Engine, Blame, NEW p \in Preps, Prepare(p), ~Crash(p) PROVE Blame'
<1> USE CountTypes
<1>t. /\ pc \in [Preps -> Labels] /\ at \in [Preps -> 1..(Len(Order) + 1)]
      /\ marker \in [Delegates -> {None} \cup Markers]
  BY DEF TypeOK, Labels
<1>d. pc[p] # "out" => Delegate(p) \in Delegates
  BY DelegateType DEF Engine, AtADelegate
<1>o. ~overlapped /\ Loading(p) => \A q \in Preps : Loading(q) => q = p
  BY DEF Engine, OneLoads
<1>1. CASE TestEngine(p) \/ Provision(p) \/ NativeOk(p) \/ NativeThrows(p) \/ Install(p)
  <2>1. /\ \A q \in Preps : q # p => pc'[q] = pc[q]
        /\ pc'[p] # "arm" /\ pc'[p] # pc[p]
        /\ pc'[p] \in {"init", "probe", "disarm"} <=> pc[p] \in {"init", "probe", "disarm"}
        /\ UNCHANGED <<at, marker, blamed, excused>>
    BY <1>1, <1>t
    DEF TestEngine, Provision, NativeOk, NativeThrows, Install, Goto, disk, history
  <2>2. overlapped => overlapped'
    BY <1>1 DEF TestEngine, Provision, NativeOk, NativeThrows, Install, history
  <2>3. \A q \in Preps : \A d \in Delegates : Inside(q, d)' <=> Inside(q, d)
    BY <2>1 DEF Inside, Delegate
  <2> QED
    BY <2>1, <2>2, <2>3, MoveBlame
<1>2. CASE CheckGuard(p)
  <2>0. /\ \A q \in Preps : q # p => pc'[q] = pc[q] /\ at'[q] = at[q]
        /\ pc[p] = "guard" /\ pc'[p] \in {"out", "guard", "arm"}
        /\ UNCHANGED <<excused, overlapped>> /\ Delegate(p) \in Delegates
    BY <1>2, <1>t, <1>d DEF CheckGuard, Goto
  <2>i. \A q \in Preps : \A d \in Delegates : Inside(q, d)' <=> Inside(q, d)
    BY <2>0 DEF Inside, Delegate
  <2>1. CASE Delegate(p) # CPU /\ Skipped(Delegate(p))
    <3>1. UNCHANGED <<marker, blamed>> /\ pc'[p] # "arm"
      BY <1>2, <1>t, <2>1 DEF CheckGuard, NeverSkipped, Goto
    <3> QED
      BY <2>0, <2>i, <3>1, MoveBlame
  <2>2. CASE ~(Delegate(p) # CPU /\ Skipped(Delegate(p)))
    <3>1. /\ blamed' = blamed \ {Delegate(p)} /\ at' = at
          /\ \A d \in Delegates \ {CPU} :
               marker'[d] = IF d = Delegate(p) THEN None ELSE marker[d]
      BY <1>2, <1>t, <2>0, <2>2 DEF CheckGuard, NeverSkipped, Delete
    <3>2. MarkersTell'
      BY <2>0, <2>i, <3>1 DEF Blame, MarkersTell
    <3>3. BlameIsMarked'
      BY <2>0, <3>1 DEF Blame, BlameIsMarked
    <3>4. AttemptsAreMarked'
      <4>1. \A q \in Preps : Inside(q, Delegate(p)) => overlapped
        BY <2>0, <1>o DEF Inside, Loading
      <4> QED
        BY <2>0, <2>i, <3>1, <4>1 DEF Blame, AttemptsAreMarked, Delegate
    <3> QED
      BY <3>2, <3>3, <3>4 DEF Blame
  <2> QED
    BY <2>1, <2>2
<1>3. CASE Arm(p)
  <2>0. /\ \A q \in Preps : pc'[q] = IF q = p THEN "init" ELSE pc[q]
        /\ pc[p] = "arm" /\ UNCHANGED <<at, blamed, overlapped>> /\ Delegate(p) \in Delegates
    BY <1>3, <1>t, <1>d DEF Arm, Goto
  <2>1. \/ /\ \A d \in Delegates : marker'[d] =
               IF d = Delegate(p) THEN [age |-> 0, exits |-> <<>>] ELSE marker[d]
           /\ excused' = excused \ {Delegate(p)}
        \/ /\ marker' = marker
           /\ excused' = excused \cup {Delegate(p)}
    BY <1>3, <1>t, <2>0 DEF Arm
  <2>2. [age |-> 0, exits |-> <<>>] # None
    <3>1. <<>> \in BoundedSeq(Reasons, MaxExits)
      <4>1. <<>> \in Seq(Reasons) /\ Len(<<>>) = 0
        BY EmptySeq
      <4>2. Len(<<>>) <= MaxExits
        BY <4>1, TranslatorAssumption
      <4> QED
        BY <4>1, <4>2, BoundedIsShort
    <3> QED
      BY <3>1, TranslatorAssumption DEF Markers
  <2>3. \A d \in Delegates : /\ Inside(p, d)' <=> d = Delegate(p)
                            /\ \A q \in Preps \ {p} : Inside(q, d)' <=> Inside(q, d)
    BY <2>0 DEF Inside, Delegate
  <2>4. Delegate(p) # CPU => Delegate(p) \notin blamed
    BY <2>0 DEF Blame, AttemptsAreMarked
  <2>5. MarkersTell'
    <3>1. \A d \in Delegates : ~Inside(p, d)
      BY <2>0 DEF Inside
    <3> QED
      BY <2>0, <2>1, <2>3, <3>1 DEF Blame, MarkersTell
  <2>6. BlameIsMarked'
    BY <2>0, <2>1, <2>4 DEF Blame, BlameIsMarked
  <2>7. AttemptsAreMarked'
    <3>1. \A q \in Preps : Inside(q, Delegate(p)) => overlapped
      BY <2>0, <1>o DEF Inside, Loading
    <3> QED
      BY <2>0, <2>1, <2>2, <2>3, <2>4, <3>1 DEF Blame, AttemptsAreMarked, Delegate
  <2> QED
    BY <2>5, <2>6, <2>7 DEF Blame
<1>4. CASE Attempted(p)
  <2>0. /\ \A q \in Preps : q # p => pc'[q] = pc[q] /\ at'[q] = at[q]
        /\ pc[p] = "disarm" /\ pc'[p] \in {"out", "guard", "install"}
        /\ UNCHANGED <<blamed, excused, overlapped>> /\ Delegate(p) \in Delegates
    BY <1>4, <1>t, <1>d DEF Attempted, Goto, history
  <2>1. \A d \in Delegates : marker'[d] = IF d = Delegate(p) THEN None ELSE marker[d]
    BY <1>4, <1>t DEF Attempted, Delete
  <2>2. \A d \in Delegates : /\ ~Inside(p, d)'
                            /\ \A q \in Preps \ {p} : Inside(q, d)' <=> Inside(q, d)
    BY <2>0 DEF Inside, Delegate
  <2>3. Inside(p, Delegate(p)) /\ \A d \in Delegates : Inside(p, d) => d = Delegate(p)
    BY <2>0 DEF Inside
  <2>4. MarkersTell'
    BY <2>0, <2>1, <2>2, <2>3 DEF Blame, MarkersTell
  <2>5. BlameIsMarked'
    BY <2>0, <2>1, <2>3 DEF Blame, BlameIsMarked, AttemptsAreMarked
  <2>6. AttemptsAreMarked'
    <3>1. \A q \in Preps \ {p} : Inside(q, Delegate(p)) => overlapped
      BY <2>0, <1>o DEF Inside, Loading
    <3> QED
      BY <2>0, <2>1, <2>2, <3>1 DEF Blame, AttemptsAreMarked, Delegate
  <2> QED
    BY <2>4, <2>5, <2>6 DEF Blame
<1> QED
  BY <1>1, <1>2, <1>3, <1>4 DEF Prepare

\* The process dies: whoever was inside is blamed, and the marker tells it.
LEMMA DieBlame ==
  ASSUME TypeOK, Engine, Blame, NEW reason \in Reasons, Die(reason) PROVE Blame'
<1> USE CountTypes
<1> DEFINE inside == {d \in Delegates : \E p \in Preps : Inside(p, d)}
           full == {d \in Delegates : marker[d] # None /\ Len(marker[d].exits) = MaxExits}
<1>1. /\ blamed' = IF reason = "lowMemory" THEN blamed ELSE blamed \cup inside
      /\ excused' = excused \cup full \cup (IF overlapped THEN inside ELSE {})
      /\ \A p \in Preps : pc'[p] = "out"
  BY DEF Die, NewProcess
<1>2. \A p \in Preps : \A d \in Delegates : ~Inside(p, d)'
  BY <1>1 DEF Inside
<1>3. AttemptsAreMarked'
  BY <1>1, <1>2 DEF AttemptsAreMarked
<1>4. ASSUME NEW d \in Delegates \ {CPU}, marker'[d] # None
      PROVE  /\ marker[d] # None /\ marker'[d].exits # <<>>
             /\ marker[d].exits = <<>> => Head(marker'[d].exits) = reason
             /\ marker[d].exits # <<>> /\ d \notin full =>
                  Head(marker'[d].exits) = Head(marker[d].exits)
  <2>1. /\ marker[d] # None /\ marker[d] \in Markers
        /\ marker'[d] = [age |-> marker[d].age,
                        exits |-> Remember(marker[d].exits, reason)]
    BY <1>4, DieTells
  <2>2. marker'[d].exits = Remember(marker[d].exits, reason)
    BY <2>1
  <2>3. marker[d].exits \in BoundedSeq(Reasons, MaxExits)
    BY <2>1 DEF Markers
  <2> QED
    BY <2>1, <2>2, <2>3, RememberTells
<1>5. MarkersTell'
  <2> SUFFICES ASSUME NEW d \in Delegates \ {CPU}, marker'[d] # None,
                      Head(marker'[d].exits) # "lowMemory"
               PROVE  d \in blamed' \cup excused'
    BY <1>4 DEF MarkersTell
  <2>1. CASE marker[d].exits = <<>>
    BY <2>1, <1>1, <1>4 DEF Blame, MarkersTell
  <2>2. CASE marker[d].exits # <<>>
    BY <2>2, <1>1, <1>4 DEF Blame, MarkersTell
  <2> QED
    BY <2>1, <2>2
<1>6. BlameIsMarked'
  <2> SUFFICES ASSUME NEW d \in Delegates \ {CPU}, d \in blamed' \ excused'
               PROVE  /\ marker'[d] # None /\ marker'[d].exits # <<>>
                      /\ Head(marker'[d].exits) # "lowMemory"
    BY DEF BlameIsMarked
  <2>1. d \notin excused /\ d \notin full /\ (overlapped => d \notin inside)
    BY <1>1
  <2>2. ASSUME marker[d] # None PROVE marker'[d] # None
    <3>1. marker[d] \in Markers /\ marker'[d] = [age |-> marker[d].age,
                        exits |-> Remember(marker[d].exits, reason)]
      BY <2>2, DieTells
    <3>2. marker'[d] \in Markers
      BY <3>1, RememberTells DEF Markers
    <3> QED
      BY <3>2, TranslatorAssumption
  <2>3. CASE d \in blamed
    BY <2>1, <2>2, <2>3, <1>4 DEF Blame, BlameIsMarked
  <2>4. CASE d \notin blamed
    <3>1. reason # "lowMemory" /\ d \in inside
      BY <2>4, <1>1
    <3>2. marker[d] # None /\ marker[d].exits = <<>>
      BY <2>1, <3>1 DEF Blame, AttemptsAreMarked
    <3> QED
      BY <2>2, <3>1, <3>2, <1>4
  <2> QED
    BY <2>3, <2>4
<1> QED
  BY <1>3, <1>5, <1>6 DEF Blame

LEMMA NextBlame == TypeOK /\ Engine /\ Blame /\ [Next]_vars => Blame'
<1> SUFFICES ASSUME TypeOK, Engine, Blame, [Next]_vars PROVE Blame'
  OBVIOUS
<1>1. ASSUME NEW p \in Preps, Call(p) PROVE Blame'
  <2>1. /\ \A q \in Preps : q # p => pc'[q] = pc[q] /\ at'[q] = at[q]
        /\ pc[p] = "out" /\ pc'[p] = "test"
        /\ UNCHANGED <<marker, blamed, excused, overlapped>>
    BY <1>1, CountTypes DEF Call, Goto, TypeOK, disk, history
  <2>2. \A q \in Preps : \A d \in Delegates : Inside(q, d)' <=> Inside(q, d)
    BY <2>1 DEF Inside, Delegate
  <2> QED
    BY <2>1, <2>2, MoveBlame
<1>2. ASSUME NEW p \in Preps, Crash(p) PROVE Blame'
  BY <1>2, DieBlame DEF Crash, Reasons
<1>3. CASE Kill
  BY <1>3, DieBlame DEF Kill, Reasons
<1>4. CASE Tick
  <2>1. UNCHANGED <<pc, at, blamed, excused, overlapped>>
    BY <1>4 DEF Tick, prep
  <2>2. ASSUME NEW d \in Delegates
        PROVE  /\ marker'[d] # None <=> marker[d] # None
               /\ marker[d] # None => marker'[d].exits = marker[d].exits
    <3>1. CASE Young(d)
      <4>1. marker[d] \in Markers /\ marker[d].age \in 0..Ttl /\ marker[d].age < Ttl
        BY <3>1 DEF Young, TypeOK, Markers
      <4>2. marker'[d] = [marker[d] EXCEPT !.age = @ + 1]
        BY <1>4, <3>1 DEF Tick
      <4>3. marker'[d] \in Markers /\ marker'[d].exits = marker[d].exits
        BY <4>1, <4>2, CountTypes DEF Markers
      <4> QED
        BY <4>1, <4>3, TranslatorAssumption
    <3>2. CASE ~Young(d)
      BY <1>4, <3>2 DEF Tick
    <3> QED
      BY <3>1, <3>2
  <2> QED
    BY <2>1, <2>2 DEF Blame, MarkersTell, BlameIsMarked, AttemptsAreMarked, Inside, Delegate
<1>5. CASE \/ \E p \in Preps : CancelPrep(p)
           \/ \E u \in Users : Translate(u) \/ Inference(u)
           \/ Release \/ FreeEngine \/ Start \/ UNCHANGED vars
  <2>1. UNCHANGED <<pc, at, marker, blamed, excused, overlapped>>
    BY <1>5 DEF CancelPrep, Translate, Inference, Generate, Generated, Release,
                FreeEngine, Start, vars, disk, prep, history
  <2>2. \A q \in Preps : \A d \in Delegates : Inside(q, d)' <=> Inside(q, d)
    BY <2>1 DEF Inside, Delegate
  <2> QED
    BY <2>1, <2>2, MoveBlame
<1> QED
  BY <1>1, <1>2, <1>3, <1>4, <1>5, PrepareBlame DEF Next

-----------------------------------------------------------------------------
(* The theorems. *)

LEMMA InitIInv == Init => IInv
<1> SUFFICES ASSUME Init PROVE IInv
  OBVIOUS
<1>1. TypeOK
  BY InitTypes
<1>2. AtADelegate /\ LockedWhileUsed /\ EngineExists
  BY DEF Init, AtADelegate, LockedWhileUsed, EngineExists
<1>3. OneLoads /\ NoEngineLeaks
  BY DEF Init, OneLoads, NoEngineLeaks, Loading
<1>4. Blame
  BY DEF Init, Blame, MarkersTell, BlameIsMarked, AttemptsAreMarked, Inside
<1> QED
  BY <1>1, <1>2, <1>3, <1>4 DEF IInv, Engine

LEMMA Inductive == IInv /\ [Next]_vars => IInv'
  BY NextTypes, NextEngine, NextBlame DEF IInv, Engine

LEMMA Invariant == Spec => []IInv
  BY InitIInv, Inductive, PTL DEF Spec

\* Every variable has its type.
THEOREM TypeCorrect == Spec => []TypeOK
<1>1. IInv => TypeOK
  BY DEF IInv
<1> QED
  BY <1>1, Invariant, PTL

\* release() never frees the engine a translation generates on: both are under
\* inferenceLock, and the translation reads the engine again under it.
THEOREM EngineIsSafe == Spec => []EngineOutlivesItsUse
<1>1. IInv => EngineOutlivesItsUse
  BY DEF IInv, Engine, LockedWhileUsed, EngineExists, EngineOutlivesItsUse
<1> QED
  BY <1>1, Invariant, PTL

\* No path of the fallback chain, failed or cancelled, loses an engine.
THEOREM EnginesAreAccountedFor == Spec => []NoEngineLeaks
<1>1. IInv => NoEngineLeaks
  BY DEF IInv, Engine
<1> QED
  BY <1>1, Invariant, PTL

\* The guard in a step that asks it of a delegate other than the CPU.
LEMMA Asked ==
  ASSUME IInv, [Next]_vars, NEW p \in Preps, pc[p] = "guard",
         pc'[p] = "arm" \/ at'[p] > at[p]
  PROVE  CheckGuard(p)
<1>0. at[p] \in 1..(Len(Order) + 1)
  BY DEF IInv, TypeOK
<1>1. CASE UNCHANGED vars
  BY <1>0, <1>1, CountTypes DEF vars, prep
<1>2. ASSUME NEW q \in Preps, Call(q) \/ CancelPrep(q) PROVE FALSE
  <2>1. DOMAIN pc = Preps /\ DOMAIN at = Preps
    BY DEF IInv, TypeOK
  <2>2. pc'[p] = "guard" /\ at'[p] = at[p]
    <3>1. CASE Call(q)
      BY <2>1, <3>1 DEF Call, Goto
    <3>2. CASE CancelPrep(q)
      BY <3>2 DEF CancelPrep
    <3> QED
      BY <1>2, <3>1, <3>2
  <2>3. at[p] \in Int
    BY <1>0, CountTypes
  <2> QED
    BY <2>2, <2>3
<1>3. ASSUME NEW q \in Preps, Prepare(q), ~Crash(q) PROVE CheckGuard(p)
  BY <1>0, <1>3, CountTypes
  DEF Prepare, TestEngine, Provision, CheckGuard, Arm, NativeOk, NativeThrows,
      Attempted, Install, Goto, IInv, TypeOK
<1>4. ASSUME NEW q \in Preps, Crash(q) PROVE FALSE
  BY <1>0, <1>4, CountTypes DEF Crash, Die, NewProcess
<1>5. ASSUME Kill PROVE FALSE
  BY <1>0, <1>5, CountTypes DEF Kill, Die, NewProcess
<1>6. ASSUME NEW u \in Users, Translate(u) \/ Inference(u) PROVE FALSE
  BY <1>0, <1>6, CountTypes DEF Translate, Inference, Generate, Generated, prep
<1>7. ASSUME Release \/ FreeEngine \/ Start \/ Tick PROVE FALSE
  BY <1>0, <1>7, CountTypes DEF Release, FreeEngine, Start, Tick, prep
<1> QED
  BY <1>1, <1>2, <1>3, <1>4, <1>5, <1>6, <1>7 DEF Next

\* skipReason() keeps a delegate on which the process died from being tried
\* again before its marker has aged.
THEOREM DelegatesRest == Spec => DelegateRestsAfterItsCrash
<1>1. ASSUME IInv, [Next]_vars, NEW p \in Preps,
             pc[p] = "guard", pc'[p] = "arm", Delegate(p) # CPU
      PROVE  \/ Delegate(p) \notin blamed \ excused
             \/ marker[Delegate(p)] # None /\ ~Young(Delegate(p))
  <2>1. CheckGuard(p)
    BY <1>1, Asked
  <2>2. ~Skipped(Delegate(p))
    BY <1>1, <2>1 DEF CheckGuard, NeverSkipped, Goto, IInv, TypeOK
  <2>3. Delegate(p) \in Delegates \ {CPU}
    BY <1>1, DelegateType DEF IInv, Engine, AtADelegate
  <2> QED
    BY <2>2, <2>3, <1>1 DEF IInv, Blame, BlameIsMarked, Skipped
<1>2. IInv /\ [Next]_vars =>
        [\A p \in Preps :
           pc[p] = "guard" /\ pc'[p] = "arm" /\ Delegate(p) # CPU =>
             \/ Delegate(p) \notin blamed \ excused
             \/ marker[Delegate(p)] # None /\ ~Young(Delegate(p))]_vars
  BY <1>1
<1> QED
  BY <1>2, Invariant, PTL DEF Spec, DelegateRestsAfterItsCrash

\* skipReason() skips no delegate the process has not died on, for want of
\* anything but memory.
THEOREM SkipsAreEarned == Spec => SkipsAreDeserved
<1>1. ASSUME IInv, [Next]_vars, NEW p \in Preps, pc[p] = "guard", at'[p] > at[p]
      PROVE  Delegate(p) \in blamed \cup excused \/ OthersInside(p, Delegate(p))
  <2>1. CheckGuard(p)
    BY <1>1, Asked
  <2>2. at[p] \in 1..Len(Order) /\ Delegate(p) \in Delegates
    BY <1>1, DelegateType DEF IInv, Engine, AtADelegate
  <2>3. Delegate(p) # CPU /\ Skipped(Delegate(p))
    BY <1>1, <2>1, <2>2, CountTypes DEF CheckGuard, NeverSkipped
  <2>4. ~Inside(p, Delegate(p))
    BY <1>1 DEF Inside
  <2>5. PICK d \in Delegates \ {CPU} : d = Delegate(p)
    BY <2>2, <2>3
  <2>6. Skipped(d) /\ ~Inside(p, d)
    BY <2>3, <2>4, <2>5
  <2>7. marker[d] # None /\ (marker[d].exits # <<>> => Head(marker[d].exits) # "lowMemory")
    BY <2>6 DEF Skipped, Young
  <2>8. CASE marker[d].exits = <<>>
    <3>1. PICK q \in Preps : Inside(q, d)
      BY <1>1, <2>7, <2>8 DEF IInv, Blame, MarkersTell
    <3>2. q \in Preps \ {p} /\ Inside(q, Delegate(p))
      BY <2>5, <2>6, <3>1
    <3> QED
      BY <3>2 DEF OthersInside
  <2>9. CASE marker[d].exits # <<>>
    <3>1. d \in blamed \cup excused
      BY <1>1, <2>7, <2>9 DEF IInv, Blame, MarkersTell
    <3> QED
      BY <2>5, <3>1
  <2> QED
    BY <2>8, <2>9
<1>2. IInv /\ [Next]_vars =>
        [\A p \in Preps :
           pc[p] = "guard" /\ at'[p] > at[p] =>
             Delegate(p) \in blamed \cup excused \/ OthersInside(p, Delegate(p))]_vars
  BY <1>1
<1> QED
  BY <1>2, Invariant, PTL DEF Spec, SkipsAreDeserved

-----------------------------------------------------------------------------
(* HandoverTranslator *)

\* What the variables hold.
HandoverTypes ==
  /\ serves \subseteq PrepIds
  /\ current \in 0..MaxPreps
  /\ phase \in {"out", "racing", "deciding", "ready", "error", "cancelled"}
  /\ fast \in {"out", "running", "ready", "error", "cancelled"}
  /\ fastFor \in 0..MaxPreps
  /\ job \in [PrepIds -> {"out", "start", "loading", "loaded", "failed",
                        "warming", "warm", "done"}]
  /\ dropped \subseteq PrepIds
  /\ loaded \in BOOLEAN
  /\ primaryFor \in 0..MaxPreps
  /\ primaryReady \in BOOLEAN /\ usable \in BOOLEAN /\ isReleased \in BOOLEAN
  /\ sentence \in {"none", "fast", "primary"}

\* A sentence is open only after a preparation that ended well.
SentencesFollowReady ==
  /\ sentence # "none" => phase = "ready" /\ current # NoPrep /\ ~isReleased
  /\ sentence = "primary" => primaryReady
  /\ sentence = "fast" => fastFor = current

\* Where the session was told it is ready without the primary, the fast engine
\* has the pair.
FastHasThePair ==
  ~isReleased =>
    /\ fast = "ready" => fastFor = current
    /\ phase = "ready" /\ ~primaryReady => fastFor = current

\* What the primary says of itself was preceded by its load.
PrimaryWasLoaded ==
  /\ usable => primaryReady
  /\ \A p \in PrepIds : job[p] = "warm" => primaryReady
  /\ ~isReleased => (primaryReady => loaded)
  /\ ~isReleased => \A p \in PrepIds : job[p] \in {"loaded", "warming", "warm"} => loaded

\* Jobs of the preparations before were cancelled, and those to come have not
\* begun: no other job changes the pair of the primary.
OneJobLives ==
  /\ \A p \in PrepIds : p > current => job[p] = "out"
  /\ \A p \in PrepIds : p < current => p \in dropped
  /\ ~isReleased => \A p \in dropped : p < current

\* The primary has taken on the pair it serves once its job has begun.
PrimaryHasThePair ==
  ~isReleased /\ current # NoPrep /\ current \in serves /\ job[current] # "start" =>
    primaryFor = current

HandoverIInv ==
  /\ HandoverTypes /\ SentencesFollowReady /\ FastHasThePair /\ PrimaryWasLoaded
  /\ OneJobLives /\ PrimaryHasThePair

-----------------------------------------------------------------------------

LEMMA HandoverInitIInv == HandoverInit => HandoverIInv
<1> SUFFICES ASSUME HandoverInit PROVE HandoverIInv
  OBVIOUS
<1> USE HandoverAssumption DEF HandoverInit, PrepIds, NoPrep
<1>1. HandoverTypes
  <2>1. loaded \in BOOLEAN /\ primaryReady \in BOOLEAN /\ usable \in BOOLEAN /\ isReleased \in BOOLEAN
    OBVIOUS
  <2>2. serves \subseteq PrepIds /\ dropped \subseteq PrepIds
    OBVIOUS
  <2>3. current \in 0..MaxPreps /\ fastFor \in 0..MaxPreps /\ primaryFor \in 0..MaxPreps
    OBVIOUS
  <2>4. job \in [PrepIds -> {"out", "start", "loading", "loaded", "failed",
                          "warming", "warm", "done"}]
    OBVIOUS
  <2> QED
    BY <2>1, <2>2, <2>3, <2>4 DEF HandoverTypes
<1>2. SentencesFollowReady /\ FastHasThePair
  BY DEF SentencesFollowReady, FastHasThePair
<1>3. PrimaryWasLoaded
  BY DEF PrimaryWasLoaded
<1>4. OneJobLives /\ PrimaryHasThePair
  BY DEF OneJobLives, PrimaryHasThePair
<1> QED
  BY <1>1, <1>2, <1>3, <1>4 DEF HandoverIInv

LEMMA HandoverStutterIInv == HandoverIInv /\ UNCHANGED handoverVars => HandoverIInv'
  BY DEF handoverVars, quick, primary, flows, HandoverIInv, HandoverTypes, SentencesFollowReady,
         FastHasThePair, PrimaryWasLoaded, OneJobLives, PrimaryHasThePair

LEMMA PrepareModelIInv == ASSUME HandoverIInv, NEW p \in PrepIds, PrepareModel(p) PROVE HandoverIInv'
<1> USE HandoverAssumption DEF HandoverIInv, PrepareModel, JobGoes, flows, Asking, PrepIds, NoPrep
<1>1. HandoverTypes'
  BY DEF HandoverTypes
<1>2. SentencesFollowReady' /\ FastHasThePair'
  BY DEF HandoverTypes, SentencesFollowReady, FastHasThePair
<1>3. PrimaryWasLoaded'
  BY DEF HandoverTypes, PrimaryWasLoaded
<1>4. OneJobLives'
  <2>1. \A q \in PrepIds : q > p => job'[q] = "out"
    BY DEF HandoverTypes, OneJobLives
  <2>2. \A q \in PrepIds : q < p => q \in dropped'
    BY DEF HandoverTypes, OneJobLives
  <2>3. \A q \in dropped' : q < p
    BY DEF HandoverTypes, OneJobLives
  <2> QED
    BY <2>1, <2>2, <2>3 DEF OneJobLives
<1>5. PrimaryHasThePair'
  BY DEF HandoverTypes, PrimaryHasThePair
<1> QED
  BY <1>1, <1>2, <1>3, <1>4, <1>5

LEMMA AnswerIInv == HandoverIInv /\ (Preparation \/ Cancel) => HandoverIInv'
<1> SUFFICES ASSUME HandoverIInv, Preparation \/ Cancel PROVE HandoverIInv'
  OBVIOUS
<1> USE HandoverAssumption
    DEF HandoverIInv, Preparation, FastEnds, PrimaryUsable, PrimaryTerminal, Cancel,
        Asking, quick, primary, flows
<1>1. HandoverTypes'
  BY DEF HandoverTypes
<1>2. SentencesFollowReady' /\ FastHasThePair'
  BY DEF HandoverTypes, SentencesFollowReady, FastHasThePair, PrimaryWasLoaded
<1>3. PrimaryWasLoaded' /\ OneJobLives' /\ PrimaryHasThePair'
  BY DEF PrimaryWasLoaded, OneJobLives, PrimaryHasThePair
<1> QED
  BY <1>1, <1>2, <1>3

LEMMA FastIInv == HandoverIInv /\ Fast => HandoverIInv'
<1> SUFFICES ASSUME HandoverIInv, Fast PROVE HandoverIInv'
  OBVIOUS
<1> USE HandoverAssumption DEF HandoverIInv, Fast, FastReady, FastFails, primary, flows
<1>1. HandoverTypes'
  BY DEF HandoverTypes
<1>2. SentencesFollowReady' /\ FastHasThePair'
  BY DEF HandoverTypes, SentencesFollowReady, FastHasThePair
<1>3. PrimaryWasLoaded' /\ OneJobLives' /\ PrimaryHasThePair'
  BY DEF PrimaryWasLoaded, OneJobLives, PrimaryHasThePair
<1> QED
  BY <1>1, <1>2, <1>3

LEMMA PrimaryJobIInv == ASSUME HandoverIInv, NEW p \in PrepIds, PrimaryJob(p) PROVE HandoverIInv'
<1> USE HandoverAssumption DEF HandoverIInv, JobGoes, quick, flows, PrepIds, NoPrep
<1>1. CASE Begin(p)
  <2>1. HandoverTypes'
    BY <1>1 DEF Begin, HandoverTypes
  <2>2. SentencesFollowReady' /\ FastHasThePair' /\ PrimaryWasLoaded'
    BY <1>1 DEF Begin, HandoverTypes, SentencesFollowReady, FastHasThePair, PrimaryWasLoaded
  <2>3. p = current
    BY <1>1 DEF Begin, HandoverTypes, OneJobLives
  <2>4. OneJobLives'
    BY <1>1, <2>3 DEF Begin, HandoverTypes, OneJobLives
  <2>5. PrimaryHasThePair'
    BY <1>1, <2>3 DEF Begin, HandoverTypes, OneJobLives, PrimaryHasThePair
  <2> QED
    BY <2>1, <2>2, <2>4, <2>5
<1>2. CASE LoadOk(p) \/ LoadFails(p) \/ Loaded(p) \/ Failed(p)
  <2>1. HandoverTypes'
    <3>1. \E l \in {"loaded", "failed", "warm", "warming", "done"} :
            job' = [job EXCEPT ![p] = l]
      BY <1>2 DEF LoadOk, LoadFails, Loaded, Failed
    <3>2. job' \in [PrepIds -> {"out", "start", "loading", "loaded", "failed",
                             "warming", "warm", "done"}]
      BY <3>1 DEF HandoverTypes
    <3>3. /\ loaded' \in BOOLEAN
          /\ UNCHANGED <<serves, phase, current, fast, fastFor, dropped, primaryFor,
                         primaryReady, usable, isReleased, sentence>>
      BY <1>2 DEF LoadOk, LoadFails, Loaded, Failed, HandoverTypes
    <3> QED
      BY <3>2, <3>3 DEF HandoverTypes
  <2>2. SentencesFollowReady' /\ FastHasThePair'
    BY <1>2 DEF LoadOk, LoadFails, Loaded, Failed, HandoverTypes, SentencesFollowReady,
                FastHasThePair
  <2>3. PrimaryWasLoaded'
    BY <1>2 DEF LoadOk, LoadFails, Loaded, Failed, HandoverTypes, PrimaryWasLoaded
  <2>4. OneJobLives'
    BY <1>2 DEF LoadOk, LoadFails, Loaded, Failed, HandoverTypes, OneJobLives
  <2>5. PrimaryHasThePair'
    BY <1>2 DEF LoadOk, LoadFails, Loaded, Failed, HandoverTypes, OneJobLives, PrimaryHasThePair
  <2> QED
    BY <2>1, <2>2, <2>3, <2>4, <2>5
<1>3. CASE WarmedUp(p) \/ Announce(p)
  <2>1. HandoverTypes'
    <3>1. CASE WarmedUp(p)
      BY <1>3, <3>1 DEF WarmedUp, HandoverTypes
    <3>2. CASE Announce(p)
      BY <1>3, <3>2 DEF Announce, HandoverTypes
    <3> QED
      BY <1>3, <3>1, <3>2
  <2>2. SentencesFollowReady' /\ FastHasThePair'
    BY <1>3 DEF WarmedUp, Announce, HandoverTypes, SentencesFollowReady, FastHasThePair
  <2>3. PrimaryWasLoaded'
    BY <1>3 DEF WarmedUp, Announce, HandoverTypes, PrimaryWasLoaded
  <2>4. OneJobLives'
    BY <1>3 DEF WarmedUp, Announce, HandoverTypes, OneJobLives
  <2>5. PrimaryHasThePair'
    BY <1>3 DEF WarmedUp, Announce, HandoverTypes, OneJobLives, PrimaryHasThePair
  <2> QED
    BY <2>1, <2>2, <2>3, <2>4, <2>5
<1>4. CASE Unwind(p)
  <2>1. HandoverTypes'
    BY <1>4 DEF Unwind, HandoverTypes
  <2>2. SentencesFollowReady' /\ FastHasThePair' /\ PrimaryWasLoaded'
    BY <1>4 DEF Unwind, HandoverTypes, SentencesFollowReady, FastHasThePair, PrimaryWasLoaded
  <2>3. OneJobLives'
    BY <1>4 DEF Unwind, HandoverTypes, OneJobLives
  <2>4. PrimaryHasThePair'
    BY <1>4 DEF Unwind, HandoverTypes, OneJobLives, PrimaryHasThePair
  <2> QED
    BY <2>1, <2>2, <2>3, <2>4
<1> QED
  BY <1>1, <1>2, <1>3, <1>4 DEF PrimaryJob

LEMMA UseIInv == HandoverIInv /\ (OpenSegment \/ CloseSegment \/ ReleaseBoth) => HandoverIInv'
<1> SUFFICES ASSUME HandoverIInv, OpenSegment \/ CloseSegment \/ ReleaseBoth PROVE HandoverIInv'
  OBVIOUS
<1> USE HandoverAssumption DEF HandoverIInv, quick, primary, flows
<1>1. CASE OpenSegment \/ CloseSegment
  <2> USE DEF OpenSegment, CloseSegment
  <2>1. HandoverTypes' /\ SentencesFollowReady'
    BY <1>1 DEF HandoverTypes, SentencesFollowReady, FastHasThePair
  <2>2. FastHasThePair' /\ PrimaryWasLoaded'
    BY <1>1 DEF FastHasThePair, PrimaryWasLoaded
  <2>3. OneJobLives' /\ PrimaryHasThePair'
    BY <1>1 DEF OneJobLives, PrimaryHasThePair
  <2> QED
    BY <2>1, <2>2, <2>3
<1>2. CASE ReleaseBoth
  <2> USE DEF ReleaseBoth, Asking, NoPrep
  <2>1. HandoverTypes'
    <3>1. phase' \in {"out", "racing", "deciding", "ready", "error", "cancelled"}
      BY <1>2 DEF HandoverTypes
    <3>2. fast' \in {"out", "running", "ready", "error", "cancelled"}
      BY <1>2 DEF HandoverTypes
    <3>3. fastFor' \in 0..MaxPreps /\ dropped' \subseteq PrepIds /\ sentence' = "none"
      BY <1>2
    <3>4. loaded' = FALSE /\ isReleased' = TRUE
      BY <1>2
    <3>5. UNCHANGED <<serves, current, job, primaryFor, primaryReady, usable>>
      BY <1>2
    <3> QED
      BY <3>1, <3>2, <3>3, <3>4, <3>5 DEF HandoverTypes
  <2>2. SentencesFollowReady' /\ FastHasThePair' /\ PrimaryWasLoaded'
    BY <1>2 DEF SentencesFollowReady, FastHasThePair, PrimaryWasLoaded
  <2>3. OneJobLives' /\ PrimaryHasThePair'
    BY <1>2 DEF OneJobLives, PrimaryHasThePair, PrepIds
  <2> QED
    BY <2>1, <2>2, <2>3
<1> QED
  BY <1>1, <1>2

LEMMA HandoverNextIInv == HandoverIInv /\ [HandoverNext]_handoverVars => HandoverIInv'
  BY HandoverStutterIInv, PrepareModelIInv, AnswerIInv, FastIInv, PrimaryJobIInv, UseIInv DEF HandoverNext

\* A sentence is translated by an engine that is ready for the pair the session
\* was last prepared for (openSegment of the hand-over), however many
\* preparations came before and whatever they left behind.
THEOREM SentencesAreServed == HandoverSpec => []SentencesHaveTheirEngine
<1>1. HandoverIInv => SentencesHaveTheirEngine
  BY DEF HandoverIInv, HandoverTypes, SentencesFollowReady, PrimaryWasLoaded, PrimaryHasThePair,
         SentencesHaveTheirEngine
<1> QED
  BY <1>1, HandoverInitIInv, HandoverNextIInv, PTL DEF HandoverSpec
=============================================================================
