------------------------- MODULE LiteRtLmTranslator -------------------------
(***************************************************************************)
(* The on-device language model: preparing it on one of several compute    *)
(* delegates under a crash guard that survives the process, using it, and  *)
(* releasing it.                                                           *)
(*                                                                         *)
(* The process can die in any state: in native code when a delegate        *)
(* crashes, or killed from outside, for memory or for another reason.  The *)
(* markers and the model file are on disk; everything else starts anew.    *)
(* Left out: language pairs, prompts and the conversation of a sentence,   *)
(* whose pieces take the same lock as a translation does.                  *)
(***************************************************************************)
EXTENDS Naturals, Sequences, SequencesExt

CONSTANTS
  Order,       \* delegateOrder(): the delegates, CPU the last resort
  CPU,         \* the delegate that is never skipped
  Outcomes,    \* what init and probe of each delegate may do on this device
  Preps,       \* preparations that may be under way together
  Users,       \* coroutines that translate
  Ttl,         \* DEFAULT_TTL_MS, in ticks of the clock
  MaxExits,    \* MAX_EXITS, what the guard asks the platform for
  None,        \* null
  MaxFaults    \* bound: kills, passing of time, failed writes, downloads

Delegates == Range(Order)
Reasons == {"crash", "lowMemory", "other"}
Engines == Preps \X Delegates
Markers == [age : 0..Ttl, exits : BoundedSeq(Reasons, MaxExits)]

ASSUME TranslatorAssumption ==
  /\ Order \in Seq(Delegates) /\ Order # <<>> /\ IsInjective(Order)
  /\ CPU \in Delegates
  /\ Outcomes \in [Delegates -> SUBSET {"ok", "throws", "crashes"}]
  /\ Ttl \in Nat \ {0} /\ MaxExits \in Nat \ {0} /\ MaxFaults \in Nat
  /\ None \notin Engines \cup Users \cup Markers

VARIABLES
  \* on disk
  marker,      \* of each delegate: None, or a crash marker with its age in
               \* ticks, Ttl at most, and the exits since it was written that
               \* the platform remembers, oldest first
  proven,      \* delegates that have passed the probe on this OS build
  \* in the process
  up,          \* whether it runs
  engine,      \* the engine in use, or None
  lock,        \* who holds inferenceLock, or None
  released,    \* release(): "no", "called", "done"
  pc, at,      \* where a preparation is, and at which delegate of the order
  cancelled,   \* preparations whose coroutine is cancelled
  user,        \* "out", "waiting", "generating"
  using,       \* the engine a user is generating on
  open,        \* native engines that exist
  \* history
  blamed,      \* delegates on which the process died, not for want of memory
  excused,     \* delegates of whose last attempt the guard cannot know
  overlapped,  \* whether two preparations have loaded together
  faults

disk == <<marker, proven>>
prep == <<pc, at, cancelled>>
users == <<user, using>>
history == <<blamed, excused, overlapped, faults>>
vars == <<disk, up, engine, lock, released, prep, users, open, history>>

NewProcess ==
  /\ engine' = None /\ lock' = None /\ released' = "no"
  /\ pc' = [p \in Preps |-> "out"] /\ at' = [p \in Preps |-> 1]
  /\ cancelled' = {}
  /\ user' = [u \in Users |-> "out"] /\ using' = [u \in Users |-> None]
  /\ open' = {} /\ overlapped' = FALSE

Init ==
  /\ marker = [d \in Delegates |-> None]
  /\ proven = {}
  /\ up = TRUE
  /\ engine = None /\ lock = None /\ released = "no"
  /\ pc = [p \in Preps |-> "out"] /\ at = [p \in Preps |-> 1]
  /\ cancelled = {}
  /\ user = [u \in Users |-> "out"] /\ using = [u \in Users |-> None]
  /\ open = {} /\ overlapped = FALSE
  /\ blamed = {} /\ excused = {} /\ faults = 0

Goto(p, l) == pc' = [pc EXCEPT ![p] = l]
Delegate(p) == Order[at[p]]

\* A preparation between the arm and the disarm of a delegate.
Inside(p, d) == pc[p] \in {"init", "probe", "disarm"} /\ Delegate(p) = d
OthersInside(p, d) == \E q \in Preps \ {p} : Inside(q, d)
Loading(p) == pc[p] \in {"space", "guard", "arm", "init", "probe", "disarm", "install"}

Fault == faults < MaxFaults /\ faults' = faults + 1

-----------------------------------------------------------------------------
(* DelegateCrashGuard.                                                     *)

\* skipReason() # null, where the marker is not deleted.
Young(d) == marker[d] # None /\ marker[d].age < Ttl

\* Mutant of Skipped: the newest exit decides, not the first.
SkippedByTheLastExit(d) ==
  /\ Young(d)
  /\ ~(marker[d].exits # <<>> /\ Last(marker[d].exits) = "lowMemory")

\* Mutant of Skipped: the record of exits is not asked.
SkippedForAnyExit(d) == Young(d)

Skipped(d) ==
  /\ Young(d)
  /\ ~(marker[d].exits # <<>> /\ Head(marker[d].exits) = "lowMemory")

Delete(d) == marker' = [marker EXCEPT ![d] = None]

\* Mutant of NeverSkipped: every delegate can be skipped.
NothingIsNeverSkipped(d) == FALSE

\* skipReason() is not asked about the last resort.
NeverSkipped(d) == d = CPU

\* skipReason(), then arm(); CPU is armed too but never skipped.
CheckGuard(p) ==
  /\ pc[p] = "guard"
  /\ IF ~NeverSkipped(Delegate(p)) /\ Skipped(Delegate(p))
     THEN /\ at' = [at EXCEPT ![p] = @ + 1]
          /\ Goto(p, IF at[p] < Len(Order) THEN "guard" ELSE "out")
          /\ UNCHANGED <<marker, blamed>>
     ELSE /\ blamed' = blamed \ {Delegate(p)}
          /\ IF NeverSkipped(Delegate(p)) THEN UNCHANGED marker ELSE Delete(Delegate(p))
          /\ Goto(p, "arm")
          /\ UNCHANGED at
  /\ UNCHANGED <<proven, up, engine, lock, released,
                 cancelled, users, open, excused, overlapped, faults>>

\* A write that fails is ignored.
Arm(p) ==
  LET d == Delegate(p) IN
  /\ pc[p] = "arm"
  /\ \/ /\ marker' = [marker EXCEPT ![d] = [age |-> 0, exits |-> <<>>]]
        /\ excused' = excused \ {d}
        /\ UNCHANGED faults
     \/ /\ Fault
        /\ excused' = excused \cup {d}
        /\ UNCHANGED marker
  /\ open' = open \cup {<<p, d>>}
  /\ Goto(p, "init")
  /\ UNCHANGED <<proven, up, engine, lock, released, at, cancelled,
                 users, blamed, overlapped>>

-----------------------------------------------------------------------------
(* prepareModel.                                                           *)

\* The session calls it again when it failed, and not after release().
Call(p) ==
  /\ up /\ pc[p] = "out" /\ released = "no"
  /\ Goto(p, "test")
  /\ at' = [at EXCEPT ![p] = 1]
  /\ cancelled' = cancelled \ {p}
  /\ UNCHANGED <<disk, up, engine, lock, released, users, open, history>>

\* A cancelled flow ends at its next emit.
TestEngine(p) ==
  /\ pc[p] = "test"
  /\ Goto(p, IF p \in cancelled \/ engine # None THEN "out" ELSE "space")
  /\ overlapped' = (overlapped \/ \E q \in Preps \ {p} : pc'[p] = "space" /\ Loading(q))
  /\ UNCHANGED <<disk, up, engine, lock, released, at, cancelled, users, open,
                 blamed, excused, faults>>

\* insufficientSpace, which asks even when the file is there, and the download.
Provision(p) ==
  /\ pc[p] = "space"
  /\ \/ /\ Goto(p, IF p \in cancelled THEN "out" ELSE "guard")
        /\ UNCHANGED faults
     \/ /\ Fault
        /\ Goto(p, "out")
  /\ UNCHANGED <<disk, up, engine, lock, released, at,
                 cancelled, users, open, blamed, excused, overlapped>>

\* Engine.initialize(), and the probe unless it has been passed before.
NativeOk(p) ==
  /\ pc[p] \in {"init", "probe"}
  /\ "ok" \in Outcomes[Delegate(p)]
  /\ Goto(p, IF pc[p] = "init" /\ Delegate(p) \notin proven
             THEN "probe" ELSE "disarm")
  /\ proven' = IF pc[p] = "probe" THEN proven \cup {Delegate(p)} ELSE proven
  /\ UNCHANGED <<marker, up, engine, lock, released, at,
                 cancelled, users, open, history>>

\* The candidate is closed when it throws.
NativeThrows(p) ==
  /\ pc[p] \in {"init", "probe"}
  /\ "throws" \in Outcomes[Delegate(p)]
  /\ open' = open \ {<<p, Delegate(p)>>}
  /\ Goto(p, "disarm")
  /\ UNCHANGED <<disk, up, engine, lock, released, at, cancelled, users, history>>

\* Mutant of Attempted: a cancelled preparation drops its engine.
AttemptedAndLeaked(p) ==
  /\ pc[p] = "disarm"
  /\ Delete(Delegate(p))
  /\ IF <<p, Delegate(p)>> \in open /\ p \notin cancelled
     THEN Goto(p, "install") /\ UNCHANGED at
     ELSE /\ at' = [at EXCEPT ![p] = @ + 1]
          /\ Goto(p, IF at[p] < Len(Order) THEN "guard" ELSE "out")
  /\ UNCHANGED <<proven, up, engine, lock, released,
                 cancelled, users, open, history>>

\* guard.disarm(), whatever the outcome; the next delegate, if there is one.
Attempted(p) ==
  /\ pc[p] = "disarm"
  /\ Delete(Delegate(p))
  /\ IF <<p, Delegate(p)>> \in open
     THEN Goto(p, "install") /\ UNCHANGED at
     ELSE /\ at' = [at EXCEPT ![p] = @ + 1]
          /\ Goto(p, IF at[p] < Len(Order) THEN "guard" ELSE "out")
  /\ UNCHANGED <<proven, up, engine, lock, released,
                 cancelled, users, open, history>>

\* inferenceLock.withLock { engine = created }: a cancelled coroutine takes a
\* free lock all the same, but does not wait for one.
Install(p) ==
  /\ pc[p] = "install"
  /\ \/ /\ lock = None
        /\ engine' = <<p, Delegate(p)>>
     \/ /\ lock # None /\ p \in cancelled
        /\ UNCHANGED engine
  /\ Goto(p, "out")
  /\ UNCHANGED <<disk, up, lock, released, at, cancelled, users, open, history>>

\* The session cancels a preparation to start another.
CancelPrep(p) ==
  /\ pc[p] # "out"
  /\ p \notin cancelled
  /\ Fault
  /\ cancelled' = cancelled \cup {p}
  /\ UNCHANGED <<disk, up, engine, lock, released, pc, at, users, open,
                 blamed, excused, overlapped>>

-----------------------------------------------------------------------------
(* translate and release.                                                  *)

\* check(engine != null), outside the lock.
Translate(u) ==
  /\ up /\ user[u] = "out" /\ engine # None /\ released = "no"
  /\ user' = [user EXCEPT ![u] = "waiting"]
  /\ UNCHANGED <<disk, up, engine, lock, released, prep, using, open, history>>

\* Under the lock the engine is read again: null is an exception.
Generate(u) ==
  /\ user[u] = "waiting"
  /\ lock = None
  /\ IF engine = None
     THEN /\ user' = [user EXCEPT ![u] = "out"]
          /\ UNCHANGED <<lock, using>>
     ELSE /\ user' = [user EXCEPT ![u] = "generating"]
          /\ lock' = u
          /\ using' = [using EXCEPT ![u] = engine]
  /\ UNCHANGED <<disk, up, engine, released, prep, open, history>>

Generated(u) ==
  /\ user[u] = "generating"
  /\ user' = [user EXCEPT ![u] = "out"]
  /\ lock' = None
  /\ using' = [using EXCEPT ![u] = None]
  /\ UNCHANGED <<disk, up, engine, released, prep, open, history>>

\* SublySession.close(): the scope is cancelled, then release() is called.
Release ==
  /\ up /\ released = "no"
  /\ released' = "called"
  /\ cancelled' = {p \in Preps : pc[p] # "out"}
  /\ UNCHANGED <<disk, up, engine, lock, pc, at, users, open, history>>

\* Mutant of FreeEngine: it does not take the lock.
FreeEngineNow ==
  /\ released = "called"
  /\ open' = open \ {engine}
  /\ engine' = None
  /\ released' = "done"
  /\ UNCHANGED <<disk, up, lock, prep, users, history>>

FreeEngine ==
  /\ released = "called"
  /\ lock = None
  /\ open' = open \ {engine}
  /\ engine' = None
  /\ released' = "done"
  /\ UNCHANGED <<disk, up, lock, prep, users, history>>

-----------------------------------------------------------------------------
(* The platform.                                                           *)

\* The process dies: the platform records the exit, newest MaxExits at most.
Die(reason) ==
  LET inside == {d \in Delegates : \E p \in Preps : Inside(p, d)}
      marked == {d \in Delegates : marker[d] # None}
      full == {d \in marked : Len(marker[d].exits) = MaxExits}
      more(d) == Append(IF d \in full THEN Tail(marker[d].exits)
                                      ELSE marker[d].exits, reason)
  IN
  /\ up /\ up' = FALSE
  /\ marker' = [d \in Delegates |->
                  IF d \in marked THEN [marker[d] EXCEPT !.exits = more(d)] ELSE None]
  /\ excused' = excused \cup full \cup (IF overlapped THEN inside ELSE {})
  /\ blamed' = IF reason = "lowMemory" THEN blamed ELSE blamed \cup inside
  /\ NewProcess
  /\ UNCHANGED proven

Crash(p) ==
  /\ pc[p] \in {"init", "probe"}
  /\ "crashes" \in Outcomes[Delegate(p)]
  /\ Die("crash")
  /\ UNCHANGED faults

Kill == Fault /\ \E reason \in {"lowMemory", "other"} : Die(reason)

Start ==
  /\ ~up /\ up' = TRUE
  /\ UNCHANGED <<disk, engine, lock, released, prep, users, open, history>>

Tick ==
  /\ Fault
  /\ marker' = [d \in Delegates |->
                  IF Young(d) THEN [marker[d] EXCEPT !.age = @ + 1] ELSE marker[d]]
  /\ UNCHANGED <<proven, up, engine, lock, released,
                 prep, users, open, blamed, excused, overlapped>>

-----------------------------------------------------------------------------
Prepare(p) ==
  \/ TestEngine(p) \/ Provision(p) \/ CheckGuard(p) \/ Arm(p)
  \/ NativeOk(p) \/ NativeThrows(p) \/ Crash(p) \/ Attempted(p) \/ Install(p)

Inference(u) == Generate(u) \/ Generated(u)

Next ==
  \/ \E p \in Preps : Call(p) \/ Prepare(p) \/ CancelPrep(p)
  \/ \E u \in Users : Translate(u) \/ Inference(u)
  \/ Release \/ FreeEngine \/ Kill \/ Start \/ Tick

Spec == Init /\ [][Next]_vars

\* Native calls return, the app is started again and asks for the model again;
\* nobody has to cancel, release or translate.
FairSpec ==
  /\ Spec
  /\ \A p \in Preps : WF_vars(Prepare(p)) /\ WF_vars(Call(p))
  /\ \A u \in Users : WF_vars(Inference(u))
  /\ WF_vars(FreeEngine) /\ WF_vars(Start)

-----------------------------------------------------------------------------
(* Properties.                                                             *)

\* Every variable has its type.
TypeOK ==
  /\ proven \subseteq Delegates
  /\ marker \in [Delegates -> {None} \cup Markers]
  /\ up \in BOOLEAN
  /\ engine \in Engines \cup {None} /\ lock \in Users \cup {None}
  /\ released \in {"no", "called", "done"}
  /\ pc \in [Preps -> {"out", "test", "space", "guard", "arm", "init", "probe",
                       "disarm", "install"}]
  /\ at \in [Preps -> 1..(Len(Order) + 1)]
  /\ cancelled \subseteq Preps
  /\ user \in [Users -> {"out", "waiting", "generating"}]
  /\ using \in [Users -> Engines \cup {None}]
  /\ open \subseteq Engines
  /\ blamed \subseteq Delegates /\ excused \subseteq Delegates
  /\ overlapped \in BOOLEAN /\ faults \in 0..MaxFaults

\* `The engine is never freed mid-inference', whenever release() is called.
EngineOutlivesItsUse == \A u \in Users : using[u] # None => using[u] \in open

\* An engine that exists is the one in use or the candidate of a preparation:
\* none of some gigabytes is lost on a path that fails or is cancelled.  This
\* is so while one preparation loads at a time and until release().
NoEngineLeaks ==
  ~overlapped /\ released = "no" =>
    open \subseteq {engine} \cup {<<p, Delegate(p)>> : p \in
      {q \in Preps : pc[q] \in {"init", "probe", "disarm", "install"}}}

\* `The next launch skips that delegate instead of crashing again': once the
\* process has died on a delegate it rests until its marker has aged, whatever
\* the process died of since.  Not if the marker could not be written, was
\* another preparation's too, or the platform no longer knows the exit.
DelegateRestsAfterItsCrash ==
  [][\A p \in Preps :
       pc[p] = "guard" /\ pc'[p] = "arm" /\ Delegate(p) # CPU =>
         \/ Delegate(p) \notin blamed \ excused
         \/ marker[Delegate(p)] # None /\ ~Young(Delegate(p))]_vars

\* `Not every death is the delegate's fault': a delegate is only skipped if the
\* process died on it, and not for want of memory.  A preparation that overlaps
\* another skips the delegate the other is still initialising.
SkipsAreDeserved ==
  [][\A p \in Preps :
       pc[p] = "guard" /\ at'[p] > at[p] =>
         Delegate(p) \in blamed \cup excused \/ OthersInside(p, Delegate(p))]_vars

\* A device whose first delegates throw, crash the process or are killed still
\* gets its translator, if the CPU works and the app keeps asking.
TranslatorAtLast ==
  engine = None ~> engine # None \/ released # "no" \/ overlapped
=============================================================================
