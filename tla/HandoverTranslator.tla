------------------------- MODULE HandoverTranslator -------------------------
(***************************************************************************)
(* A fast translator until a better one, which takes long to load, is      *)
(* ready: both are prepared at once, and a sentence is translated by the   *)
(* engine that was ready when it began.                                    *)
(*                                                                         *)
(* A preparation is for a pair of languages of its own.  The session       *)
(* prepares when no pipeline runs, after the preparation before has ended  *)
(* or was cancelled.  The engines are those of the SDK as the translator   *)
(* sees them: ML Kit closes one client and opens the next, with a time     *)
(* limit on its download; LiteRT-LM refuses a pair it does not serve and   *)
(* otherwise takes it on at once, loads if it is not loaded, and cannot be *)
(* cancelled while it does.                                                *)
(***************************************************************************)
EXTENDS Naturals

CONSTANT MaxPreps  \* bound: collections of prepareModel

ASSUME HandoverAssumption == MaxPreps \in Nat

PrepIds == 1 .. MaxPreps
NoPrep == 0

VARIABLES
  serves,        \* the preparations whose pair the primary serves
  current,       \* the last preparation, whose primary job is primaryJob, or NoPrep
  phase,            \* where it is; "ready", "error": what it has sent
  fast,          \* its fastJob and fastResult
  fastFor,       \* the preparation whose pair the fast engine translates
  job,           \* the primary job of a preparation
  dropped,       \* those whose primary job was cancelled
  loaded,        \* whether the primary has its model
  primaryFor,    \* the preparation whose pair the primary translates
  primaryReady,
  usable,        \* primaryUsableFlow
  primaryState,
  isReleased,
  sentence       \* the engine of the open sentence

flows == <<primaryReady, usable, primaryState>>
primary == <<job, dropped, loaded, primaryFor>>
quick == <<fast, fastFor>>
handoverVars == <<serves, phase, current, quick, primary, flows, isReleased, sentence>>

HandoverInit ==
  /\ serves \in SUBSET PrepIds
  /\ phase = "out" /\ current = NoPrep
  /\ fast = "out" /\ fastFor = NoPrep
  /\ job = [p \in PrepIds |-> "out"] /\ dropped = {}
  /\ loaded = FALSE /\ primaryFor = NoPrep
  /\ primaryReady = FALSE /\ usable = FALSE /\ primaryState = "null"
  /\ isReleased = FALSE /\ sentence = "none"

JobGoes(p, label) == job' = [job EXCEPT ![p] = label]
Asking == phase \in {"racing", "deciding"}

-----------------------------------------------------------------------------
(* prepareModel *)

\* startPrimaryInBackground, then the fast engine in a job of its own.
PrepareModel(p) ==
  /\ p = current + 1 /\ ~isReleased /\ sentence = "none"
  /\ ~Asking
  /\ phase' = "racing" /\ current' = p
  /\ dropped' = dropped \cup ({current} \ {NoPrep})
  /\ JobGoes(p, "start")
  /\ fast' = "running" /\ fastFor' = NoPrep
  /\ UNCHANGED <<serves, loaded, primaryFor, flows, isReleased, sentence>>

\* select: the fast engine has ended first.  If it failed, the primary decides.
FastEnds ==
  /\ phase = "racing" /\ fast \in {"ready", "error"}
  /\ phase' = IF fast = "ready" THEN "ready" ELSE "deciding"
  /\ UNCHANGED <<serves, current, quick, primary, flows, isReleased, sentence>>

\* select: the primary is usable first; the fast engine is not waited for.
PrimaryUsable ==
  /\ phase = "racing" /\ usable
  /\ phase' = "ready"
  /\ fast' = IF fast = "running" THEN "cancelled" ELSE fast
  /\ UNCHANGED <<serves, current, fastFor, primary, flows, isReleased, sentence>>

PrimaryTerminal ==
  /\ phase = "deciding" /\ (usable \/ primaryState = "error")
  /\ phase' = IF usable THEN "ready" ELSE "error"
  /\ UNCHANGED <<serves, current, quick, primary, flows, isReleased, sentence>>

\* The session gives a preparation up.  The primary's goes on.
Cancel ==
  /\ Asking
  /\ phase' = "cancelled"
  /\ fast' = IF fast = "running" THEN "cancelled" ELSE fast
  /\ UNCHANGED <<serves, current, fastFor, primary, flows, isReleased, sentence>>

FastReady ==
  /\ fast = "running" /\ fast' = "ready" /\ fastFor' = current
  /\ UNCHANGED <<serves, phase, current, primary, flows, isReleased, sentence>>

FastFails ==
  /\ fast = "running" /\ fast' = "error"
  /\ UNCHANGED <<serves, phase, current, fastFor, primary, flows, isReleased, sentence>>

-----------------------------------------------------------------------------
(* The primary job.  Cancelling it takes effect where it suspends, which it  *)
(* need not do before it has stored the state that has just been emitted.    *)

Begin(p) ==
  /\ job[p] = "start" /\ p \notin dropped
  /\ primaryState' = "checking"
  /\ IF p \in serves
     THEN primaryFor' = p /\ JobGoes(p, IF loaded THEN "loaded" ELSE "loading")
     ELSE JobGoes(p, "failed") /\ UNCHANGED primaryFor
  /\ UNCHANGED <<serves, phase, current, quick, dropped, loaded, primaryReady, usable, isReleased, sentence>>

LoadOk(p) ==
  /\ job[p] = "loading" /\ JobGoes(p, "loaded") /\ loaded' = TRUE
  /\ UNCHANGED <<serves, phase, current, quick, dropped, primaryFor, flows, isReleased, sentence>>

LoadFails(p) ==
  /\ job[p] = "loading" /\ JobGoes(p, "failed")
  /\ UNCHANGED <<serves, phase, current, quick, dropped, loaded, primaryFor, flows, isReleased, sentence>>

\* Mutant of Loaded: usable once it is loaded, not warmed up.
LoadedIsUsable(p) ==
  /\ job[p] = "loaded"
  /\ primaryState' = "ready" /\ usable' = TRUE
  /\ JobGoes(p, IF primaryReady THEN "warm" ELSE "warming")
  /\ UNCHANGED <<serves, phase, current, quick, dropped, loaded, primaryFor,
                 primaryReady, isReleased, sentence>>

\* Ready is emitted.  The first time the engine is warmed up.
Loaded(p) ==
  /\ job[p] = "loaded"
  /\ primaryState' = "ready"
  /\ JobGoes(p, IF primaryReady THEN "warm" ELSE "warming")
  /\ UNCHANGED <<serves, phase, current, quick, dropped, loaded, primaryFor,
                 primaryReady, usable, isReleased, sentence>>

\* runCatching: whether the generation ends, fails or is cancelled.
WarmedUp(p) ==
  /\ job[p] = "warming" /\ JobGoes(p, "warm") /\ primaryReady' = TRUE
  /\ UNCHANGED <<serves, phase, current, quick, dropped, loaded, primaryFor,
                 usable, primaryState, isReleased, sentence>>

Announce(p) ==
  /\ job[p] = "warm" /\ JobGoes(p, "done") /\ usable' = TRUE
  /\ UNCHANGED <<serves, phase, current, quick, dropped, loaded, primaryFor,
                 primaryReady, primaryState, isReleased, sentence>>

\* Mutant of Failed: what is thrown is only logged.
FailedQuietly(p) ==
  /\ job[p] = "failed" /\ JobGoes(p, "done")
  /\ UNCHANGED <<serves, phase, current, quick, dropped, loaded, primaryFor, flows, isReleased, sentence>>

\* Error is emitted, or thrown and caught.
Failed(p) ==
  /\ job[p] = "failed" /\ JobGoes(p, "done") /\ primaryState' = "error"
  /\ UNCHANGED <<serves, phase, current, quick, dropped, loaded, primaryFor,
                 primaryReady, usable, isReleased, sentence>>

Unwind(p) ==
  /\ p \in dropped /\ job[p] \in {"start", "loaded", "failed"} /\ JobGoes(p, "done")
  /\ UNCHANGED <<serves, phase, current, quick, dropped, loaded, primaryFor, flows, isReleased, sentence>>

-----------------------------------------------------------------------------
(* Translating.  The session does after its preparation was Ready. *)

OpenSegment ==
  /\ sentence = "none" /\ current # NoPrep /\ ~isReleased
  /\ phase = "ready"
  /\ sentence' = IF primaryReady THEN "primary" ELSE "fast"
  /\ UNCHANGED <<serves, phase, current, quick, primary, flows, isReleased>>

CloseSegment ==
  /\ sentence # "none" /\ sentence' = "none"
  /\ UNCHANGED <<serves, phase, current, quick, primary, flows, isReleased>>

\* The session has cancelled its coroutines, which end with the engine gone.
ReleaseBoth ==
  /\ ~isReleased /\ isReleased' = TRUE /\ sentence' = "none"
  /\ phase' = IF Asking THEN "cancelled" ELSE phase
  /\ fast' = IF fast = "running" THEN "cancelled" ELSE fast
  /\ fastFor' = NoPrep /\ loaded' = FALSE
  /\ dropped' = PrepIds
  /\ UNCHANGED <<serves, current, job, primaryFor, flows>>

-----------------------------------------------------------------------------
Preparation == FastEnds \/ PrimaryUsable \/ PrimaryTerminal
Fast == FastReady \/ FastFails
PrimaryJob(p) ==
  \/ Begin(p) \/ LoadOk(p) \/ LoadFails(p) \/ Loaded(p)
  \/ WarmedUp(p) \/ Announce(p) \/ Failed(p) \/ Unwind(p)

HandoverNext ==
  \/ \E p \in PrepIds : PrepareModel(p) \/ PrimaryJob(p)
  \/ Preparation \/ Cancel \/ Fast
  \/ OpenSegment \/ CloseSegment \/ ReleaseBoth

HandoverSpec == HandoverInit /\ [][HandoverNext]_handoverVars

\* Coroutines are scheduled; a load, a generation and a download end.
HandoverFairSpec ==
  /\ HandoverSpec
  /\ WF_handoverVars(Preparation) /\ WF_handoverVars(Fast)
  /\ \A p \in PrepIds : WF_handoverVars(PrimaryJob(p))

-----------------------------------------------------------------------------
(* Properties *)

\* A sentence is translated by an engine that is ready for the pair the
\* session was last prepared for, whichever of the two won the race, whichever
\* was cancelled because of it, and whatever is left of the preparation before.
\* The primary keeps the pair before when it does not serve the new one, and
\* until its job has begun.
SentencesHaveTheirEngine ==
  /\ sentence = "fast" => fastFor = current
  /\ sentence = "primary" =>
       /\ loaded
       /\ primaryFor = current \/ current \notin serves \/ job[current] = "start"

\* A preparation is answered: an engine that hangs until its time limit, fails
\* or throws does not leave the session preparing.
PreparationsAnswer ==
  phase = "racing" ~> phase \in {"ready", "error", "cancelled"}
=============================================================================
