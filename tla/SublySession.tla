---------------------------- MODULE SublySession ----------------------------
(***************************************************************************)
(* The lifecycle of a SublySession: the public methods, which exclude one  *)
(* another through the session's monitor (@Synchronized), the coroutines   *)
(* they launch on the session's scope (runPreparation and the pipeline),   *)
(* which run in parallel with them and with each other on                  *)
(* Dispatchers.Default, and the two engines the session owns.              *)
(*                                                                         *)
(* A method is cut wherever it reads or writes something a coroutine also  *)
(* writes: _state and the completion of a job.  Only the methods cancel    *)
(* jobs, assign prepJob, pipelineJob and config, and write Closed, so      *)
(* those parts of a method are one step.  A coroutine is cut at each       *)
(* suspension point, where alone it notices its cancellation, and before   *)
(* each write of _state, since the check that lets it go on and the write  *)
(* are not one step.                                                       *)
(***************************************************************************)
EXTENDS Naturals

CONSTANTS
    Pairs,      \* the language pairs of LanguageConfig
    FirstPair,  \* initialConfig
    NoPair,     \* an engine that holds no model
    PairBound,  \* the engines whose model serves one pair only (see Claim)
    MaxJobs     \* bound: the coroutines launched in one behaviour

Engines == {"asr", "translator"}

ASSUME ConstantsAssumption ==
    /\ FirstPair \in Pairs
    /\ NoPair \notin Pairs
    /\ PairBound \subseteq Engines
    /\ MaxJobs \in Nat

Jobs == 1 .. MaxJobs
NoJob == 0

VARIABLES
    state,        \* _state
    config,       \* config
    prepJob,      \* prepJob
    pipelineJob,  \* pipelineJob
    monitor,      \* where the method that holds the monitor is
    open,         \* sessionScope has not been cancelled
    launched,     \* jobs launched so far; job n is the n-th of them
    kind,         \* kind[j]: what the body of job j is
    pc,           \* pc[j]: where job j is
    cancelled,    \* cancelled[j]: cancel() was called on j, which has not
                  \* completed
    awaits,       \* awaits[j]: the jobs j joins before it goes on
    pair,         \* pair[j]: the config j called prepareModel with
    on,           \* on[j]: the engine j is preparing
    publishing,   \* publishing[j]: the value j is about to write to _state
    engine,       \* engine[e]: the pair engine e is loaded for
    strayed       \* history: a cancelled job nobody waits for touched
                  \* _state or an engine, or stop() wrote over a _state that
                  \* was no longer the one it had read

sessionVars == <<state, config, prepJob, pipelineJob, monitor, open>>
jobVars == <<launched, kind, pc, cancelled, awaits, pair, on, publishing>>
vars == <<state, config, prepJob, pipelineJob, monitor, open,
          launched, kind, pc, cancelled, awaits, pair, on, publishing,
          engine, strayed>>

States == {"Idle", "Preparing", "Ready", "Running", "Error", "Closed"}

Methods == {"free", "prepareState", "startState", "launch", "relaunch",
            "stopRead", "stopWrite",
            "closeScope", "closeAsr", "closeTranslator"}

\* "skipped" is the end of a job whose body never ran past its joins.
PrepPcs == {"new", "open", "claim", "load", "loaded", "warm", "verify"}
PipePcs == {"new", "join", "check", "run"}
Pcs == PrepPcs \cup PipePcs \cup {"exit", "done", "skipped"}

Ended(j) == pc[j] \in {"done", "skipped"}
Launched(j) == kind[j] # "none"

\* Job.isActive: started or about to, neither completed nor cancelled.
IsActive(j) == j # NoJob /\ ~Ended(j) /\ ~cancelled[j]

\* j is still running, and the jobs that matter now will join it: it is the
\* current job of its kind, or the current preparation waits for it.
Awaited(j) ==
    \/ j \in {prepJob, pipelineJob}
    \/ prepJob # NoJob /\ j \in awaits[prepJob]

\* Recorded whenever job j writes _state or changes an engine.
Touch(j) == strayed' = (strayed \/ (cancelled[j] /\ ~Awaited(j)))

Init ==
    /\ state = "Idle"
    /\ config = FirstPair
    /\ prepJob = NoJob
    /\ pipelineJob = NoJob
    /\ monitor = "free"
    /\ open = TRUE
    /\ launched = 0
    /\ kind = [j \in Jobs |-> "none"]
    /\ pc = [j \in Jobs |-> "new"]
    /\ cancelled = [j \in Jobs |-> FALSE]
    /\ awaits = [j \in Jobs |-> {}]
    /\ pair = [j \in Jobs |-> NoPair]
    /\ on = [j \in Jobs |-> "asr"]
    /\ publishing = [j \in Jobs |-> "none"]
    /\ engine = [e \in Engines |-> NoPair]
    /\ strayed = FALSE

-----------------------------------------------------------------------------
(* The methods.  A call that checkNotClosed rejects, or that returns with  *)
(* nothing done, changes nothing and needs no action.                      *)

\* sessionScope.launch { ... }: a job launched on a cancelled scope is
\* cancelled from the start.
Launch(what, joins) ==
    /\ launched < MaxJobs
    /\ launched' = launched + 1
    /\ kind' = [kind EXCEPT ![launched'] = what]
    /\ cancelled' = [cancelled EXCEPT ![launched'] = ~open]
    /\ awaits' = [awaits EXCEPT ![launched'] = joins]
    /\ UNCHANGED <<pc, pair, on, publishing>>

\* Mutant of Prepare: without the test of isActive.
PrepareAgain ==
    /\ monitor = "free"
    /\ state # "Closed"
    /\ launched < MaxJobs
    /\ monitor' = "prepareState"
    /\ UNCHANGED <<state, config, prepJob, pipelineJob, open, jobVars,
                   engine, strayed>>

\* prepare(): checkNotClosed, then the test of prepJob.isActive.
Prepare ==
    /\ monitor = "free"
    /\ state # "Closed"
    /\ ~IsActive(prepJob)
    /\ launched < MaxJobs
    /\ monitor' = "prepareState"
    /\ UNCHANGED <<state, config, prepJob, pipelineJob, open, jobVars,
                   engine, strayed>>

\* Mutant of PrepareState: only Ready makes prepare() return.
PrepareUnlessReady ==
    /\ monitor \in {"prepareState", "startState"}
    /\ monitor' = IF monitor = "startState" THEN "launch" ELSE "free"
    /\ \/ /\ state = "Ready"
          /\ UNCHANGED <<prepJob, jobVars>>
       \/ /\ state # "Ready"
          /\ Launch("prep", {})
          /\ prepJob' = launched'
    /\ UNCHANGED <<state, config, pipelineJob, open, engine, strayed>>

\* The rest of prepare(), called by the application or from startWith.
PrepareState ==
    /\ monitor \in {"prepareState", "startState"}
    /\ monitor' = IF monitor = "startState" THEN "launch" ELSE "free"
    /\ \/ /\ state \in {"Ready", "Running"}
          /\ UNCHANGED <<prepJob, jobVars>>
       \/ /\ state \notin {"Ready", "Running"}
          /\ Launch("prep", {})
          /\ prepJob' = launched'
    /\ UNCHANGED <<state, config, pipelineJob, open, engine, strayed>>

\* The jobs that startWith is about to launch, as far as it can tell.
ToLaunch == IF IsActive(prepJob) \/ state \in {"Ready", "Running"} THEN 1 ELSE 2

\* startWith: checkNotClosed, pipelineJob.isActive, then prepare() up to its
\* read of _state.
Start ==
    /\ monitor = "free"
    /\ state # "Closed"
    /\ ~IsActive(pipelineJob)
    /\ launched + ToLaunch <= MaxJobs
    /\ monitor' = IF IsActive(prepJob) THEN "launch" ELSE "startState"
    /\ UNCHANGED <<state, config, prepJob, pipelineJob, open, jobVars,
                   engine, strayed>>

\* The end of startWith: launch the pipeline.
LaunchPipeline ==
    /\ monitor = "launch"
    /\ Launch("pipeline", {})
    /\ pipelineJob' = launched'
    /\ monitor' = "free"
    /\ UNCHANGED <<state, config, prepJob, open, engine, strayed>>

\* Mutant of SetLanguages: the pipeline is not cancelled.
SwitchUnderThePipeline(p) ==
    /\ monitor = "free"
    /\ state # "Closed"
    /\ p # config
    /\ launched < MaxJobs
    /\ cancelled' = [j \in Jobs |-> cancelled[j] \/ (j = prepJob /\ ~Ended(j))]
    /\ config' = p
    /\ monitor' = "relaunch"
    /\ UNCHANGED <<state, prepJob, pipelineJob, open, launched, kind, pc,
                   awaits, pair, on, publishing, engine, strayed>>

\* setLanguages(p) with another pair; with the same pair it is Prepare.  The
\* pipeline and the preparation are cancelled, not joined: the new job does
\* that.
SetLanguages(p) ==
    /\ monitor = "free"
    /\ state # "Closed"
    /\ p # config
    /\ launched < MaxJobs
    /\ cancelled' = [j \in Jobs |->
                       cancelled[j] \/ (j \in {prepJob, pipelineJob} /\ ~Ended(j))]
    /\ config' = p
    /\ monitor' = "relaunch"
    /\ UNCHANGED <<state, prepJob, pipelineJob, open, launched, kind, pc,
                   awaits, pair, on, publishing, engine, strayed>>

\* Mutant of Relaunch: the old jobs are not joined.
RelaunchAtOnce ==
    /\ monitor = "relaunch"
    /\ state' = "Idle"
    /\ Launch("prep", {})
    /\ prepJob' = launched'
    /\ pipelineJob' = NoJob
    /\ monitor' = "free"
    /\ UNCHANGED <<config, open, engine, strayed>>

\* The rest of setLanguages: Idle, and the job that joins the cancelled two.
Relaunch ==
    /\ monitor = "relaunch"
    /\ state' = "Idle"
    /\ Launch("prep", {prepJob, pipelineJob} \ {NoJob})
    /\ prepJob' = launched'
    /\ pipelineJob' = NoJob
    /\ monitor' = "free"
    /\ UNCHANGED <<config, open, engine, strayed>>

\* stop(): cancel the pipeline and forget it.  With neither a pipeline nor
\* Running to see, it does nothing.
Stop ==
    /\ monitor = "free"
    /\ pipelineJob # NoJob \/ state = "Running"
    /\ cancelled' = [j \in Jobs |->
                       cancelled[j] \/ (j = pipelineJob /\ ~Ended(j))]
    /\ pipelineJob' = NoJob
    /\ monitor' = "stopRead"
    /\ UNCHANGED <<state, config, prepJob, open, launched, kind, pc, awaits,
                   pair, on, publishing, engine, strayed>>

\* stop(): _state.value is Running ?
StopRead ==
    /\ monitor = "stopRead"
    /\ monitor' = IF state = "Running" THEN "stopWrite" ELSE "free"
    /\ UNCHANGED <<state, config, prepJob, pipelineJob, open, jobVars,
                   engine, strayed>>

\* stop(): _state.value = Ready, over whatever a job has written since.
StopWrite ==
    /\ monitor = "stopWrite"
    /\ state' = "Ready"
    /\ monitor' = "free"
    /\ strayed' = (strayed \/ state # "Running")
    /\ UNCHANGED <<config, prepJob, pipelineJob, open, jobVars, engine>>

\* close(): Closed first, then the scope, then the engines one by one.
Close ==
    /\ monitor = "free"
    /\ state # "Closed"
    /\ state' = "Closed"
    /\ monitor' = "closeScope"
    /\ UNCHANGED <<config, prepJob, pipelineJob, open, jobVars, engine,
                   strayed>>

\* Mutant of CloseScope: the jobs under way are not cancelled.
CloseScopeToNewJobs ==
    /\ monitor = "closeScope"
    /\ open' = FALSE
    /\ monitor' = "closeAsr"
    /\ UNCHANGED <<state, config, prepJob, pipelineJob, cancelled, launched,
                   kind, pc, awaits, pair, on, publishing, engine, strayed>>

\* close(): sessionScope.cancel()
CloseScope ==
    /\ monitor = "closeScope"
    /\ open' = FALSE
    /\ cancelled' = [j \in Jobs |->
                       cancelled[j] \/ (Launched(j) /\ ~Ended(j))]
    /\ monitor' = "closeAsr"
    /\ UNCHANGED <<state, config, prepJob, pipelineJob, launched, kind, pc,
                   awaits, pair, on, publishing, engine, strayed>>

\* asrEngine.release() and translationEngine.release()
Release(e, from, to) ==
    /\ monitor = from
    /\ engine' = [engine EXCEPT ![e] = NoPair]
    /\ monitor' = to
    /\ UNCHANGED <<state, config, prepJob, pipelineJob, open, jobVars,
                   strayed>>

CloseAsr == Release("asr", "closeAsr", "closeTranslator")
CloseTranslator == Release("translator", "closeTranslator", "free")

\* A call begins, as the application likes ...
Call ==
    \/ Prepare
    \/ Start
    \/ \E p \in Pairs : SetLanguages(p)
    \/ Stop
    \/ Close

\* ... and its thread then goes on to the end of the method.
Return ==
    \/ PrepareState
    \/ LaunchPipeline
    \/ Relaunch
    \/ StopRead
    \/ StopWrite
    \/ CloseScope
    \/ CloseAsr
    \/ CloseTranslator

-----------------------------------------------------------------------------
(* Steps every job has.                                                    *)

At(j, where) == Launched(j) /\ pc[j] = where /\ publishing[j] = "none"
Goto(j, where) == pc' = [pc EXCEPT ![j] = where]

\* The pending assignment to _state.
Publish(j) ==
    /\ publishing[j] # "none"
    /\ state' = publishing[j]
    /\ publishing' = [publishing EXCEPT ![j] = "none"]
    /\ Touch(j)
    /\ UNCHANGED <<config, prepJob, pipelineJob, monitor, open, launched,
                   kind, pc, cancelled, awaits, pair, on, engine>>

\* Cancelled before it was dispatched, or while it was joining.
Skip(j) ==
    /\ \/ At(j, "new")
       \/ At(j, "join")
    /\ cancelled[j]
    /\ Goto(j, "skipped")
    /\ awaits' = [awaits EXCEPT ![j] = {}]
    /\ UNCHANGED <<sessionVars, launched, kind, cancelled, pair, on,
                   publishing, engine, strayed>>

\* The body has returned; the job completes a moment later, and until then
\* isActive is true.  Its locals are gone.
Complete(j) ==
    /\ At(j, "exit")
    /\ Goto(j, "done")
    /\ cancelled' = [cancelled EXCEPT ![j] = FALSE]
    /\ pair' = [pair EXCEPT ![j] = NoPair]
    /\ on' = [on EXCEPT ![j] = "asr"]
    /\ UNCHANGED <<sessionVars, launched, kind, awaits, publishing, engine,
                   strayed>>

-----------------------------------------------------------------------------
(* runPreparation: the recogniser, then the translator, then a warm-up.    *)

\* The joins of setLanguages have returned.
Begin(j) ==
    /\ At(j, "new")
    /\ kind[j] = "prep"
    /\ ~cancelled[j]
    /\ \A k \in awaits[j] : Ended(k)
    /\ Goto(j, "open")
    /\ awaits' = [awaits EXCEPT ![j] = {}]
    /\ UNCHANGED <<sessionVars, launched, kind, cancelled, pair, on,
                   publishing, engine, strayed>>

\* prepareModel(config) is collected: its first emission, Checking.
OpenEngine(j) ==
    /\ At(j, "open")
    /\ ~cancelled[j]
    /\ pair' = [pair EXCEPT ![j] = config]
    /\ publishing' = [publishing EXCEPT ![j] = "Preparing"]
    /\ Goto(j, "claim")
    /\ UNCHANGED <<sessionVars, launched, kind, cancelled, awaits, on,
                   engine, strayed>>

\* An engine whose model serves one pair frees the model of another pair
\* before it loads; one that serves every pair only takes the new parameters,
\* in Load.  Then it reports progress, unless it notices its cancellation.
Claim(j) ==
    /\ At(j, "claim")
    /\ engine' = [engine EXCEPT ![on[j]] =
                    IF on[j] \in PairBound /\ @ # pair[j] THEN NoPair ELSE @]
    /\ publishing' = [publishing EXCEPT ![j] =
                        IF cancelled[j] THEN "none" ELSE "Preparing"]
    /\ Goto(j, "load")
    /\ Touch(j)
    /\ UNCHANGED <<sessionVars, launched, kind, cancelled, awaits, pair, on>>

\* The native load has finished and its handle is installed: no suspension
\* point lies between the load and the installation, so a cancelled job
\* installs too.  A pair-bound engine keeps a handle that another prepare
\* installed meanwhile (compareAndSet) and still reports Ready.
Load(j) ==
    /\ At(j, "load")
    /\ engine' = [engine EXCEPT ![on[j]] =
                    IF on[j] \in PairBound /\ @ # NoPair THEN @ ELSE pair[j]]
    /\ Goto(j, "loaded")
    /\ Touch(j)
    /\ UNCHANGED <<sessionVars, launched, kind, cancelled, awaits, pair, on,
                   publishing>>

\* prepareModel emits Error.
EngineError(j) ==
    /\ At(j, "load")
    /\ ~cancelled[j]
    /\ publishing' = [publishing EXCEPT ![j] = "Error"]
    /\ Goto(j, "verify")
    /\ UNCHANGED <<sessionVars, launched, kind, cancelled, awaits, pair, on,
                   engine, strayed>>

\* prepareModel throws, against its contract: the catch writes Error, also
\* for a job cancelled meanwhile.
EngineThrows(j) ==
    /\ At(j, "load")
    /\ publishing' = [publishing EXCEPT ![j] = "Error"]
    /\ Goto(j, "verify")
    /\ UNCHANGED <<sessionVars, launched, kind, cancelled, awaits, pair, on,
                   engine, strayed>>

\* prepareModel completes with neither Ready nor Error, against its contract.
EngineSilent(j) ==
    /\ At(j, "load")
    /\ Goto(j, "verify")
    /\ UNCHANGED <<sessionVars, launched, kind, cancelled, awaits, pair, on,
                   publishing, engine, strayed>>

\* Mutants of VerifyOutcome: it leaves _state as it is, or writes back what it
\* read.
VerifyNothing(j) ==
    /\ At(j, "verify")
    /\ Goto(j, "exit")
    /\ UNCHANGED <<sessionVars, launched, kind, cancelled, awaits, pair, on,
                   publishing, engine, strayed>>

VerifyWritesBack(j) ==
    /\ At(j, "verify")
    /\ publishing' = [publishing EXCEPT ![j] =
                        IF state \in {"Error", "Closed"} THEN state ELSE "Error"]
    /\ Goto(j, "exit")
    /\ UNCHANGED <<sessionVars, launched, kind, cancelled, awaits, pair, on,
                   engine, strayed>>

\* The end of a runPreparation that was never Ready nor abandoned: it reads
\* _state once more, which another job or method may have written since.
VerifyOutcome(j) ==
    /\ At(j, "verify")
    /\ publishing' = [publishing EXCEPT ![j] =
                        IF state \in {"Error", "Closed"} THEN "none" ELSE "Error"]
    /\ Goto(j, "exit")
    /\ UNCHANGED <<sessionVars, launched, kind, cancelled, awaits, pair, on,
                   engine, strayed>>

\* prepareModel emits Ready: on to the translator, or to the warm-up.
EngineReady(j) ==
    /\ At(j, "loaded")
    /\ ~cancelled[j]
    /\ \/ /\ on[j] = "asr"
          /\ on' = [on EXCEPT ![j] = "translator"]
          /\ publishing' = [publishing EXCEPT ![j] = "Preparing"]
          /\ Goto(j, "open")
       \/ /\ on[j] = "translator"
          /\ Goto(j, "warm")
          /\ UNCHANGED <<on, publishing>>
    /\ UNCHANGED <<sessionVars, launched, kind, cancelled, awaits, pair,
                   engine, strayed>>

\* warmUpTranslator ends, warmed or timed out or failed; then Ready.
WarmUp(j) ==
    /\ At(j, "warm")
    /\ ~cancelled[j]
    /\ publishing' = [publishing EXCEPT ![j] = "Ready"]
    /\ Goto(j, "exit")
    /\ UNCHANGED <<sessionVars, launched, kind, cancelled, awaits, pair, on,
                   engine, strayed>>

\* A suspension point of a cancelled preparation: CancellationException,
\* which nothing turns into a state.
AbandonPreparation(j) ==
    /\ \E where \in {"open", "load", "loaded", "warm"} : At(j, where)
    /\ cancelled[j]
    /\ Goto(j, "exit")
    /\ UNCHANGED <<sessionVars, launched, kind, cancelled, awaits, pair, on,
                   publishing, engine, strayed>>

-----------------------------------------------------------------------------
(* The pipeline coroutine of startWith.                                    *)

\* prepJob?.join(): the field is read when the coroutine runs.
ReadPrepJob(j) ==
    /\ At(j, "new")
    /\ kind[j] = "pipeline"
    /\ ~cancelled[j]
    /\ awaits' = [awaits EXCEPT ![j] = {prepJob} \ {NoJob}]
    /\ Goto(j, "join")
    /\ UNCHANGED <<sessionVars, launched, kind, cancelled, pair, on,
                   publishing, engine, strayed>>

Joined(j) ==
    /\ At(j, "join")
    /\ ~cancelled[j]
    /\ \A k \in awaits[j] : Ended(k)
    /\ awaits' = [awaits EXCEPT ![j] = {}]
    /\ Goto(j, "check")
    /\ UNCHANGED <<sessionVars, launched, kind, cancelled, pair, on,
                   publishing, engine, strayed>>

\* Mutant of CheckReady: Error does not stop the pipeline.
CheckAnything(j) ==
    /\ At(j, "check")
    /\ publishing' = [publishing EXCEPT ![j] = "Running"]
    /\ Goto(j, "run")
    /\ UNCHANGED <<sessionVars, launched, kind, cancelled, awaits, pair, on,
                   engine, strayed>>

\* if (_state.value !is Ready) return@launch, and otherwise
\* _state.value = Running, which Publish writes.
CheckReady(j) ==
    /\ At(j, "check")
    /\ \/ /\ state = "Ready"
          /\ publishing' = [publishing EXCEPT ![j] = "Running"]
          /\ Goto(j, "run")
       \/ /\ state # "Ready"
          /\ Goto(j, "exit")
          /\ UNCHANGED publishing
    /\ UNCHANGED <<sessionVars, launched, kind, cancelled, awaits, pair, on,
                   engine, strayed>>

\* The audio ends and the captions are drained: runPipeline returns.
AudioEnds(j) ==
    /\ At(j, "run")
    /\ ~cancelled[j]
    /\ Goto(j, "exit")
    /\ UNCHANGED <<sessionVars, launched, kind, cancelled, awaits, pair, on,
                   publishing, engine, strayed>>

\* runPipeline's catch: the failure becomes the state.
PipelineFails(j) ==
    /\ At(j, "run")
    /\ ~cancelled[j]
    /\ publishing' = [publishing EXCEPT ![j] = "Error"]
    /\ Goto(j, "exit")
    /\ UNCHANGED <<sessionVars, launched, kind, cancelled, awaits, pair, on,
                   engine, strayed>>

\* A suspension point of a cancelled pipeline.
AbandonPipeline(j) ==
    /\ At(j, "run")
    /\ cancelled[j]
    /\ Goto(j, "exit")
    /\ UNCHANGED <<sessionVars, launched, kind, cancelled, awaits, pair, on,
                   publishing, engine, strayed>>

\* Steps a coroutine takes by itself, and the ends of a pipeline, which the
\* world decides.
Coroutine(j) ==
    \/ Publish(j)
    \/ Skip(j)
    \/ Complete(j)
    \/ Begin(j)
    \/ OpenEngine(j)
    \/ Claim(j)
    \/ Load(j)
    \/ EngineError(j)
    \/ EngineThrows(j)
    \/ EngineSilent(j)
    \/ VerifyOutcome(j)
    \/ EngineReady(j)
    \/ WarmUp(j)
    \/ AbandonPreparation(j)
    \/ ReadPrepJob(j)
    \/ Joined(j)
    \/ CheckReady(j)
    \/ AbandonPipeline(j)

World(j) == AudioEnds(j) \/ PipelineFails(j)

Next == Call \/ Return \/ \E j \in Jobs : Coroutine(j) \/ World(j)

Spec == Init /\ [][Next]_vars

\* Dispatchers.Default runs every coroutine that can go on, an engine's
\* prepareModel terminates, and a thread inside a method leaves it.  Nothing
\* makes the application call, nor the audio end.
Fairness == WF_vars(Return) /\ \A j \in Jobs : WF_vars(Coroutine(j))

FairSpec == Spec /\ Fairness

-----------------------------------------------------------------------------
(* Properties.                                                             *)

TypeOK ==
    /\ state \in States
    /\ config \in Pairs
    /\ prepJob \in Jobs \cup {NoJob}
    /\ pipelineJob \in Jobs \cup {NoJob}
    /\ monitor \in Methods
    /\ open \in BOOLEAN
    /\ launched \in 0 .. MaxJobs
    /\ kind \in [Jobs -> {"none", "prep", "pipeline"}]
    /\ pc \in [Jobs -> Pcs]
    /\ cancelled \in [Jobs -> BOOLEAN]
    /\ awaits \in [Jobs -> SUBSET Jobs]
    /\ pair \in [Jobs -> Pairs \cup {NoPair}]
    /\ on \in [Jobs -> Engines]
    /\ publishing \in [Jobs -> {"none", "Preparing", "Ready", "Running", "Error"}]
    /\ engine \in [Engines -> Pairs \cup {NoPair}]
    /\ strayed \in BOOLEAN

\* Job j has left its joins and may be inside an engine.
InEngine(j) ==
    /\ Launched(j)
    /\ \/ kind[j] = "prep" /\ pc[j] \in {"open", "claim", "load", "loaded", "warm"}
       \/ kind[j] = "pipeline" /\ pc[j] = "run"

\* The only coroutines nobody cancelled are the two the session holds: no
\* sequence of prepare, start, stop and setLanguages leaves a second live
\* preparation or a second live pipeline behind (prepare's and startWith's
\* isActive tests).
OneLiveJobOfEachKind ==
    \A j \in Jobs :
        Launched(j) /\ IsActive(j) =>
            \/ kind[j] = "prep" /\ j = prepJob
            \/ kind[j] = "pipeline" /\ j = pipelineJob

\* Two preparations are in the engines at the same time only if a third,
\* launched between them, was cancelled before its joins returned: each
\* setLanguages waits for the preparation before it, and only a setLanguages
\* that overtakes another breaks the chain.
OverlapNeedsASkippedPreparation ==
    \A i, j \in Jobs :
        /\ i < j
        /\ kind[i] = "prep" /\ InEngine(i)
        /\ kind[j] = "prep" /\ InEngine(j)
        => \E k \in Jobs :
              /\ i < k /\ k < j
              /\ kind[k] = "prep"
              /\ cancelled[k] /\ pc[k] \in {"new", "skipped"}

\* Unless a cancelled job that nobody waits for interfered, or stop() wrote
\* Ready over another job's value, a pipeline that nobody cancelled runs on
\* two engines loaded for the session's current pair, whatever sequence of
\* switches, failures and retries came before.
CaptionsNeedThePreparedPair ==
    ~strayed /\ open =>
        \A j \in Jobs :
            kind[j] = "pipeline" /\ pc[j] = "run" /\ ~cancelled[j] =>
                \A e \in Engines : engine[e] = config

\* Under the same condition the only preparations in the engines beside a
\* pipeline that nobody cancelled are the forgotten: those that will stray
\* when they next touch an engine, cancelled and waited for by nobody.
NoPreparationUnderALivePipeline ==
    ~strayed =>
        \A i, j \in Jobs :
            /\ kind[i] = "prep" /\ InEngine(i)
            /\ kind[j] = "pipeline" /\ pc[j] = "run" /\ ~cancelled[j]
            => cancelled[i] /\ ~Awaited(i)

\* Once close() has cancelled the scope no job gets past its start, not even
\* one launched because a stray write had replaced Closed and let a later
\* call through checkNotClosed.
NothingStartsAfterClose ==
    [][\A j \in Jobs : ~open /\ pc[j] = "new" => pc'[j] \in {"new", "skipped"}]_vars

\* Every job ends, or is a pipeline that nobody cancelled: the preparation
\* that joins a pipeline and the pipeline that joins a preparation never wait
\* for each other.
EveryJobSettles ==
    \A j \in Jobs :
        Launched(j) ~> Ended(j) \/ (pc[j] = "run" /\ ~cancelled[j])

\* Preparing is never the last word while the session is open, unless a stray
\* job wrote it.
PreparingIsTransient ==
    state = "Preparing" ~> state # "Preparing" \/ strayed \/ ~open
=============================================================================
