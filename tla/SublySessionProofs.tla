------------------------- MODULE SublySessionProofs -------------------------
(***************************************************************************)
(* What is proved of SublySession, for every set of pairs and every bound. *)
(***************************************************************************)
EXTENDS SublySession, TLAPS

\* Every variable keeps its type, in every behaviour.
LEMMA InitType == Init => TypeOK
<1> SUFFICES ASSUME Init PROVE TypeOK
  OBVIOUS
<1> USE DEF Init, Jobs, NoJob, Engines
<1>1. /\ state \in States /\ monitor \in Methods
      /\ prepJob \in Jobs \cup {NoJob} /\ pipelineJob \in Jobs \cup {NoJob}
      /\ open \in BOOLEAN /\ strayed \in BOOLEAN
  BY DEF States, Methods
<1>2. config \in Pairs /\ launched \in 0 .. MaxJobs
  BY ConstantsAssumption DEF ConstantsAssumption
<1>3. kind \in [Jobs -> {"none", "prep", "pipeline"}] /\ pc \in [Jobs -> Pcs]
  BY DEF Pcs, PrepPcs
<1>4. cancelled \in [Jobs -> BOOLEAN] /\ awaits \in [Jobs -> SUBSET Jobs]
  OBVIOUS
<1>5. /\ pair \in [Jobs -> Pairs \cup {NoPair}]
      /\ on \in [Jobs -> Engines]
      /\ publishing \in [Jobs -> {"none", "Preparing", "Ready", "Running", "Error"}]
      /\ engine \in [Engines -> Pairs \cup {NoPair}]
  OBVIOUS
<1> QED
  BY <1>1, <1>2, <1>3, <1>4, <1>5 DEF TypeOK

\* Launching keeps the types of what it touches, and the new job is the next.
LEMMA LaunchType ==
    ASSUME TypeOK, NEW what \in {"prep", "pipeline"}, NEW joins \in SUBSET Jobs,
           Launch(what, joins)
    PROVE  /\ launched' \in Jobs
           /\ launched' = launched + 1
           /\ launched' \in 0 .. MaxJobs
           /\ kind' \in [Jobs -> {"none", "prep", "pipeline"}]
           /\ cancelled' \in [Jobs -> BOOLEAN]
           /\ awaits' \in [Jobs -> SUBSET Jobs]
  BY ConstantsAssumption DEF ConstantsAssumption, TypeOK, Launch, Jobs

\* The methods keep the types.
LEMMA MethodType == TypeOK /\ (Call \/ Return) => TypeOK'
<1> SUFFICES ASSUME TypeOK, Call \/ Return PROVE TypeOK'
  OBVIOUS
<1> USE ConstantsAssumption DEF ConstantsAssumption, TypeOK, States, Methods, Jobs, NoJob, Engines, jobVars
<1>1. CASE Prepare
  BY <1>1 DEF Prepare
<1>2. CASE PrepareState
  <2>1. CASE state \in {"Ready", "Running"}
    BY <1>2, <2>1 DEF PrepareState
  <2>2. CASE state \notin {"Ready", "Running"}
    <3>1. Launch("prep", {}) /\ prepJob' = launched'
      BY <1>2, <2>2 DEF PrepareState
    <3>2. monitor' \in Methods
      BY <1>2 DEF PrepareState
    <3> QED
      BY <1>2, <3>1, <3>2, LaunchType DEF PrepareState, Launch
  <2> QED
    BY <2>1, <2>2
<1>3. CASE Start
  BY <1>3 DEF Start
<1>4. CASE LaunchPipeline
  BY <1>4 DEF LaunchPipeline, Launch
<1>5. ASSUME NEW p \in Pairs, SetLanguages(p) PROVE TypeOK'
  BY <1>5 DEF SetLanguages
<1>6. CASE Relaunch
  BY <1>6 DEF Relaunch, Launch
<1>7. CASE Stop
  BY <1>7 DEF Stop
<1>8. CASE StopRead \/ StopWrite \/ Close
  BY <1>8 DEF StopRead, StopWrite, Close
<1>9. CASE CloseScope
  BY <1>9 DEF CloseScope
<1>10. CASE CloseAsr \/ CloseTranslator
  BY <1>10 DEF CloseAsr, CloseTranslator, Release
<1> QED
  BY <1>1, <1>2, <1>3, <1>4, <1>5, <1>6, <1>7, <1>8, <1>9, <1>10 DEF Call, Return

\* The coroutines keep the types.
LEMMA CoroutineType ==
    TypeOK /\ (\E j \in Jobs : Coroutine(j) \/ World(j)) => TypeOK'
<1> SUFFICES ASSUME TypeOK, NEW j \in Jobs, Coroutine(j) \/ World(j) PROVE TypeOK'
  OBVIOUS
<1> USE DEF TypeOK, States, Pcs, PrepPcs, PipePcs, sessionVars, At, Goto, Touch, Engines
<1>1. CASE Publish(j)
  BY <1>1 DEF Publish
<1>2. CASE Skip(j) \/ Begin(j)
  BY <1>2 DEF Skip, Begin
<1>13. CASE Complete(j)
  BY <1>13 DEF Complete
<1>3. CASE OpenEngine(j)
  BY <1>3 DEF OpenEngine
<1>4. CASE Claim(j)
  BY <1>4 DEF Claim
<1>5. CASE Load(j)
  BY <1>5 DEF Load
<1>6. CASE EngineError(j) \/ EngineThrows(j) \/ EngineSilent(j) \/ VerifyOutcome(j)
  BY <1>6 DEF EngineError, EngineThrows, EngineSilent, VerifyOutcome
<1>7. CASE EngineReady(j)
  BY <1>7 DEF EngineReady
<1>8. CASE WarmUp(j) \/ AbandonPreparation(j)
  BY <1>8 DEF WarmUp, AbandonPreparation
<1>9. CASE ReadPrepJob(j)
  BY <1>9 DEF ReadPrepJob
<1>10. CASE Joined(j) \/ AbandonPipeline(j) \/ AudioEnds(j)
  BY <1>10 DEF Joined, AbandonPipeline, AudioEnds
<1>12. CASE PipelineFails(j)
  BY <1>12 DEF PipelineFails
<1>11. CASE CheckReady(j)
  BY <1>11 DEF CheckReady
<1> QED
  BY <1>1, <1>2, <1>3, <1>4, <1>5, <1>6, <1>7, <1>8, <1>9, <1>10, <1>11, <1>12, <1>13
     DEF Coroutine, World

\* TypeOK is inductive.
LEMMA NextType == TypeOK /\ [Next]_vars => TypeOK'
<1> SUFFICES ASSUME TypeOK, [Next]_vars PROVE TypeOK'
  OBVIOUS
<1>1. CASE Call \/ Return
  BY <1>1, MethodType
<1>2. CASE \E j \in Jobs : Coroutine(j) \/ World(j)
  BY <1>2, CoroutineType
<1>3. CASE UNCHANGED vars
  BY <1>3 DEF vars, TypeOK
<1> QED
  BY <1>1, <1>2, <1>3 DEF Next

\* In every behaviour of the session every variable has its type: each method
\* and coroutine step writes only values the next ones expect.
THEOREM TypeCorrect == Spec => []TypeOK
  BY InitType, NextType, PTL DEF Spec

-----------------------------------------------------------------------------
(* The inductive invariant.                                                *)

\* The jobs are numbered as they are launched; the session's fields hold jobs
\* of their kind, and prepJob the last preparation launched.
Ledger ==
    /\ \A j \in Jobs : Launched(j) <=> j <= launched
    /\ \A j \in Jobs : ~Launched(j) => pc[j] = "new" /\ ~cancelled[j]
    /\ prepJob # NoJob => kind[prepJob] = "prep"
    /\ pipelineJob # NoJob => kind[pipelineJob] = "pipeline"
    /\ \A j \in Jobs : kind[j] = "prep" => j <= prepJob

\* What the thread in a method knows of the jobs it is about to replace, and
\* that only a switch or close() cancels the current preparation.
Replaceable ==
    /\ monitor \in {"prepareState", "startState", "relaunch"} => ~IsActive(prepJob)
    /\ monitor \in {"startState", "launch", "relaunch"} => ~IsActive(pipelineJob)
    /\ open /\ monitor # "relaunch" /\ prepJob # NoJob =>
          ~cancelled[prepJob] \/ Ended(prepJob)

\* A preparation that was cancelled before its joins returned.
Skipped(k) == kind[k] = "prep" /\ cancelled[k] /\ pc[k] \in {"new", "skipped"}

\* A later preparation waits for an earlier one that has not ended, unless
\* one launched after the earlier one was skipped.
Behind(i, j) ==
    \/ pc[j] = "new" /\ i \in awaits[j]
    \/ \E k \in Jobs : i < k /\ k <= j /\ Skipped(k)

Chain ==
    \A i, j \in Jobs :
        i < j /\ kind[i] = "prep" /\ kind[j] = "prep" /\ ~Ended(i) => Behind(i, j)

Lifecycle == TypeOK /\ Ledger /\ Replaceable /\ OneLiveJobOfEachKind /\ Chain

\* What a coroutine step can do to the books: it moves job m alone, never
\* wakes an ended or a cancelled one, and leaves "new" as Skip, Begin and
\* ReadPrepJob allow.
Frame(m) ==
    /\ UNCHANGED <<launched, kind, prepJob, pipelineJob, monitor, open>>
    /\ pc' # pc => Launched(m)
    /\ \A k \in Jobs : k # m =>
          pc'[k] = pc[k] /\ cancelled'[k] = cancelled[k] /\ awaits'[k] = awaits[k]
    /\ Ended(m) => pc'[m] = pc[m]
    /\ ~Ended(m)' => cancelled'[m] = cancelled[m]
    /\ pc[m] \in {"new", "skipped"} => cancelled'[m] = cancelled[m]
    /\ pc'[m] = "new" => pc[m] = "new" /\ awaits'[m] = awaits[m]
    /\ pc'[m] = "skipped" => cancelled[m] \/ pc[m] = "skipped"
    /\ cancelled'[m] => cancelled[m]
    /\ cancelled[m] /\ pc[m] = "new" => pc'[m] \in {"new", "skipped"}
    /\ kind[m] = "prep" /\ pc[m] = "new" /\ pc'[m] \notin {"new", "skipped"} =>
          ~cancelled[m] /\ \A k \in awaits[m] : Ended(k)

\* Every coroutine step stays within its frame.
LEMMA CoroutineFrame ==
    ASSUME TypeOK, NEW j \in Jobs, Coroutine(j) \/ World(j)
    PROVE  Frame(j)
<1> USE DEF TypeOK, sessionVars, At, Goto, Ended, Frame
<1>1. CASE Publish(j)
  BY <1>1 DEF Publish
<1>2. CASE Skip(j)
  BY <1>2 DEF Skip
<1>3. CASE Complete(j)
  BY <1>3 DEF Complete
<1>4. CASE Begin(j)
  BY <1>4 DEF Begin
<1>5. CASE OpenEngine(j) \/ Claim(j) \/ Load(j)
  BY <1>5 DEF OpenEngine, Claim, Load
<1>6. CASE EngineError(j) \/ EngineThrows(j) \/ EngineSilent(j) \/ VerifyOutcome(j)
  BY <1>6 DEF EngineError, EngineThrows, EngineSilent, VerifyOutcome
<1>7. CASE EngineReady(j)
  BY <1>7 DEF EngineReady
<1>8. CASE WarmUp(j) \/ AbandonPreparation(j)
  BY <1>8 DEF WarmUp, AbandonPreparation
<1>9. CASE ReadPrepJob(j)
  BY <1>9 DEF ReadPrepJob
<1>10. CASE Joined(j)
  BY <1>10 DEF Joined
<1>11. CASE CheckReady(j)
  BY <1>11 DEF CheckReady
<1>12. CASE AbandonPipeline(j) \/ AudioEnds(j) \/ PipelineFails(j)
  BY <1>12 DEF AbandonPipeline, AudioEnds, PipelineFails
<1> QED
  BY <1>1, <1>2, <1>3, <1>4, <1>5, <1>6, <1>7, <1>8, <1>9, <1>10, <1>11, <1>12
     DEF Coroutine, World

\* A coroutine step keeps the books.
LEMMA CoroutineLifecycle ==
    ASSUME Lifecycle, NEW m \in Jobs, Coroutine(m) \/ World(m)
    PROVE  Lifecycle'
<1> USE DEF Lifecycle
<1>1. Frame(m)
  BY CoroutineFrame
<1>2. TypeOK'
  BY CoroutineType
<1>3. \A k \in Jobs : Ended(k) => Ended(k)'
  BY <1>1 DEF Frame, Ended
<1>4. \A k \in Jobs : IsActive(k)' => IsActive(k)
  BY <1>1, <1>3 DEF Frame, IsActive, Ended
<1>5. \A k \in Jobs : Skipped(k) => Skipped(k)'
  <2> TAKE k \in Jobs
  <2> HAVE Skipped(k)
  <2>1. CASE k # m
    BY <1>1, <2>1 DEF Frame, Skipped
  <2>2. CASE k = m
    BY <1>1, <2>2 DEF Frame, Skipped, Ended
  <2> QED
    BY <2>1, <2>2
<1>6. Ledger'
  <2>1. \A j \in Jobs : ~Launched(j)' => pc'[j] = "new" /\ ~cancelled'[j]
    <3> TAKE j \in Jobs
    <3>1. CASE j # m
      BY <1>1, <3>1 DEF Frame, Ledger, Launched
    <3>2. CASE j = m
      BY <1>1, <3>2 DEF Frame, Ledger, Launched
    <3> QED
      BY <3>1, <3>2
  <2> QED
    BY <1>1, <2>1 DEF Frame, Ledger, Launched
<1>7. Replaceable'
  <2>1. prepJob' = prepJob /\ pipelineJob' = pipelineJob /\ monitor' = monitor /\ open' = open
    BY <1>1 DEF Frame
  <2>2. IsActive(prepJob)' => IsActive(prepJob)
    BY <2>1, <1>4 DEF TypeOK, IsActive
  <2>3. IsActive(pipelineJob)' => IsActive(pipelineJob)
    BY <2>1, <1>4 DEF TypeOK, IsActive
  <2>4. ASSUME prepJob # NoJob, ~cancelled[prepJob] \/ Ended(prepJob)
        PROVE  ~cancelled'[prepJob] \/ Ended(prepJob)'
    <3>1. prepJob \in Jobs
      BY <2>4 DEF TypeOK
    <3>2. CASE prepJob # m
      BY <1>1, <2>4, <3>1, <3>2 DEF Frame, Ended
    <3>3. CASE prepJob = m
      BY <1>1, <1>3, <2>4, <3>1, <3>3 DEF Frame
    <3> QED
      BY <3>2, <3>3
  <2> QED
    BY <2>1, <2>2, <2>3, <2>4 DEF Replaceable, Ended
<1>8. OneLiveJobOfEachKind'
  BY <1>1, <1>4 DEF Frame, OneLiveJobOfEachKind, Launched
<1>9. Chain'
  <2> SUFFICES ASSUME NEW i \in Jobs, NEW j \in Jobs, i < j,
                      kind'[i] = "prep", kind'[j] = "prep", ~Ended(i)'
               PROVE  Behind(i, j)'
    BY DEF Chain
  <2>1. kind[i] = "prep" /\ kind[j] = "prep" /\ ~Ended(i)
    BY <1>1, <1>3 DEF Frame
  <2>2. Behind(i, j)
    BY <2>1 DEF Chain
  <2>3. CASE \E k \in Jobs : i < k /\ k <= j /\ Skipped(k)
    BY <2>3, <1>5 DEF Behind
  <2>4. CASE pc[j] = "new" /\ i \in awaits[j]
    <3>1. CASE j # m
      BY <1>1, <2>4, <3>1 DEF Frame, Behind
    <3>2. CASE j = m /\ pc'[j] = "new"
      BY <1>1, <2>4, <3>2 DEF Frame, Behind
    <3>3. CASE j = m /\ pc'[j] = "skipped"
      <4>1. Skipped(j)'
        BY <1>1, <2>1, <2>4, <3>3 DEF Frame, Skipped
      <4> QED
        BY <4>1, <2>1 DEF Behind, Jobs
    <3>4. CASE j = m /\ pc'[j] \notin {"new", "skipped"}
      BY <1>1, <2>1, <2>4, <3>4 DEF Frame
    <3> QED
      BY <3>1, <3>2, <3>3, <3>4
  <2> QED
    BY <2>2, <2>3, <2>4 DEF Behind
<1> QED
  BY <1>2, <1>6, <1>7, <1>8, <1>9

\* Method steps that launch and cancel nothing.
LEMMA QuietLifecycle ==
    ASSUME Lifecycle,
           \/ Prepare \/ Start \/ StopRead \/ StopWrite \/ Close
           \/ CloseAsr \/ CloseTranslator
           \/ PrepareState /\ state \in {"Ready", "Running"}
    PROVE  Lifecycle'
<1> USE DEF Lifecycle
<1>1. TypeOK'
  BY MethodType DEF Call, Return
<1>2. /\ UNCHANGED <<prepJob, pipelineJob, open, launched, kind, pc, cancelled, awaits>>
      /\ monitor' \in {"prepareState", "startState", "relaunch"} => ~IsActive(prepJob)
      /\ monitor' \in {"startState", "launch", "relaunch"} => ~IsActive(pipelineJob)
      /\ monitor' # "relaunch" /\ monitor # "relaunch"
  <2>1. CASE Prepare \/ Start
    BY <2>1 DEF Prepare, Start, jobVars
  <2>2. CASE StopRead \/ StopWrite \/ Close
    BY <2>2 DEF StopRead, StopWrite, Close, jobVars
  <2>3. CASE CloseAsr \/ CloseTranslator
    BY <2>3 DEF CloseAsr, CloseTranslator, Release, jobVars
  <2>4. CASE PrepareState /\ state \in {"Ready", "Running"}
    BY <2>4 DEF PrepareState, jobVars, Replaceable
  <2> QED
    BY <2>1, <2>2, <2>3, <2>4
<1>3. Ledger' /\ OneLiveJobOfEachKind' /\ Chain'
  BY <1>2 DEF Ledger, OneLiveJobOfEachKind, Chain, Behind, Skipped, Launched, IsActive, Ended
<1>4. Replaceable'
  BY <1>2 DEF Replaceable, IsActive, Ended
<1> QED
  BY <1>1, <1>3, <1>4

\* Method steps that only cancel: setLanguages, stop and close.
LEMMA CancelLifecycle ==
    ASSUME Lifecycle, (\E p \in Pairs : SetLanguages(p)) \/ Stop \/ CloseScope
    PROVE  Lifecycle'
<1> USE DEF Lifecycle
<1>1. TypeOK'
  BY MethodType DEF Call, Return
<1>2. /\ UNCHANGED <<prepJob, launched, kind, pc, awaits>>
      /\ \A k \in Jobs : cancelled[k] => cancelled'[k]
      /\ \A k \in Jobs : cancelled'[k] => cancelled[k] \/ Launched(k)
      /\ pipelineJob' \in {pipelineJob, NoJob}
  <2>1. ASSUME NEW p \in Pairs, SetLanguages(p) PROVE <1>2!:
    BY <2>1 DEF SetLanguages, TypeOK, Ledger, Launched, Ended, Jobs, NoJob
  <2>2. CASE Stop
    BY <2>2 DEF Stop, TypeOK, Ledger, Launched, Ended, Jobs, NoJob
  <2>3. CASE CloseScope
    BY <2>3 DEF CloseScope, TypeOK
  <2> QED
    BY <2>1, <2>2, <2>3
<1>3. \A k \in Jobs : IsActive(k)' => IsActive(k)
  BY <1>2 DEF IsActive, Ended
<1>4. Ledger'
  BY <1>2 DEF Ledger, Launched
<1>5. OneLiveJobOfEachKind'
  <2> SUFFICES ASSUME NEW j \in Jobs, Launched(j)', IsActive(j)'
               PROVE  \/ kind[j] = "prep" /\ j = prepJob
                      \/ kind[j] = "pipeline" /\ j = pipelineJob'
    BY <1>2 DEF OneLiveJobOfEachKind
  <2>1. \/ kind[j] = "prep" /\ j = prepJob
        \/ kind[j] = "pipeline" /\ j = pipelineJob
    BY <1>2, <1>3 DEF OneLiveJobOfEachKind, Launched
  <2>2. CASE Stop /\ j = pipelineJob
    BY <2>2 DEF Stop, TypeOK, IsActive, Ended
  <2>3. CASE ~Stop
    BY <2>1, <2>3 DEF SetLanguages, CloseScope
  <2> QED
    BY <2>1, <2>2, <2>3
<1>6. Chain'
  <2>1. \A k \in Jobs : Skipped(k) => Skipped(k)'
    BY <1>2 DEF Skipped
  <2> QED
    BY <1>2, <2>1 DEF Chain, Behind, Ended
<1>7. Replaceable'
  <2>1. CASE \E p \in Pairs : SetLanguages(p)
    BY <2>1 DEF SetLanguages, Replaceable, TypeOK, IsActive, Ended
  <2>2. CASE Stop
    <3>1. open /\ prepJob # NoJob => ~cancelled'[prepJob] \/ Ended(prepJob)
      BY <2>2 DEF Stop, Replaceable, TypeOK, Ledger, Ended
    <3> QED
      BY <2>2, <3>1 DEF Stop, Replaceable, Ended
  <2>3. CASE CloseScope
    BY <2>3 DEF CloseScope, Replaceable
  <2> QED
    BY <2>1, <2>2, <2>3
<1> QED
  BY <1>1, <1>4, <1>5, <1>6, <1>7

\* What launching does to the books.
LEMMA LaunchBooks ==
    ASSUME Lifecycle, NEW what \in {"prep", "pipeline"},
           NEW joins \in SUBSET Jobs, Launch(what, joins)
    PROVE  /\ launched' \in Jobs /\ launched' = launched + 1
           /\ pc' = pc /\ pc[launched'] = "new"
           /\ kind[launched'] = "none" /\ kind'[launched'] = what
           /\ cancelled'[launched'] = ~open
           /\ awaits'[launched'] = joins
           /\ \A k \in Jobs \ {launched'} :
                 kind'[k] = kind[k] /\ cancelled'[k] = cancelled[k] /\ awaits'[k] = awaits[k]
           /\ prepJob < launched' /\ pipelineJob < launched'
           /\ \A k \in Jobs : Launched(k)' <=> k <= launched'
<1> USE DEF Lifecycle
<1>1. launched' \in Jobs /\ launched' = launched + 1
  BY LaunchType
<1>2. launched \in Nat
  BY DEF TypeOK
<1>3. kind[launched'] = "none" /\ pc[launched'] = "new"
  BY <1>1, <1>2 DEF Ledger, Launched
<1>4. /\ prepJob # NoJob => prepJob <= launched
      /\ pipelineJob # NoJob => pipelineJob <= launched
  BY DEF Ledger, Launched, TypeOK
<1>5. /\ kind'[launched'] = what /\ cancelled'[launched'] = ~open
      /\ awaits'[launched'] = joins /\ pc' = pc
      /\ \A k \in Jobs \ {launched'} :
            kind'[k] = kind[k] /\ cancelled'[k] = cancelled[k] /\ awaits'[k] = awaits[k]
  BY <1>1 DEF Launch, TypeOK
<1>6. \A k \in Jobs : Launched(k)' <=> k <= launched'
  BY <1>1, <1>2, <1>3, <1>5 DEF Ledger, Launched, Jobs
<1> QED
  BY <1>1, <1>2, <1>3, <1>4, <1>5, <1>6 DEF TypeOK, NoJob, Jobs

\* Launching a preparation, from prepare() or from setLanguages, once the
\* current one is no longer active: it waits for the current one, or the
\* current one has ended, or the scope is cancelled and it is skipped itself.
LEMMA LaunchPrepChain ==
    ASSUME Lifecycle, NEW joins \in SUBSET Jobs, Launch("prep", joins),
           ~IsActive(prepJob),
           \/ prepJob # NoJob => prepJob \in joins
           \/ open => monitor # "relaunch"
    PROVE  Chain'
<1> USE DEF Lifecycle
<1>1. PICK n \in Jobs :
      /\ n = launched' /\ n = launched + 1 /\ pc' = pc /\ pc[n] = "new"
      /\ kind[n] = "none" /\ kind'[n] = "prep"
      /\ cancelled'[n] = ~open /\ awaits'[n] = joins
      /\ \A k \in Jobs \ {n} :
            kind'[k] = kind[k] /\ cancelled'[k] = cancelled[k] /\ awaits'[k] = awaits[k]
      /\ prepJob < n
  BY LaunchBooks
<1>2. \A k \in Jobs : Skipped(k) => Skipped(k)'
  BY <1>1 DEF Skipped
<1> SUFFICES ASSUME NEW i \in Jobs, NEW j \in Jobs, i < j,
                    kind'[i] = "prep", kind'[j] = "prep", ~Ended(i)'
             PROVE  Behind(i, j)'
  BY DEF Chain
<1>3. ~Ended(i)
  BY <1>1 DEF Ended
<1>4. \A k \in Jobs : kind'[k] = "prep" => k <= n
  BY <1>1 DEF Ledger, TypeOK, Jobs, NoJob
<1>5. i # n /\ kind[i] = "prep" /\ i <= prepJob
  BY <1>1, <1>4 DEF Ledger, Jobs
<1>6. CASE j # n
  <2>1. Behind(i, j)
    BY <1>1, <1>3, <1>5, <1>6 DEF Chain
  <2> QED
    BY <1>1, <1>2, <1>6, <2>1 DEF Behind
<1>7. CASE j = n
  <2>1. CASE ~open
    <3>1. Skipped(n)'
      BY <1>1, <2>1 DEF Skipped
    <3> QED
      BY <1>1, <1>7, <3>1 DEF Behind, Jobs
  <2>2. CASE open /\ i = prepJob
    <3>1. prepJob \in Jobs /\ ~Ended(prepJob) /\ cancelled[prepJob]
      BY <1>3, <2>2 DEF IsActive, TypeOK, Jobs, NoJob
    <3>2. prepJob \in joins
      BY <2>2, <3>1 DEF Replaceable, Jobs, NoJob
    <3> QED
      BY <1>1, <1>7, <2>2, <3>2 DEF Behind
  <2>3. CASE i < prepJob
    <3>1. prepJob \in Jobs /\ kind[prepJob] = "prep" /\ prepJob # NoJob
      BY <2>3 DEF TypeOK, Ledger, Jobs, NoJob
    <3>2. Behind(i, prepJob)
      BY <1>3, <1>5, <2>3, <3>1 DEF Chain
    <3>3. \E k \in Jobs : i < k /\ k <= prepJob /\ Skipped(k)
      <4>1. CASE pc[prepJob] = "new"
        <5>1. Skipped(prepJob)
          BY <3>1, <4>1 DEF IsActive, Ended, Skipped, TypeOK
        <5> QED
          BY <2>3, <3>1, <5>1 DEF Jobs
      <4>2. CASE pc[prepJob] # "new"
        BY <3>2, <4>2 DEF Behind
      <4> QED
        BY <4>1, <4>2
    <3> QED
      BY <1>1, <1>2, <1>7, <3>1, <3>3 DEF Behind, Jobs
  <2> QED
    BY <1>5, <2>1, <2>2, <2>3 DEF Jobs, TypeOK, NoJob
<1> QED
  BY <1>6, <1>7

\* A launch keeps the rest of the invariant, given what the method assigns.
LEMMA LaunchRest ==
    ASSUME Lifecycle, NEW what \in {"prep", "pipeline"},
           NEW joins \in SUBSET Jobs, Launch(what, joins), open' = open,
           \/ /\ what = "prep" /\ prepJob' = launched' /\ ~IsActive(prepJob)
              /\ pipelineJob' \in {pipelineJob, NoJob}
              /\ pipelineJob' = NoJob => ~IsActive(pipelineJob)
           \/ /\ what = "pipeline" /\ pipelineJob' = launched'
              /\ prepJob' = prepJob /\ ~IsActive(pipelineJob),
           monitor' \in {"free", "launch"},
           monitor # "relaunch" \/ what = "prep",
           monitor' = "launch" => what = "prep" /\ ~IsActive(pipelineJob)
    PROVE  Ledger' /\ OneLiveJobOfEachKind' /\ Replaceable'
<1> USE DEF Lifecycle
<1>1. PICK n \in Jobs :
      /\ n = launched' /\ n = launched + 1 /\ pc' = pc /\ pc[n] = "new"
      /\ kind[n] = "none" /\ kind'[n] = what
      /\ cancelled'[n] = ~open /\ awaits'[n] = joins
      /\ \A k \in Jobs \ {n} :
            kind'[k] = kind[k] /\ cancelled'[k] = cancelled[k] /\ awaits'[k] = awaits[k]
      /\ prepJob < n /\ pipelineJob < n
      /\ \A k \in Jobs : Launched(k)' <=> k <= n
  BY LaunchBooks
<1>2. \A k \in Jobs \ {n} : IsActive(k)' <=> IsActive(k)
  BY <1>1 DEF IsActive, Ended
<1>3. \A k \in Jobs \ {n} : Launched(k)' <=> Launched(k)
  BY <1>1 DEF Launched
<1>4. prepJob # n /\ pipelineJob # n
  BY <1>1 DEF Jobs, NoJob, TypeOK
<1>5. Ledger'
  <2>1. \A j \in Jobs : Launched(j)' <=> j <= launched'
    BY <1>1
  <2>2. \A j \in Jobs : ~Launched(j)' => pc'[j] = "new" /\ ~cancelled'[j]
    BY <1>1, <1>3 DEF Ledger, Jobs
  <2>3. prepJob' # NoJob => kind'[prepJob'] = "prep"
    BY <1>1, <1>4 DEF Ledger, TypeOK
  <2>4. pipelineJob' # NoJob => kind'[pipelineJob'] = "pipeline"
    BY <1>1, <1>4 DEF Ledger, TypeOK
  <2>5. \A j \in Jobs : kind'[j] = "prep" => j <= prepJob'
    BY <1>1, <1>4 DEF Ledger, TypeOK, Jobs, NoJob
  <2> QED
    BY <2>1, <2>2, <2>3, <2>4, <2>5 DEF Ledger, Launched
<1>6. OneLiveJobOfEachKind'
  <2> SUFFICES ASSUME NEW j \in Jobs, Launched(j)', IsActive(j)'
               PROVE  \/ kind'[j] = "prep" /\ j = prepJob'
                      \/ kind'[j] = "pipeline" /\ j = pipelineJob'
    BY DEF OneLiveJobOfEachKind
  <2>1. CASE j = n
    BY <1>1, <2>1
  <2>2. CASE j # n
    <3>1. Launched(j) /\ IsActive(j) /\ kind'[j] = kind[j]
      BY <1>1, <1>2, <1>3, <2>2
    <3>2. \/ kind[j] = "prep" /\ j = prepJob
          \/ kind[j] = "pipeline" /\ j = pipelineJob
      BY <3>1 DEF OneLiveJobOfEachKind
    <3> QED
      BY <3>1, <3>2
  <2> QED
    BY <2>1, <2>2
<1>7. Replaceable'
  <2>1. monitor' = "launch" => ~IsActive(pipelineJob)'
    BY <1>2, <1>4 DEF IsActive, TypeOK, Ended
  <2>2. ASSUME open', prepJob' # NoJob
        PROVE  ~cancelled'[prepJob'] \/ Ended(prepJob)'
    <3>1. CASE what = "prep"
      BY <1>1, <2>2, <3>1
    <3>2. CASE what = "pipeline"
      BY <1>1, <1>4, <2>2, <3>2 DEF Replaceable, Ended, TypeOK
    <3> QED
      BY <3>1, <3>2
  <2> QED
    BY <2>1, <2>2 DEF Replaceable, Ended
<1> QED
  BY <1>5, <1>6, <1>7

\* Method steps that launch a job.
LEMMA LaunchLifecycle ==
    ASSUME Lifecycle,
           \/ PrepareState /\ state \notin {"Ready", "Running"}
           \/ LaunchPipeline
           \/ Relaunch
    PROVE  Lifecycle'
<1> USE DEF Lifecycle
<1>1. TypeOK'
  BY MethodType DEF Return
<1>2. CASE PrepareState /\ state \notin {"Ready", "Running"}
  <2>1. /\ Launch("prep", {}) /\ prepJob' = launched'
        /\ UNCHANGED <<pipelineJob, open>>
        /\ monitor \in {"prepareState", "startState"}
        /\ monitor' = IF monitor = "startState" THEN "launch" ELSE "free"
    BY <1>2 DEF PrepareState
  <2>2. ~IsActive(prepJob) /\ (monitor' = "launch" => ~IsActive(pipelineJob))
    BY <2>1 DEF Replaceable
  <2>3. Chain'
    BY <2>1, <2>2, LaunchPrepChain
  <2>4. pipelineJob' = NoJob => ~IsActive(pipelineJob)
    BY <2>1 DEF IsActive
  <2> QED
    BY <1>1, <2>1, <2>2, <2>3, <2>4, LaunchRest
<1>3. CASE LaunchPipeline
  <2>1. /\ Launch("pipeline", {}) /\ pipelineJob' = launched' /\ monitor' = "free"
        /\ monitor = "launch" /\ UNCHANGED <<prepJob, open>>
    BY <1>3 DEF LaunchPipeline
  <2>2. ~IsActive(pipelineJob)
    BY <2>1 DEF Replaceable
  <2>3. PICK n \in Jobs :
        /\ pc' = pc /\ kind[n] = "none" /\ kind'[n] = "pipeline"
        /\ \A k \in Jobs \ {n} :
              kind'[k] = kind[k] /\ cancelled'[k] = cancelled[k] /\ awaits'[k] = awaits[k]
    BY <2>1, LaunchBooks
  <2>4. Chain'
    BY <2>3 DEF Chain, Behind, Skipped, Ended
  <2> QED
    BY <1>1, <2>1, <2>2, <2>4, LaunchRest
<1>4. CASE Relaunch
  <2> DEFINE joins == {prepJob, pipelineJob} \ {NoJob}
  <2>1. /\ Launch("prep", joins) /\ prepJob' = launched' /\ pipelineJob' = NoJob
        /\ monitor' = "free" /\ monitor = "relaunch" /\ UNCHANGED open
    BY <1>4 DEF Relaunch
  <2>2. joins \in SUBSET Jobs /\ (prepJob # NoJob => prepJob \in joins)
    BY DEF TypeOK
  <2>3. ~IsActive(prepJob) /\ ~IsActive(pipelineJob)
    BY <2>1 DEF Replaceable
  <2> HIDE DEF joins
  <2>4. Chain'
    BY <2>1, <2>2, <2>3, LaunchPrepChain
  <2> QED
    BY <1>1, <2>1, <2>2, <2>3, <2>4, LaunchRest
<1> QED
  BY <1>2, <1>3, <1>4

\* Lifecycle holds at first and is inductive.
LEMMA InitLifecycle == Init => Lifecycle
<1> SUFFICES ASSUME Init PROVE Lifecycle
  OBVIOUS
<1>1. TypeOK
  BY InitType
<1>2. Ledger /\ Replaceable /\ OneLiveJobOfEachKind /\ Chain
  BY DEF Init, Ledger, Replaceable, OneLiveJobOfEachKind, Chain, Launched, Jobs, NoJob, IsActive
<1> QED
  BY <1>1, <1>2 DEF Lifecycle

LEMMA NextLifecycle == Lifecycle /\ [Next]_vars => Lifecycle'
<1> SUFFICES ASSUME Lifecycle, [Next]_vars PROVE Lifecycle'
  OBVIOUS
<1>1. CASE Call
  BY <1>1, QuietLifecycle, CancelLifecycle DEF Call
<1>2. CASE Return
  BY <1>2, QuietLifecycle, CancelLifecycle, LaunchLifecycle DEF Return
<1>3. CASE \E j \in Jobs : Coroutine(j) \/ World(j)
  BY <1>3, CoroutineLifecycle
<1>4. CASE UNCHANGED vars
  <2>1. TypeOK'
    BY <1>4, NextType DEF Lifecycle
  <2> QED
    BY <1>4, <2>1 DEF vars, Lifecycle, Ledger, Replaceable, OneLiveJobOfEachKind, Chain,
       Behind, Skipped, Launched, IsActive, Ended
<1> QED
  BY <1>1, <1>2, <1>3, <1>4 DEF Next

\* No sequence of calls, whatever the coroutines do meanwhile, leaves two
\* preparations or two pipelines that nobody cancelled.
THEOREM OneLiveJob == Spec => []OneLiveJobOfEachKind
<1>1. Lifecycle => OneLiveJobOfEachKind
  BY DEF Lifecycle
<1> QED
  BY <1>1, InitLifecycle, NextLifecycle, PTL DEF Spec

\* Two preparations meet in the engines only across a third that was
\* cancelled while it waited for the first.
THEOREM OverlapExplained == Spec => []OverlapNeedsASkippedPreparation
<1>1. Lifecycle => OverlapNeedsASkippedPreparation
  <2> SUFFICES ASSUME Lifecycle, NEW i \in Jobs, NEW j \in Jobs, i < j,
                      kind[i] = "prep", InEngine(i), kind[j] = "prep", InEngine(j)
               PROVE  \E k \in Jobs :
                         /\ i < k /\ k < j
                         /\ kind[k] = "prep"
                         /\ cancelled[k] /\ pc[k] \in {"new", "skipped"}
    BY DEF OverlapNeedsASkippedPreparation
  <2>1. ~Ended(i) /\ pc[j] \notin {"new", "skipped"}
    BY DEF InEngine, Ended
  <2>2. PICK k \in Jobs : i < k /\ k <= j /\ Skipped(k)
    BY <2>1 DEF Lifecycle, Chain, Behind
  <2>3. k # j
    BY <2>1, <2>2 DEF Skipped
  <2> QED
    BY <2>2, <2>3 DEF Skipped, Jobs
<1> QED
  BY <1>1, InitLifecycle, NextLifecycle, PTL DEF Spec

-----------------------------------------------------------------------------
(* After close().                                                          *)

\* Once the scope is cancelled, so is every job that has not ended.
AllCancelled ==
    ~open => \A j \in Jobs : Launched(j) /\ ~Ended(j) => cancelled[j]

LEMMA NextAllCancelled ==
    ASSUME Lifecycle, AllCancelled, [Next]_vars
    PROVE  AllCancelled'
<1> USE DEF Lifecycle
<1>1. ASSUME NEW m \in Jobs, Coroutine(m) \/ World(m) PROVE AllCancelled'
  <2>1. Frame(m)
    BY <1>1, CoroutineFrame
  <2> QED
    BY <2>1 DEF Frame, AllCancelled, Launched, Ended
<1>2. ASSUME NEW what \in {"prep", "pipeline"}, NEW joins \in SUBSET Jobs,
             Launch(what, joins), open' = open
      PROVE  AllCancelled'
  <2>1. PICK n \in Jobs :
        /\ pc' = pc /\ cancelled'[n] = ~open
        /\ \A k \in Jobs \ {n} : kind'[k] = kind[k] /\ cancelled'[k] = cancelled[k]
    BY <1>2, LaunchBooks
  <2> QED
    BY <1>2, <2>1 DEF AllCancelled, Launched, Ended
<1>3. CASE PrepareState \/ LaunchPipeline \/ Relaunch
  <2>1. CASE UNCHANGED <<open, jobVars>>
    BY <2>1 DEF AllCancelled, Launched, Ended, jobVars
  <2>2. CASE /\ open' = open
             /\ \/ Launch("prep", {})
                \/ Launch("pipeline", {})
                \/ Launch("prep", {prepJob, pipelineJob} \ {NoJob})
    BY <1>2, <2>2 DEF TypeOK
  <2> QED
    BY <1>3, <2>1, <2>2 DEF PrepareState, LaunchPipeline, Relaunch
<1>4. CASE (\E p \in Pairs : SetLanguages(p)) \/ Stop \/ CloseScope
  BY <1>4 DEF SetLanguages, Stop, CloseScope, AllCancelled, Launched, Ended, TypeOK
<1>5. CASE Prepare \/ Start \/ StopRead \/ StopWrite \/ Close \/ CloseAsr \/ CloseTranslator
  BY <1>5 DEF Prepare, Start, StopRead, StopWrite, Close, CloseAsr, CloseTranslator,
     Release, AllCancelled, Launched, Ended, jobVars
<1>6. CASE UNCHANGED vars
  BY <1>6 DEF vars, AllCancelled, Launched, Ended
<1> QED
  BY <1>1, <1>3, <1>4, <1>5, <1>6 DEF Next, Call, Return

\* After close() no job, old or new, gets past its start.
THEOREM NothingStarts == Spec => NothingStartsAfterClose
<1> DEFINE A == \A j \in Jobs : ~open /\ pc[j] = "new" => pc'[j] \in {"new", "skipped"}
<1>1. Init => AllCancelled
  BY DEF Init, AllCancelled
<1>2. ASSUME Lifecycle, AllCancelled, [Next]_vars PROVE [A]_vars
  <2> USE DEF Lifecycle
  <2>1. ASSUME NEW m \in Jobs, Coroutine(m) \/ World(m) PROVE A
    <3> SUFFICES ASSUME NEW j \in Jobs, ~open, pc[j] = "new"
                 PROVE  pc'[j] \in {"new", "skipped"}
      OBVIOUS
    <3>1. Frame(m)
      BY <1>2, <2>1, CoroutineFrame
    <3>2. CASE j = m /\ pc' # pc
      BY <1>2, <3>1, <3>2 DEF Frame, AllCancelled, Ended
    <3>3. CASE j # m \/ pc' = pc
      BY <3>1, <3>3 DEF Frame
    <3> QED
      BY <3>2, <3>3
  <2>2. CASE Call \/ Return
    <3>1. pc' = pc
      BY <2>2 DEF Call, Return, Prepare, PrepareState, Start, LaunchPipeline, SetLanguages,
         Relaunch, Stop, StopRead, StopWrite, Close, CloseScope, CloseAsr,
         CloseTranslator, Release, Launch, jobVars
    <3> QED
      BY <3>1
  <2> QED
    BY <1>2, <2>1, <2>2 DEF Next
<1>3. Lifecycle /\ AllCancelled /\ [Next]_vars => AllCancelled'
  BY NextAllCancelled
<1>4. Lifecycle /\ AllCancelled /\ [Next]_vars => [A]_vars
  BY <1>2
<1>5. Spec => [][A]_vars
  BY <1>1, <1>3, <1>4, InitLifecycle, NextLifecycle, PTL DEF Spec
<1> QED
  BY <1>5 DEF NothingStartsAfterClose

-----------------------------------------------------------------------------
(* What a running pipeline may rely on.                                    *)

\* Where the two kinds of job can be, and what they can be about to write.
Bodies ==
    \A j \in Jobs :
        /\ kind[j] = "prep" => pc[j] \notin {"join", "check", "run"}
        /\ kind[j] = "pipeline" => pc[j] \in PipePcs \cup {"exit", "done", "skipped"}
        /\ pc[j] \in {"new", "done", "skipped"} => publishing[j] = "none"
        /\ publishing[j] = "Ready" => kind[j] = "prep" /\ pc[j] = "exit"
        /\ publishing[j] = "Running" => kind[j] = "pipeline" /\ pc[j] = "run"
        /\ pc[j] = "new" => on[j] = "asr"
        /\ pc[j] # "new" /\ kind[j] = "prep" => awaits[j] = {}

\* What the holder of the monitor has done already, and that the jobs the
\* session holds are cancelled only by those who replace them.
Held ==
    /\ monitor \in {"stopRead", "stopWrite"} => pipelineJob = NoJob
    /\ monitor \in {"closeAsr", "closeTranslator"} => ~open
    /\ open /\ monitor # "relaunch" /\ pipelineJob # NoJob =>
          ~cancelled[pipelineJob] \/ Ended(pipelineJob)
    /\ open /\ monitor # "relaunch" /\ prepJob # NoJob => pc[prepJob] # "skipped"

\* The current preparation has not published anything yet: _state may still
\* be what a job it waits for wrote.
Early ==
    \/ pc[prepJob] = "new"
    \/ /\ on[prepJob] = "asr"
       /\ \/ pc[prepJob] = "open"
          \/ pc[prepJob] = "claim" /\ publishing[prepJob] = "Preparing"

\* The current pipeline cannot get to its check of _state before the current
\* preparation has ended.
Blocked ==
    \/ pipelineJob = NoJob
    \/ Ended(pipelineJob)
    \/ pc[pipelineJob] = "new"
    \/ pc[pipelineJob] = "join" /\ prepJob \in awaits[pipelineJob]

LoadedForConfig == \A e \in Engines : engine[e] = config

\* The current preparation is through, and both engines are loaded.
Settled ==
    /\ prepJob # NoJob
    /\ pc[prepJob] = "done" \/ (pc[prepJob] = "exit" /\ publishing[prepJob] = "none")
    /\ LoadedForConfig

Undisturbed == ~strayed /\ open /\ monitor # "relaunch"

\* Ready and Running can be believed, but for the time before the current
\* preparation first writes.
Believable ==
    Undisturbed /\ state \in {"Ready", "Running"} =>
        prepJob # NoJob /\ (Early \/ Settled)

\* In that time a pipeline that could check _state does not find it Ready, and
\* nobody is left to make it so.
Unready ==
    Undisturbed /\ prepJob # NoJob /\ Early /\ ~Blocked =>
        awaits[prepJob] = {} /\ state \notin {"Ready", "Running"}

\* The pipeline runs on a settled preparation, and _state says so or is about
\* to, unless close() has just written Closed.
RunsSettled ==
    Undisturbed /\ pipelineJob # NoJob /\ pc[pipelineJob] = "run" =>
        /\ Settled
        /\ \/ monitor = "closeScope"
           \/ publishing[pipelineJob] = "Running" /\ state = "Ready"
           \/ publishing[pipelineJob] = "none" /\ state = "Running"

\* How far the current preparation has brought the engines.
Progress ==
    Undisturbed /\ prepJob # NoJob =>
        /\ pc[prepJob] \in {"claim", "load", "loaded", "warm"} => pair[prepJob] = config
        /\ /\ on[prepJob] = "translator"
           /\ pc[prepJob] \in {"open", "claim", "load", "loaded"}
           => engine["asr"] = config
        /\ pc[prepJob] = "load" /\ on[prepJob] \in PairBound =>
              engine[on[prepJob]] \in {NoPair, config}
        /\ pc[prepJob] = "loaded" => engine[on[prepJob]] = config
        /\ pc[prepJob] = "warm" \/ (pc[prepJob] = "exit" /\ publishing[prepJob] = "Ready") =>
              LoadedForConfig

Reliable == Believable /\ Unready /\ RunsSettled /\ Progress

IInv == Lifecycle /\ AllCancelled /\ Bodies /\ Held /\ Reliable

\* A coroutine step moves nothing of another job, nor the fields of the session.
LEMMA CoroutineAlone ==
    ASSUME TypeOK, NEW m \in Jobs, Coroutine(m) \/ World(m)
    PROVE  /\ \A k \in Jobs \ {m} :
                 /\ pc'[k] = pc[k] /\ awaits'[k] = awaits[k] /\ cancelled'[k] = cancelled[k]
                 /\ pair'[k] = pair[k] /\ on'[k] = on[k] /\ publishing'[k] = publishing[k]
           /\ UNCHANGED <<config, prepJob, pipelineJob, monitor, open, launched, kind>>
           /\ state' # state \/ engine' # engine =>
                 /\ publishing[m] # "none" \/ pc[m] \in {"claim", "load"}
                 /\ Touch(m)
           /\ strayed => strayed'
<1> USE DEF TypeOK, sessionVars, At, Goto, Touch
<1>1. CASE Publish(m) \/ Skip(m) \/ Complete(m) \/ Begin(m)
  BY <1>1 DEF Publish, Skip, Complete, Begin
<1>2. CASE OpenEngine(m) \/ EngineReady(m)
  BY <1>2 DEF OpenEngine, EngineReady
<1>3. CASE Claim(m)
  BY <1>3 DEF Claim
<1>4. CASE Load(m)
  BY <1>4 DEF Load
<1>5. CASE EngineError(m) \/ EngineThrows(m) \/ EngineSilent(m) \/ VerifyOutcome(m)
  BY <1>5 DEF EngineError, EngineThrows, EngineSilent, VerifyOutcome
<1>6. CASE WarmUp(m) \/ AbandonPreparation(m) \/ ReadPrepJob(m) \/ Joined(m)
  BY <1>6 DEF WarmUp, AbandonPreparation, ReadPrepJob, Joined
<1>7. CASE CheckReady(m) \/ AbandonPipeline(m) \/ AudioEnds(m) \/ PipelineFails(m)
  BY <1>7 DEF CheckReady, AbandonPipeline, AudioEnds, PipelineFails
<1> QED
  BY <1>1, <1>2, <1>3, <1>4, <1>5, <1>6, <1>7 DEF Coroutine, World

\* The bodies keep to their places.
LEMMA CoroutineBodies ==
    ASSUME TypeOK, Bodies, NEW m \in Jobs, Coroutine(m) \/ World(m)
    PROVE  Bodies'
<1>1. /\ \A k \in Jobs \ {m} :
            pc'[k] = pc[k] /\ awaits'[k] = awaits[k] /\ on'[k] = on[k] /\ publishing'[k] = publishing[k]
      /\ kind' = kind
  BY CoroutineAlone
<1> USE DEF TypeOK, Bodies, At, Goto, PipePcs, Launched
<1>2. CASE Publish(m) \/ Skip(m) \/ Complete(m) \/ Begin(m)
  BY <1>2 DEF Publish, Skip, Complete, Begin
<1>3. CASE OpenEngine(m) \/ EngineReady(m)
  BY <1>3 DEF OpenEngine, EngineReady
<1>4. CASE Claim(m)
  BY <1>4 DEF Claim
<1>5. CASE Load(m)
  BY <1>5 DEF Load
<1>6. CASE EngineError(m) \/ EngineThrows(m) \/ EngineSilent(m) \/ VerifyOutcome(m)
  BY <1>6 DEF EngineError, EngineThrows, EngineSilent, VerifyOutcome
<1>7. CASE WarmUp(m) \/ AbandonPreparation(m) \/ ReadPrepJob(m) \/ Joined(m)
  BY <1>7 DEF WarmUp, AbandonPreparation, ReadPrepJob, Joined
<1>8. CASE CheckReady(m) \/ AbandonPipeline(m) \/ AudioEnds(m) \/ PipelineFails(m)
  BY <1>8 DEF CheckReady, AbandonPipeline, AudioEnds, PipelineFails
<1> QED
  BY <1>2, <1>3, <1>4, <1>5, <1>6, <1>7, <1>8 DEF Coroutine, World

\* What is held stays so: nobody but its replacer cancels the current job.
LEMMA CoroutineHeld ==
    ASSUME Lifecycle, Held, NEW m \in Jobs, Coroutine(m) \/ World(m)
    PROVE  Held'
<1>1. Frame(m)
  BY CoroutineFrame DEF Lifecycle
<1>2. /\ UNCHANGED <<prepJob, pipelineJob, monitor, open>>
      /\ \A k \in Jobs : cancelled'[k] => cancelled[k]
      /\ \A k \in Jobs : Ended(k) => Ended(k)'
  BY <1>1 DEF Frame, Ended
<1>3. ASSUME open, monitor # "relaunch", pipelineJob # NoJob
      PROVE  ~cancelled'[pipelineJob] \/ Ended(pipelineJob)'
  BY <1>2, <1>3 DEF Held, Lifecycle, TypeOK
<1>4. ASSUME open, monitor # "relaunch", prepJob # NoJob
      PROVE  pc'[prepJob] # "skipped"
  <2>1. prepJob \in Jobs /\ pc[prepJob] # "skipped"
    BY <1>4 DEF Held, Lifecycle, TypeOK
  <2>2. ~cancelled[prepJob] \/ Ended(prepJob)
    BY <1>4 DEF Lifecycle, Replaceable
  <2> QED
    BY <1>1, <2>1, <2>2 DEF Frame, Ended
<1> QED
  BY <1>2, <1>3, <1>4 DEF Held, Ended

\* A job other than the current two that still writes _state or an engine,
\* and is no stray, is one the current preparation waits for.
LEMMA WhoTouches ==
    ASSUME Lifecycle, Bodies, NEW m \in Jobs, Coroutine(m) \/ World(m),
           m # prepJob, m # pipelineJob, ~strayed',
           state' # state \/ engine' # engine
    PROVE  prepJob # NoJob /\ m \in awaits[prepJob] /\ pc[prepJob] = "new"
<1> USE DEF Lifecycle
<1>1. (publishing[m] # "none" \/ pc[m] \in {"claim", "load"}) /\ Touch(m)
  BY CoroutineAlone
<1>2. pc[m] # "new" /\ ~Ended(m)
  BY <1>1 DEF Bodies, Ended
<1>3. Launched(m)
  BY <1>2 DEF Ledger
<1>4. cancelled[m]
  BY <1>2, <1>3 DEF OneLiveJobOfEachKind, IsActive, Jobs, NoJob
<1>5. Awaited(m)
  BY <1>1, <1>4 DEF Touch
<1>6. prepJob # NoJob /\ m \in awaits[prepJob]
  BY <1>5 DEF Awaited
<1> QED
  BY <1>6 DEF Bodies, TypeOK, Ledger

\* The steps of the jobs that are not the session's own.
LEMMA OthersReliable ==
    ASSUME IInv, NEW m \in Jobs, Coroutine(m) \/ World(m),
           m # prepJob, m # pipelineJob
    PROVE  Reliable'
<1> USE DEF IInv
<1>1. /\ \A k \in Jobs \ {m} :
            /\ pc'[k] = pc[k] /\ awaits'[k] = awaits[k] /\ cancelled'[k] = cancelled[k]
            /\ pair'[k] = pair[k] /\ on'[k] = on[k] /\ publishing'[k] = publishing[k]
      /\ UNCHANGED <<config, prepJob, pipelineJob, monitor, open>>
      /\ Undisturbed' => Undisturbed
  BY CoroutineAlone DEF Lifecycle, Undisturbed
<1>2. /\ prepJob # NoJob => prepJob \in Jobs \ {m}
      /\ pipelineJob # NoJob => pipelineJob \in Jobs \ {m}
  BY DEF Lifecycle, TypeOK
<1>3. /\ prepJob # NoJob =>
            /\ pc'[prepJob] = pc[prepJob] /\ on'[prepJob] = on[prepJob]
            /\ pair'[prepJob] = pair[prepJob]
            /\ publishing'[prepJob] = publishing[prepJob]
            /\ awaits'[prepJob] = awaits[prepJob]
      /\ pipelineJob # NoJob =>
            /\ pc'[pipelineJob] = pc[pipelineJob]
            /\ publishing'[pipelineJob] = publishing[pipelineJob]
            /\ awaits'[pipelineJob] = awaits[pipelineJob]
  BY <1>1, <1>2
<1>4. /\ prepJob # NoJob => (Early' <=> Early)
      /\ Blocked' <=> Blocked
  BY <1>1, <1>3 DEF Early, Blocked, Ended
<1>5. CASE state' = state /\ engine' = engine
  BY <1>1, <1>3, <1>4, <1>5
     DEF Reliable, Believable, Unready, RunsSettled, Progress, Settled, LoadedForConfig
<1>6. CASE ~(state' = state /\ engine' = engine) /\ Undisturbed'
  <2>1. prepJob # NoJob /\ m \in awaits[prepJob] /\ pc[prepJob] = "new"
    BY <1>6, WhoTouches DEF Undisturbed
  <2>2. Believable' /\ Progress'
    BY <1>1, <1>3, <2>1 DEF Believable, Progress, Early
  <2>3. Unready'
    BY <1>1, <1>4, <1>6, <2>1 DEF Reliable, Unready, Early
  <2>4. RunsSettled'
    BY <1>1, <1>3, <1>6, <2>1 DEF Reliable, RunsSettled, Settled
  <2> QED
    BY <2>2, <2>3, <2>4 DEF Reliable
<1>7. CASE ~Undisturbed'
  BY <1>7 DEF Reliable, Believable, Unready, RunsSettled, Progress
<1> QED
  BY <1>5, <1>6, <1>7

\* The steps of the current preparation.
LEMMA PrepReliable ==
    ASSUME IInv, NEW m \in Jobs, Coroutine(m) \/ World(m), m = prepJob
    PROVE  Reliable'
<1> USE DEF IInv
<1>1. /\ UNCHANGED <<config, prepJob, pipelineJob, monitor, open, kind>>
      /\ Undisturbed' => Undisturbed
  BY CoroutineAlone DEF Lifecycle, Undisturbed
<1>2. CASE ~Undisturbed'
  BY <1>2 DEF Reliable, Believable, Unready, RunsSettled, Progress
<1> SUFFICES ASSUME Undisturbed' PROVE Reliable'
  BY <1>2
<1>3. Undisturbed /\ open /\ monitor # "relaunch" /\ prepJob # NoJob
  BY <1>1 DEF Undisturbed, Jobs, NoJob
<1>4. /\ kind[m] = "prep" /\ pc[m] \notin {"join", "check", "run", "skipped"}
      /\ pc[m] \notin {"done"} => ~cancelled[m]
      /\ pipelineJob # NoJob => pipelineJob \in Jobs \ {m}
  BY <1>3 DEF Lifecycle, Ledger, Replaceable, Bodies, Held, Ended, TypeOK
<1>5. pipelineJob # NoJob =>
        /\ pc'[pipelineJob] = pc[pipelineJob]
        /\ publishing'[pipelineJob] = publishing[pipelineJob]
        /\ awaits'[pipelineJob] = awaits[pipelineJob]
  BY <1>4, CoroutineAlone DEF Lifecycle
<1>6. Blocked' <=> Blocked
  BY <1>1, <1>5 DEF Blocked, Ended
<1>7. /\ pc \in [Jobs -> Pcs] /\ on \in [Jobs -> Engines] /\ pair \in [Jobs -> Pairs \cup {NoPair}]
      /\ publishing \in [Jobs -> {"none", "Preparing", "Ready", "Running", "Error"}]
      /\ engine \in [Engines -> Pairs \cup {NoPair}] /\ awaits \in [Jobs -> SUBSET Jobs]
      /\ config \in Pairs /\ cancelled \in [Jobs -> BOOLEAN]
  BY DEF Lifecycle, TypeOK
<1>8. Believable /\ Unready /\ RunsSettled /\ Progress
  BY DEF Reliable
<1>9. /\ publishing[m] = "Ready" => pc[m] = "exit"
      /\ publishing[m] # "Running"
      /\ pc[m] \in {"new", "done", "skipped"} => publishing[m] = "none"
      /\ pc[m] = "new" => on[m] = "asr"
      /\ pc[m] # "new" => awaits[m] = {}
  BY <1>4, <1>7 DEF Bodies
<1> USE <1>1, <1>3, <1>4, <1>5, <1>6, <1>7, <1>8, <1>9
        DEF Reliable, Believable, Unready, RunsSettled, Progress, Settled, LoadedForConfig,
            Early, At, Goto, sessionVars, Engines
<1>10. CASE Publish(m)
  BY <1>10 DEF Publish
<1>11. CASE Complete(m)
  BY <1>11 DEF Complete
<1>12. CASE Begin(m)
  BY <1>12 DEF Begin
<1>13. CASE OpenEngine(m)
  BY <1>13 DEF OpenEngine
<1>14. CASE Claim(m)
  BY <1>14 DEF Claim
<1>15. CASE Load(m)
  BY <1>15 DEF Load
<1>16. CASE EngineError(m) \/ EngineThrows(m) \/ EngineSilent(m)
  BY <1>16 DEF EngineError, EngineThrows, EngineSilent
<1>17. CASE VerifyOutcome(m)
  BY <1>17 DEF VerifyOutcome
<1>18. CASE EngineReady(m)
  BY <1>18 DEF EngineReady
<1>19. CASE WarmUp(m)
  BY <1>19 DEF WarmUp
<1>20. CASE \/ Skip(m) \/ AbandonPreparation(m) \/ ReadPrepJob(m) \/ Joined(m)
            \/ CheckReady(m) \/ AbandonPipeline(m) \/ World(m)
  BY <1>20 DEF Skip, AbandonPreparation, ReadPrepJob, Joined, CheckReady, AbandonPipeline,
     World, AudioEnds, PipelineFails
<1> QED
  BY <1>10, <1>11, <1>12, <1>13, <1>14, <1>15, <1>16, <1>17, <1>18, <1>19, <1>20 DEF Coroutine

\* The steps of the current pipeline.
LEMMA PipelineReliable ==
    ASSUME IInv, NEW m \in Jobs, Coroutine(m) \/ World(m), m = pipelineJob
    PROVE  Reliable'
<1> USE DEF IInv
<1>1. /\ UNCHANGED <<config, prepJob, pipelineJob, monitor, open, kind>>
      /\ Undisturbed' => Undisturbed
  BY CoroutineAlone DEF Lifecycle, Undisturbed
<1>2. CASE ~Undisturbed'
  BY <1>2 DEF Reliable, Believable, Unready, RunsSettled, Progress
<1> SUFFICES ASSUME Undisturbed' PROVE Reliable'
  BY <1>2
<1>3. Undisturbed /\ open /\ monitor # "relaunch" /\ pipelineJob # NoJob
  BY <1>1 DEF Undisturbed, Jobs, NoJob
<1>4. /\ kind[m] = "pipeline" /\ pc[m] \in PipePcs \cup {"exit", "done", "skipped"}
      /\ pc[m] \notin {"done", "skipped"} => ~cancelled[m]
      /\ prepJob # NoJob => prepJob \in Jobs \ {m}
  BY <1>3 DEF Lifecycle, Ledger, Bodies, Held, Ended, TypeOK
<1>5. prepJob # NoJob =>
        /\ pc'[prepJob] = pc[prepJob] /\ on'[prepJob] = on[prepJob]
        /\ pair'[prepJob] = pair[prepJob]
        /\ publishing'[prepJob] = publishing[prepJob]
        /\ awaits'[prepJob] = awaits[prepJob]
  BY <1>4, CoroutineAlone DEF Lifecycle
<1>6. prepJob # NoJob => (Early' <=> Early) /\ (Early => ~Ended(prepJob))
  BY <1>5, <1>1 DEF Early, Ended
<1>7. /\ pc \in [Jobs -> Pcs] /\ awaits \in [Jobs -> SUBSET Jobs]
      /\ publishing \in [Jobs -> {"none", "Preparing", "Ready", "Running", "Error"}]
      /\ cancelled \in [Jobs -> BOOLEAN]
  BY DEF Lifecycle, TypeOK
<1>8. Believable /\ Unready /\ RunsSettled /\ Progress
  BY DEF Reliable
<1>9. /\ publishing[m] # "Ready"
      /\ publishing[m] = "Running" => pc[m] = "run"
      /\ pc[m] \in {"new", "done", "skipped"} => publishing[m] = "none"
  BY <1>4, <1>7 DEF Bodies
<1> USE <1>1, <1>3, <1>4, <1>5, <1>6, <1>7, <1>8, <1>9
        DEF Reliable, Believable, Unready, RunsSettled, Progress, Settled, LoadedForConfig,
            Blocked, Ended, At, Goto, sessionVars, PipePcs
<1>10. CASE Publish(m)
  BY <1>10 DEF Publish, Early
<1>11. CASE Complete(m)
  BY <1>11 DEF Complete
<1>12. CASE ReadPrepJob(m)
  BY <1>12 DEF ReadPrepJob
<1>13. CASE Joined(m)
  BY <1>13 DEF Joined
<1>14. CASE CheckReady(m)
  BY <1>14 DEF CheckReady
<1>15. CASE AudioEnds(m) \/ PipelineFails(m)
  BY <1>15 DEF AudioEnds, PipelineFails
<1>16. CASE \/ Skip(m) \/ Begin(m) \/ OpenEngine(m) \/ Claim(m) \/ Load(m)
            \/ EngineError(m) \/ EngineThrows(m) \/ EngineSilent(m) \/ VerifyOutcome(m)
            \/ EngineReady(m) \/ WarmUp(m) \/ AbandonPreparation(m) \/ AbandonPipeline(m)
  BY <1>16 DEF Skip, Begin, OpenEngine, Claim, Load, EngineError, EngineThrows, EngineSilent,
     VerifyOutcome, EngineReady, WarmUp, AbandonPreparation, AbandonPipeline
<1> QED
  BY <1>10, <1>11, <1>12, <1>13, <1>14, <1>15, <1>16 DEF Coroutine, World

\* The bodies, when a method steps: a job it launches is at its start.
LEMMA MethodBodies ==
    ASSUME Lifecycle, Bodies, Call \/ Return
    PROVE  Bodies'
<1> USE DEF Lifecycle
<1>1. CASE UNCHANGED <<kind, pc, awaits, on, publishing>>
  BY <1>1 DEF Bodies
<1>2. ASSUME NEW what \in {"prep", "pipeline"}, NEW joins \in SUBSET Jobs, Launch(what, joins)
      PROVE  Bodies'
  <2>1. PICK n \in Jobs :
        /\ pc' = pc /\ pc[n] = "new" /\ kind'[n] = what
        /\ \A k \in Jobs \ {n} : kind'[k] = kind[k] /\ awaits'[k] = awaits[k]
    BY <1>2, LaunchBooks
  <2>2. on' = on /\ publishing' = publishing
    BY <1>2 DEF Launch
  <2> QED
    BY <2>1, <2>2 DEF Bodies, PipePcs
<1>3. \/ UNCHANGED <<kind, pc, awaits, on, publishing>>
      \/ Launch("prep", {})
      \/ Launch("pipeline", {})
      \/ Launch("prep", {prepJob, pipelineJob} \ {NoJob})
  BY DEF Call, Return, Prepare, PrepareState, Start, LaunchPipeline, SetLanguages, Relaunch,
     Stop, StopRead, StopWrite, Close, CloseScope, CloseAsr, CloseTranslator, Release, jobVars
<1> QED
  BY <1>1, <1>2, <1>3 DEF TypeOK

\* A launch leaves held what is held.
LEMMA LaunchHeld ==
    ASSUME Lifecycle, Held, NEW what \in {"prep", "pipeline"},
           NEW joins \in SUBSET Jobs, Launch(what, joins),
           monitor' \in {"free", "launch"}, open' = open,
           \/ prepJob' = launched' /\ pipelineJob' \in {pipelineJob, NoJob}
           \/ prepJob' = prepJob /\ pipelineJob' = launched',
           monitor = "relaunch" => prepJob' = launched' /\ pipelineJob' = NoJob
    PROVE  Held'
<1> USE DEF Lifecycle
<1>1. PICK n \in Jobs :
      /\ n = launched' /\ pc' = pc /\ pc[n] = "new" /\ cancelled'[n] = ~open
      /\ \A k \in Jobs \ {n} : cancelled'[k] = cancelled[k]
      /\ prepJob < n /\ pipelineJob < n
  BY LaunchBooks
<1>2. prepJob # n /\ pipelineJob # n
  BY <1>1 DEF TypeOK, Jobs, NoJob
<1>3. ASSUME open, pipelineJob' # NoJob
      PROVE  ~cancelled'[pipelineJob'] \/ Ended(pipelineJob)'
  <2>1. CASE pipelineJob' = n
    BY <1>1, <1>3, <2>1
  <2>2. CASE pipelineJob' = pipelineJob /\ pipelineJob # NoJob /\ monitor # "relaunch"
    <3>1. ~cancelled[pipelineJob] \/ Ended(pipelineJob)
      BY <1>3, <2>2 DEF Held
    <3>2. pipelineJob \in Jobs \ {n}
      BY <1>2, <2>2 DEF TypeOK
    <3> QED
      BY <1>1, <2>2, <3>1, <3>2 DEF Ended
  <2> QED
    BY <1>1, <1>3, <2>1, <2>2
<1>4. ASSUME open, prepJob' # NoJob
      PROVE  pc'[prepJob'] # "skipped"
  BY <1>1, <1>2, <1>4 DEF Held, TypeOK
<1>5. monitor' \notin {"stopRead", "stopWrite", "closeAsr", "closeTranslator"}
  OBVIOUS
<1> QED
  BY <1>3, <1>4, <1>5 DEF Held, Ended

\* What is held, when a method steps.
LEMMA MethodHeld ==
    ASSUME Lifecycle, Bodies, Held, Call \/ Return
    PROVE  Held'
<1> USE DEF Lifecycle
<1>2. CASE PrepareState /\ state \notin {"Ready", "Running"}
  <2>1. /\ Launch("prep", {}) /\ prepJob' = launched' /\ pipelineJob' = pipelineJob
        /\ open' = open /\ monitor' \in {"free", "launch"} /\ monitor # "relaunch"
    BY <1>2 DEF PrepareState
  <2> QED
    BY <2>1, LaunchHeld
<1>3. CASE LaunchPipeline
  <2>1. /\ Launch("pipeline", {}) /\ pipelineJob' = launched' /\ prepJob' = prepJob
        /\ open' = open /\ monitor' = "free" /\ monitor # "relaunch"
    BY <1>3 DEF LaunchPipeline
  <2> QED
    BY <2>1, LaunchHeld
<1>4. CASE Relaunch
  <2>1. {prepJob, pipelineJob} \ {NoJob} \in SUBSET Jobs
    BY DEF TypeOK
  <2> QED
    BY <1>4, <2>1, LaunchHeld DEF Relaunch
<1>5. CASE PrepareState /\ state \in {"Ready", "Running"}
  BY <1>5 DEF PrepareState, Held, jobVars, Ended
<1>6. CASE Prepare \/ Start \/ Close \/ StopRead \/ StopWrite
  BY <1>6 DEF Prepare, Start, Close, StopRead, StopWrite, Held, jobVars, Ended
<1>7. CASE CloseAsr \/ CloseTranslator
  BY <1>7 DEF CloseAsr, CloseTranslator, Release, Held, jobVars, Ended
<1>8. CASE CloseScope \/ Stop \/ \E p \in Pairs : SetLanguages(p)
  BY <1>8 DEF CloseScope, Stop, SetLanguages, Held, Ended
<1> QED
  BY <1>2, <1>3, <1>4, <1>5, <1>6, <1>7, <1>8 DEF Call, Return

\* The methods that launch nothing.
LEMMA QuietReliable ==
    ASSUME IInv,
           \/ Prepare \/ Start \/ StopRead \/ StopWrite \/ Close \/ Stop \/ CloseScope
           \/ CloseAsr \/ CloseTranslator
           \/ \E p \in Pairs : SetLanguages(p)
           \/ PrepareState /\ state \in {"Ready", "Running"}
    PROVE  Reliable'
<1> USE DEF IInv
<1>1. Believable /\ Unready /\ RunsSettled /\ Progress
  BY DEF Reliable
<1>2. CASE ~Undisturbed'
  BY <1>2 DEF Reliable, Believable, Unready, RunsSettled, Progress
<1>3. CASE (\E p \in Pairs : SetLanguages(p)) \/ CloseScope \/ CloseAsr \/ CloseTranslator
  <2>1. ~Undisturbed'
    BY <1>3 DEF SetLanguages, CloseScope, CloseAsr, CloseTranslator, Release, Held, Undisturbed
  <2> QED
    BY <1>2, <2>1
<1>4. CASE \/ Prepare \/ Start \/ StopRead
           \/ PrepareState /\ state \in {"Ready", "Running"}
  <2>1. /\ UNCHANGED <<state, config, prepJob, pipelineJob, open, pc, awaits, pair, on,
                       publishing, engine, strayed>>
        /\ monitor \notin {"relaunch", "closeScope"}
    BY <1>4 DEF Prepare, Start, StopRead, PrepareState, jobVars
  <2> QED
    BY <1>1, <2>1 DEF Reliable, Believable, Unready, RunsSettled, Progress, Settled,
       LoadedForConfig, Early, Blocked, Ended, Undisturbed
<1>5. CASE Stop
  BY <1>1, <1>5 DEF Stop, Reliable, Believable, Unready, RunsSettled, Progress, Settled,
     LoadedForConfig, Early, Blocked, Undisturbed
<1>6. CASE Close
  BY <1>1, <1>6 DEF Close, jobVars, Reliable, Believable, Unready, RunsSettled, Progress,
     Settled, LoadedForConfig, Early, Blocked, Ended, Undisturbed
<1>7. CASE StopWrite /\ Undisturbed'
  <2>1. state = "Running" /\ pipelineJob = NoJob
    BY <1>7 DEF StopWrite, Held, Undisturbed
  <2> QED
    BY <1>1, <1>7, <2>1 DEF StopWrite, jobVars, Reliable, Believable, Unready, RunsSettled,
       Progress, Settled, LoadedForConfig, Early, Blocked, Undisturbed
<1> QED
  BY <1>2, <1>3, <1>4, <1>5, <1>6, <1>7

\* The methods that launch a job.
LEMMA LaunchReliable ==
    ASSUME IInv,
           \/ PrepareState /\ state \notin {"Ready", "Running"}
           \/ LaunchPipeline
           \/ Relaunch
    PROVE  Reliable'
<1> USE DEF IInv
<1>1. Believable /\ Unready /\ RunsSettled /\ Progress
  BY DEF Reliable
<1>2. PICK n \in Jobs :
      /\ n = launched' /\ pc' = pc /\ pc[n] = "new"
      /\ \A k \in Jobs \ {n} : awaits'[k] = awaits[k]
      /\ prepJob < n /\ pipelineJob < n
      /\ UNCHANGED <<pair, on, publishing>>
      /\ PrepareState \/ LaunchPipeline => awaits'[n] = {}
  <2>1. \/ (PrepareState \/ LaunchPipeline) /\ (Launch("prep", {}) \/ Launch("pipeline", {}))
        \/ Relaunch /\ Launch("prep", {prepJob, pipelineJob} \ {NoJob})
    BY DEF PrepareState, LaunchPipeline, Relaunch
  <2>2. {prepJob, pipelineJob} \ {NoJob} \in SUBSET Jobs
    BY DEF Lifecycle, TypeOK
  <2>3. Relaunch => ~PrepareState /\ ~LaunchPipeline
    BY DEF Relaunch, PrepareState, LaunchPipeline
  <2> QED
    BY <2>1, <2>2, <2>3, LaunchBooks DEF Launch
<1>3. prepJob # n /\ pipelineJob # n /\ n # NoJob
  BY <1>2 DEF Lifecycle, TypeOK, Jobs, NoJob
<1>4. CASE PrepareState /\ state \notin {"Ready", "Running"}
  <2>1. /\ UNCHANGED <<state, config, pipelineJob, open, engine, strayed>>
        /\ prepJob' = n /\ monitor' \in {"free", "launch"}
        /\ monitor \in {"prepareState", "startState"}
    BY <1>2, <1>4 DEF PrepareState
  <2> QED
    BY <1>1, <1>2, <1>3, <1>4, <2>1 DEF Reliable, Believable, Unready, RunsSettled, Progress,
       Undisturbed
<1>5. CASE LaunchPipeline
  <2>1. /\ UNCHANGED <<state, config, prepJob, open, engine, strayed>>
        /\ pipelineJob' = n /\ monitor' = "free" /\ monitor = "launch"
        /\ prepJob # NoJob => awaits'[prepJob] = awaits[prepJob]
    BY <1>2, <1>3, <1>5 DEF LaunchPipeline, Lifecycle, TypeOK
  <2> QED
    BY <1>1, <1>2, <2>1 DEF Reliable, Believable, Unready, RunsSettled, Progress,
       Undisturbed, Early, Settled, LoadedForConfig, Blocked
<1>6. CASE Relaunch
  BY <1>1, <1>2, <1>6 DEF Relaunch, Reliable, Believable, Unready, RunsSettled, Progress, Blocked
<1> QED
  BY <1>4, <1>5, <1>6

\* The invariant holds at first and is inductive.
LEMMA InitIInv == Init => IInv
<1>1. Init => Lifecycle
  BY InitLifecycle
<1>2. Init => AllCancelled /\ Bodies /\ Held /\ Reliable
  BY DEF Init, AllCancelled, Bodies, Held, Reliable, Believable, Unready, RunsSettled, Progress,
     NoJob
<1> QED
  BY <1>1, <1>2 DEF IInv

LEMMA NextIInv == IInv /\ [Next]_vars => IInv'
<1> SUFFICES ASSUME IInv, [Next]_vars PROVE IInv'
  OBVIOUS
<1> USE DEF IInv
<1>1. Lifecycle' /\ AllCancelled'
  BY NextLifecycle, NextAllCancelled
<1>2. CASE Call \/ Return
  BY <1>1, <1>2, MethodBodies, MethodHeld, QuietReliable, LaunchReliable DEF Call, Return
<1>3. ASSUME NEW m \in Jobs, Coroutine(m) \/ World(m) PROVE IInv'
  <2>1. Bodies' /\ Held'
    BY <1>3, CoroutineBodies, CoroutineHeld DEF Lifecycle
  <2>2. Reliable'
    BY <1>3, OthersReliable, PrepReliable, PipelineReliable
  <2> QED
    BY <1>1, <2>1, <2>2
<1>4. CASE UNCHANGED vars
  BY <1>1, <1>4 DEF vars, Bodies, Held, Reliable, Believable, Unready, RunsSettled, Progress,
     Early, Blocked, Settled, LoadedForConfig, Undisturbed, Ended
<1> QED
  BY <1>2, <1>3, <1>4 DEF Next

\* What a pipeline that nobody cancelled may rely on while nothing has strayed.
LEMMA LiveRun ==
    ASSUME IInv, ~strayed, NEW j \in Jobs,
           kind[j] = "pipeline", pc[j] = "run", ~cancelled[j]
    PROVE  open /\ Settled /\ pipelineJob # NoJob
<1>1. Launched(j) /\ ~Ended(j) /\ IsActive(j)
  BY DEF Launched, Ended, IsActive, Jobs, NoJob
<1>2. open /\ j = pipelineJob
  BY <1>1 DEF IInv, AllCancelled, Lifecycle, OneLiveJobOfEachKind
<1>3. monitor # "relaunch"
  BY <1>1, <1>2 DEF IInv, Lifecycle, Replaceable
<1> QED
  BY <1>2, <1>3 DEF IInv, Reliable, RunsSettled, Undisturbed, Jobs, NoJob

\* A pipeline that nobody cancelled runs on both engines loaded for the current
\* pair, after any calls and any failures, unless a stray job or stop()'s stale
\* write interfered: state says Ready or Running only on a settled preparation,
\* and a pipeline cannot check it before the preparation it joins has ended.
THEOREM CaptionsPrepared == Spec => []CaptionsNeedThePreparedPair
<1>1. IInv => CaptionsNeedThePreparedPair
  BY LiveRun DEF CaptionsNeedThePreparedPair, Settled, LoadedForConfig
<1> QED
  BY <1>1, InitIInv, NextIInv, PTL DEF Spec

\* Beside such a pipeline no preparation is in the engines that anybody still
\* waits for, or that was not cancelled.
THEOREM NoPreparationMeetsCaptions == Spec => []NoPreparationUnderALivePipeline
<1>1. IInv => NoPreparationUnderALivePipeline
  <2> SUFFICES ASSUME IInv, ~strayed, NEW i \in Jobs, NEW j \in Jobs,
                      kind[i] = "prep", InEngine(i),
                      kind[j] = "pipeline", pc[j] = "run", ~cancelled[j]
               PROVE  cancelled[i] /\ ~Awaited(i)
    BY DEF NoPreparationUnderALivePipeline
  <2>1. Settled
    BY LiveRun
  <2>2. i # prepJob /\ i # pipelineJob /\ ~Ended(i) /\ Launched(i)
    BY <2>1 DEF Settled, InEngine, IInv, Lifecycle, Ledger, Jobs, NoJob, Ended
  <2>3. cancelled[i]
    BY <2>2 DEF IInv, Lifecycle, OneLiveJobOfEachKind, IsActive, Jobs, NoJob
  <2>4. awaits[prepJob] = {}
    BY <2>1 DEF Settled, IInv, Lifecycle, Ledger, TypeOK, Bodies
  <2> QED
    BY <2>2, <2>3, <2>4 DEF Awaited
<1> QED
  BY <1>1, InitIInv, NextIInv, PTL DEF Spec

=============================================================================
