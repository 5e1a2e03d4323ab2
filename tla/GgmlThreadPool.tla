--------------------------- MODULE GgmlThreadPool ---------------------------
(***************************************************************************)
(* The thread pool on which whisper.cpp computes its graphs in this build  *)
(* (the CPU backend with OpenMP off).  Thread 0 is the caller; the others  *)
(* wait in the pool, by polling and then on a condition variable.          *)
(*                                                                         *)
(* A step of a thread is one access to the shared state: an atomic load or *)
(* store, or a whole critical section, since what a section of the pool's  *)
(* mutex reads is only written under that mutex.  Atomics are taken to be  *)
(* sequentially consistent.  A task is two steps apart from the next: a    *)
(* thread whose pc is in `Working' is in the middle of one.                *)
(***************************************************************************)
EXTENDS Integers, Sequences, FiniteSets

CONSTANTS
  N,           \* tp->n_threads, threads of the pool, the caller included
  Requests,    \* numbers of threads a plan may ask for
  Shapes,      \* the graphs: sequences of kinds of nodes
  Chunks,      \* chunks a matrix product of this size would be cut into
  MaxGraphs    \* bound on the graphs computed in one pool

Kinds == {"empty", "plain", "fused", "mulmat"}

ASSUME PoolAssumption ==
  /\ N \in Nat \ {0}
  /\ Requests \subseteq Nat \ {0} /\ Requests # {}
  /\ Shapes \subseteq Seq(Kinds) /\ Shapes # {}
  /\ \A g \in Shapes : g # <<>> /\ \A i \in 1..Len(g) :
        g[i] = "fused" => i < Len(g) /\ g[i + 1] = "plain"
  /\ Chunks \in Nat \ {0}
  /\ MaxGraphs \in Nat

\* nchunk0 * nchunk1: few chunks for n threads are scrapped, for one a thread.
ChunksFor(n) == IF Chunks < 4 * n THEN n ELSE Chunks

Threads == 0..(N - 1)
Workers == Threads \ {0}
\* Mutant of Plans: more threads than the pool has are not refused.
PlansUncapped == [graph : Shapes, n : Requests]

Plans == [graph : Shapes, n : {IF r > N THEN N ELSE r : r \in Requests}]

VARIABLES
  pc,          \* where each thread is
  ret,         \* where it goes after the barrier
  node,        \* node_n, the node it is at
  chunk,       \* current_chunk, the local variable
  passed,      \* n_passed, what it saw on entering the barrier
  pending,     \* state->pending
  lastGraph,   \* state->last_graph
  nGraph,      \* tp->n_graph: the count of graphs and the active threads
  nBarrier, nPassed, currentChunk, abort, stop, pause,
  plan,        \* tp->cgraph and the number of threads it is computed with
  done         \* tasks of the plan computed so far (history)

local == <<pending, lastGraph>>
barrier == <<nBarrier, nPassed>>
control == <<nGraph, stop, pause, plan>>
vars == <<pc, ret, node, chunk, passed, local, barrier, control,
          currentChunk, abort, done>>

Init ==
  /\ pc = [t \in Threads |-> IF t = 0 THEN "idle" ELSE "top"]
  /\ ret = [t \in Threads |-> "none"]
  /\ node = [t \in Threads |-> 1]
  /\ chunk = [t \in Threads |-> 0]
  /\ passed = [t \in Threads |-> 0]
  /\ pending = [t \in Threads |-> FALSE]
  /\ lastGraph = [t \in Threads |-> [count |-> 0, n |-> 0]]
  /\ nGraph = [count |-> 0, n |-> 0]
  /\ nBarrier = 0 /\ nPassed = 0 /\ currentChunk = 0 /\ abort = -1
  /\ stop = FALSE /\ pause \in BOOLEAN
  /\ plan \in Plans
  /\ done = {}

Goto(t, l) == pc' = [pc EXCEPT ![t] = l]

-----------------------------------------------------------------------------
(* The caller's side.                                                      *)

\* ggml_cond_broadcast: whoever waits is about to take the mutex again.
Woken(f) == [t \in Threads |-> CASE f[t] = "pauseWait" -> "top"
                                 [] f[t] = "workWait" -> "check"
                                 [] OTHER -> f[t]]

\* ggml_graph_compute up to the kick-off: the plan of the next graph.
SetPlan ==
  /\ pc[0] = "idle"
  /\ nGraph.count < MaxGraphs
  /\ plan' \in Plans
  /\ currentChunk' = 0 /\ abort' = -1
  /\ done' = {}
  /\ Goto(0, "kickoff")
  /\ UNCHANGED <<ret, node, chunk, passed, local, barrier, nGraph, stop, pause>>

\* Mutant of Kickoff: only a paused pool is woken.
KickoffQuietly ==
  /\ pc[0] = "kickoff"
  /\ nGraph' = [count |-> nGraph.count + 1, n |-> plan.n]
  /\ pause' = FALSE
  /\ pc' = [(IF pause THEN Woken(pc) ELSE pc) EXCEPT ![0] = "loop"]
  /\ node' = [node EXCEPT ![0] = 1]
  /\ UNCHANGED <<ret, chunk, passed, local, barrier, stop, plan,
                 currentChunk, abort, done>>

\* ggml_graph_compute_kickoff: publish the graph, resume a paused pool, wake.
Kickoff ==
  /\ pc[0] = "kickoff"
  /\ nGraph' = [count |-> nGraph.count + 1, n |-> plan.n]
  /\ pause' = FALSE
  /\ pc' = [Woken(pc) EXCEPT ![0] = "loop"]
  /\ node' = [node EXCEPT ![0] = 1]
  /\ UNCHANGED <<ret, chunk, passed, local, barrier, stop, plan,
                 currentChunk, abort, done>>

\* ggml_graph_compute returns; the pool is the caller's again.
Returned ==
  /\ pc[0] = "finished"
  /\ Goto(0, "idle")
  /\ UNCHANGED <<ret, node, chunk, passed, local, barrier, control,
                 currentChunk, abort, done>>

\* ggml_threadpool_pause and ggml_threadpool_resume, between two graphs.
SetPause(b) ==
  /\ pc[0] = "idle"
  /\ pause # b
  /\ pause' = b
  /\ pc' = Woken(pc)
  /\ UNCHANGED <<ret, node, chunk, passed, local, barrier, nGraph, stop, plan,
                 currentChunk, abort, done>>

\* Mutant of Free: nobody is woken.
FreeQuietly ==
  /\ pc[0] = "idle"
  /\ stop' = TRUE
  /\ pause' = FALSE
  /\ Goto(0, "joining")
  /\ UNCHANGED <<ret, node, chunk, passed, local, barrier, nGraph, plan,
                 currentChunk, abort, done>>

\* ggml_threadpool_free, up to the joins, and when all have been joined.
Free ==
  /\ pc[0] = "idle"
  /\ stop' = TRUE
  /\ pause' = FALSE
  /\ pc' = [Woken(pc) EXCEPT ![0] = "joining"]
  /\ UNCHANGED <<ret, node, chunk, passed, local, barrier, nGraph, plan,
                 currentChunk, abort, done>>

Joined ==
  /\ pc[0] = "joining"
  /\ \A t \in Workers : pc[t] = "exited"
  /\ Goto(0, "freed")
  /\ UNCHANGED <<ret, node, chunk, passed, local, barrier, control,
                 currentChunk, abort, done>>

-----------------------------------------------------------------------------
(* A worker between two graphs: ggml_graph_compute_secondary_thread.       *)

\* ggml_graph_compute_thread_ready, with the news it would record.
News(t) == nGraph # lastGraph[t]
Ready(t) == pending[t] \/ stop \/ pause \/ News(t)

Notice(t) ==
  IF ~(pending[t] \/ stop \/ pause) /\ News(t)
  THEN /\ pending' = [pending EXCEPT ![t] = t < nGraph.n]
       /\ lastGraph' = [lastGraph EXCEPT ![t] = nGraph]
  ELSE UNCHANGED local

\* while (threadpool->pause): the test, and the test again under the mutex.
CheckPause(t) ==
  /\ pc[t] = "top"
  /\ Goto(t, IF pause THEN "pauseLock" ELSE "stopCheck")
  /\ UNCHANGED <<ret, node, chunk, passed, local, barrier, control,
                 currentChunk, abort, done>>

PauseLock(t) ==
  /\ pc[t] = "pauseLock"
  /\ Goto(t, IF pause THEN "pauseWait" ELSE "top")
  /\ UNCHANGED <<ret, node, chunk, passed, local, barrier, control,
                 currentChunk, abort, done>>

CheckStop(t) ==
  /\ pc[t] = "stopCheck"
  /\ Goto(t, IF stop THEN "exited" ELSE "poll")
  /\ UNCHANGED <<ret, node, chunk, passed, local, barrier, control,
                 currentChunk, abort, done>>

\* ggml_graph_compute_poll_for_work: a bounded number of looks, then the mutex.
PollFinds(t) ==
  /\ pc[t] = "poll"
  /\ Ready(t)
  /\ Notice(t)
  /\ Goto(t, IF pending'[t] THEN "start" ELSE "check")
  /\ UNCHANGED <<ret, node, chunk, passed, barrier, control,
                 currentChunk, abort, done>>

PollGivesUp(t) ==
  /\ pc[t] = "poll"
  /\ ~Ready(t)
  /\ Goto(t, "check")
  /\ UNCHANGED <<ret, node, chunk, passed, local, barrier, control,
                 currentChunk, abort, done>>

\* ggml_graph_compute_check_for_work under the mutex: look, else wait.
CheckForWork(t) ==
  /\ pc[t] = "check"
  /\ Notice(t)
  /\ Goto(t, IF ~Ready(t) THEN "workWait"
             ELSE IF pending'[t] THEN "start" ELSE "top")
  /\ UNCHANGED <<ret, node, chunk, passed, barrier, control,
                 currentChunk, abort, done>>

\* state->pending = false; ggml_graph_compute_thread(state).
StartGraph(t) ==
  /\ pc[t] = "start"
  /\ pending' = [pending EXCEPT ![t] = FALSE]
  /\ node' = [node EXCEPT ![t] = 1]
  /\ Goto(t, "loop")
  /\ UNCHANGED <<ret, chunk, passed, lastGraph, barrier, control,
                 currentChunk, abort, done>>

-----------------------------------------------------------------------------
(* A thread in a graph: ggml_graph_compute_thread.                         *)

Kind(t) == plan.graph[node[t]]
LastNode(t) == Len(plan.graph) < node[t]

\* Mutant of Barrier: none between the conversion and the product.
BarrierAfterNodesOnly(t, l) ==
  IF nGraph.n = 1 \/ l = "firstChunk" THEN Goto(t, l) /\ UNCHANGED ret
  ELSE Goto(t, "barrier") /\ ret' = [ret EXCEPT ![t] = l]

\* Mutant of Barrier: none after the last node.
BarrierNotAtTheEnd(t, l) ==
  IF nGraph.n = 1 \/ l = "finished" THEN Goto(t, l) /\ UNCHANGED ret
  ELSE Goto(t, "barrier") /\ ret' = [ret EXCEPT ![t] = l]

\* ggml_barrier, entered on the way to label l.
Barrier(t, l) ==
  IF nGraph.n = 1 THEN Goto(t, l) /\ UNCHANGED ret
  ELSE Goto(t, "barrier") /\ ret' = [ret EXCEPT ![t] = l]

\* The for statement's condition, and the nodes it steps over.
NextNode(t) ==
  /\ pc[t] = "loop"
  /\ IF LastNode(t) \/ abort = node[t] - 1
     THEN Barrier(t, "finished") /\ UNCHANGED node
     ELSE IF Kind(t) = "empty"
     THEN node' = [node EXCEPT ![t] = @ + 1] /\ UNCHANGED <<pc, ret>>
     ELSE /\ Goto(t, IF Kind(t) = "mulmat" THEN "convert" ELSE "compute")
          /\ UNCHANGED <<node, ret>>
  /\ UNCHANGED <<chunk, passed, local, barrier, control,
                 currentChunk, abort, done>>

\* ggml_compute_forward, or the fused pair: this thread's share of the node.
ComputeShare(t) ==
  /\ pc[t] = "compute"
  /\ done' = done \cup {<<node[t], "share", t>>}
  /\ Goto(t, "after")
  /\ UNCHANGED <<ret, node, chunk, passed, local, barrier, control,
                 currentChunk, abort>>

\* ggml_compute_forward_mul_mat: this thread's share of src1 into wdata; thread
\* 0 sets the first chunk that is nobody's; barrier.
Convert(t) ==
  /\ pc[t] = "convert"
  /\ done' = done \cup {<<node[t], "wdata", t>>}
  /\ IF t = 0 THEN Goto(t, "resetChunk") /\ UNCHANGED ret
              ELSE Barrier(t, "firstChunk")
  /\ UNCHANGED <<node, chunk, passed, local, barrier, control,
                 currentChunk, abort>>

\* Mutant of ResetChunk: the first chunks are given out again.
ResetChunkToZero ==
  /\ pc[0] = "resetChunk"
  /\ currentChunk' = 0
  /\ Barrier(0, "firstChunk")
  /\ UNCHANGED <<node, chunk, passed, local, barrier, control, abort, done>>

ResetChunk ==
  /\ pc[0] = "resetChunk"
  /\ currentChunk' = nGraph.n
  /\ Barrier(0, "firstChunk")
  /\ UNCHANGED <<node, chunk, passed, local, barrier, control, abort, done>>

\* while (current_chunk < nchunk0 * nchunk1), starting with chunk ith.
Chunk(t, c) == /\ chunk' = [chunk EXCEPT ![t] = c]
               /\ Goto(t, IF c < ChunksFor(nGraph.n) THEN "chunk" ELSE "after")

FirstChunk(t) ==
  /\ pc[t] = "firstChunk"
  /\ Chunk(t, t)
  /\ UNCHANGED <<ret, node, passed, local, barrier, control,
                 currentChunk, abort, done>>

ComputeChunk(t) ==
  /\ pc[t] = "chunk"
  /\ done' = done \cup {<<node[t], "chunk", chunk[t]>>}
  /\ Goto(t, IF nGraph.n >= ChunksFor(nGraph.n) THEN "after" ELSE "fetchChunk")
  /\ UNCHANGED <<ret, node, chunk, passed, local, barrier, control,
                 currentChunk, abort>>

FetchChunk(t) ==
  /\ pc[t] = "fetchChunk"
  /\ Chunk(t, currentChunk)
  /\ currentChunk' = currentChunk + 1
  /\ UNCHANGED <<ret, node, passed, local, barrier, control, abort, done>>

\* After a node: a fused pair is behind it, the caller may ask to stop, barrier
\* unless it was the last.  node_n + 1 of the code is node here.
AfterNode(t) ==
  LET n == node[t] + (IF Kind(t) = "fused" THEN 2 ELSE 1) IN
  /\ pc[t] = "after"
  /\ node' = [node EXCEPT ![t] = n]
  /\ \/ UNCHANGED abort
     \/ t = 0 /\ abort' = n - 1
  /\ IF n <= Len(plan.graph) THEN Barrier(t, "loop")
                             ELSE Goto(t, "loop") /\ UNCHANGED ret
  /\ UNCHANGED <<chunk, passed, local, barrier, control, currentChunk, done>>

-----------------------------------------------------------------------------
(* ggml_barrier.                                                           *)

EnterBarrier(t) ==
  /\ pc[t] = "barrier"
  /\ passed' = [passed EXCEPT ![t] = nPassed]
  /\ Goto(t, "arrive")
  /\ UNCHANGED <<ret, node, chunk, local, barrier, control,
                 currentChunk, abort, done>>

Arrive(t) ==
  /\ pc[t] = "arrive"
  /\ nBarrier' = nBarrier + 1
  /\ Goto(t, IF nBarrier = nGraph.n - 1 THEN "resetBarrier" ELSE "spin")
  /\ UNCHANGED <<ret, node, chunk, passed, local, nPassed, control,
                 currentChunk, abort, done>>

ResetBarrier(t) ==
  /\ pc[t] = "resetBarrier"
  /\ nBarrier' = 0
  /\ Goto(t, "release")
  /\ UNCHANGED <<ret, node, chunk, passed, local, nPassed, control,
                 currentChunk, abort, done>>

Release(t) ==
  /\ pc[t] = "release"
  /\ nPassed' = nPassed + 1
  /\ Goto(t, ret[t])
  /\ UNCHANGED <<ret, node, chunk, passed, local, nBarrier, control,
                 currentChunk, abort, done>>

Spin(t) ==
  /\ pc[t] = "spin"
  /\ nPassed # passed[t]
  /\ Goto(t, ret[t])
  /\ UNCHANGED <<ret, node, chunk, passed, local, barrier, control,
                 currentChunk, abort, done>>

\* A worker that is through with a graph goes back to the pool.
BackToPool(t) ==
  /\ pc[t] = "finished"
  /\ Goto(t, "top")
  /\ UNCHANGED <<ret, node, chunk, passed, local, barrier, control,
                 currentChunk, abort, done>>

-----------------------------------------------------------------------------
InGraph(t) ==
  \/ NextNode(t) \/ ComputeShare(t) \/ Convert(t) \/ FirstChunk(t)
  \/ ComputeChunk(t) \/ FetchChunk(t) \/ AfterNode(t)
  \/ EnterBarrier(t) \/ Arrive(t) \/ ResetBarrier(t) \/ Release(t) \/ Spin(t)

InPool(t) ==
  \/ CheckPause(t) \/ PauseLock(t) \/ CheckStop(t) \/ PollFinds(t)
  \/ PollGivesUp(t) \/ CheckForWork(t) \/ StartGraph(t) \/ BackToPool(t)

\* What the caller does unasked, and what it may or may not ask for.
Caller == Kickoff \/ ResetChunk \/ Returned \/ Joined
Demand == SetPlan \/ Free \/ \E b \in BOOLEAN : SetPause(b)

\* ggml_cond_wait may return without a broadcast; nobody can count on it.
WakesByItself(t) ==
  /\ pc[t] \in {"pauseWait", "workWait"}
  /\ Goto(t, Woken(pc)[t])
  /\ UNCHANGED <<ret, node, chunk, passed, local, barrier, control,
                 currentChunk, abort, done>>

Next ==
  \/ \E t \in Threads : InGraph(t)
  \/ \E t \in Workers : InPool(t) \/ WakesByItself(t)
  \/ Caller
  \/ Demand

Fairness ==
  /\ \A t \in Threads : WF_vars(InGraph(t))
  /\ \A t \in Workers : WF_vars(InPool(t))
  /\ WF_vars(Caller)

Spec == Init /\ [][Next]_vars /\ Fairness

-----------------------------------------------------------------------------
(* Properties.                                                             *)

Labels ==
  {"idle", "kickoff", "loop", "compute", "convert", "resetChunk",
   "firstChunk", "chunk", "fetchChunk", "after", "barrier", "arrive",
   "resetBarrier", "release", "spin", "finished", "joining", "freed",
   "top", "pauseLock", "pauseWait", "stopCheck", "poll", "check",
   "workWait", "start", "exited"}

\* Every variable has its type; the barrier's count stays below the threads'.
TypeOK ==
  /\ pc \in [Threads -> Labels]
  /\ ret \in [Threads -> {"none", "loop", "firstChunk", "finished"}]
  /\ node \in [Threads -> Nat] /\ chunk \in [Threads -> Nat]
  /\ passed \in [Threads -> Nat]
  /\ pending \in [Threads -> BOOLEAN]
  /\ \A g \in {nGraph} \cup {lastGraph[t] : t \in Threads} :
       g.count \in 0..MaxGraphs /\ g.n \in 0..N
  /\ nBarrier \in 0..N /\ nPassed \in Nat
  /\ currentChunk \in Nat /\ abort \in Int
  /\ stop \in BOOLEAN /\ pause \in BOOLEAN
  /\ plan \in Plans

Working(t) == pc[t] \in {"compute", "convert", "chunk"}

\* Two threads in the middle of a task are in the same phase of the same node:
\* nobody reads a tensor while another thread is still writing it.  This is what
\* the barrier is for; it must hold when a fast thread enters the next barrier
\* before a slow one has left the last.
PhasesAgree ==
  \A t, u \in Threads :
    Working(t) /\ Working(u) => node[t] = node[u] /\ pc[t] = pc[u]

\* A chunk of a matrix product is computed by one thread, once: each starts with
\* its own and takes the others from current_chunk, reset for every product.
EachChunkOnce ==
  \A t \in Threads : pc[t] = "chunk" =>
    /\ <<node[t], "chunk", chunk[t]>> \notin done
    /\ \A u \in Threads \ {t} : pc[u] = "chunk" => chunk[u] # chunk[t]

\* `No worker threads should be accessing the parameters below at this stage':
\* when the caller has the pool to itself, a worker may still be on its way out
\* of the last barrier, but none has a graph before it.
QuietPool ==
  pc[0] \in {"idle", "kickoff", "joining"} =>
    \A t \in Workers :
      \/ pc[t] \in {"top", "pauseLock", "pauseWait", "stopCheck", "poll",
                   "check", "workWait", "exited"} /\ ~pending[t]
      \/ pc[t] = "finished"
      \/ pc[t] = "spin" /\ ret[t] = "finished" /\ passed[t] # nPassed

\* A pool that is freed ends: each thread sees `stop', asleep, paused or polling,
\* and the joins return.
FreeReturns == pc[0] = "joining" ~> pc[0] = "freed"

\* The second node of a fused pair: the first one's share covers it.
Covered(g, i) == i > 1 /\ g[i - 1] = "fused"
Shared(g, i) == g[i] \in {"plain", "fused"} /\ ~Covered(g, i)

Tasks(i, what, k) == {<<i, what, c>> : c \in 0..(k - 1)}

\* Two phases for a node, in order, and their tasks: the shares of it, or those
\* of the conversion, and then the chunks of a product.  A phase may be empty.
FirstPhase(p, i) ==
  CASE Shared(p.graph, i)      -> Tasks(i, "share", p.n)
    [] p.graph[i] = "mulmat"   -> Tasks(i, "wdata", p.n)
    [] OTHER                   -> {}

SecondPhase(p, i) ==
  IF p.graph[i] = "mulmat" THEN Tasks(i, "chunk", ChunksFor(p.n)) ELSE {}

PhasesOf(p) ==
  [k \in 1..(2 * Len(p.graph)) |->
     IF k % 2 = 1 THEN FirstPhase(p, (k + 1) \div 2) ELSE SecondPhase(p, k \div 2)]

Abstract ==
  INSTANCE GraphCompute WITH
    Phases <- PhasesOf,
    status <- IF pc[0] \in {"idle", "joining", "freed"} THEN "idle" ELSE "running",
    asked <- abort # -1

\* The pool computes graphs: every task once, phase after phase, and the call
\* returns, when all is computed or the callback asked to stop.  A lost wake-up
\* or a thread that misses a barrier breaks it.
GraphComputeSpec == Abstract!GraphSpec
=============================================================================
