------------------------ MODULE GgmlThreadPoolProofs ------------------------
(***************************************************************************)
(* Proofs that the threads of the pool stay in one phase of the graph, that *)
(* a chunk is computed once, that the pool is quiet between two graphs, and *)
(* that it implements GraphCompute, for any number of threads, graph and   *)
(* number of chunks.                                                       *)
(*                                                                         *)
(* The argument.  Between two releases of the barrier all threads of a     *)
(* graph are in one stretch of it, which begins where the barrier let them *)
(* go: at the for statement with node i, or at the first chunk of node i.  *)
(* What a thread can be at in the stretch, and where it leaves it for, is  *)
(* determined by the graph and by `abort', so all wait for the same place. *)
(*                                                                         *)
(* That the pool implements GraphCompute needs a second invariant, Tracked: *)
(* which tasks are done is told by where the threads are.  A thread has    *)
(* computed its own part of the nodes behind it and of no others, and a    *)
(* chunk that was given out is done or with a thread that holds it.        *)
(***************************************************************************)
EXTENDS GgmlThreadPool, FiniteSetTheorems, TLAPS

-----------------------------------------------------------------------------
(* The stretch of graph g that begins with node i.                         *)

\* Nothing is computed before node k.
Skips(g, i, k) ==
  /\ i <= k /\ k <= Len(g) + 1
  /\ \A j \in i..(k - 1) : g[j] = "empty"

\* Node k is the one that is computed.
Work(g, i, k) == Skips(g, i, k) /\ k <= Len(g) /\ g[k] # "empty"

\* Node m is the next after it, where a barrier or the end of the graph is.
Past(g, i, m) ==
  \E k \in 1..Len(g) :
    Work(g, i, k) /\ g[k] # "mulmat" /\ m = k + (IF g[k] = "fused" THEN 2 ELSE 1)

-----------------------------------------------------------------------------
(* The inductive invariant.                                                *)

Outside == {"idle", "kickoff", "joining", "freed"}
PoolLabels == {"top", "pauseLock", "pauseWait", "stopCheck", "poll", "check",
               "workWait", "exited"}
GraphLabels == {"loop", "compute", "convert", "resetChunk", "firstChunk",
                "chunk", "fetchChunk", "after", "barrier", "arrive",
                "resetBarrier", "release", "spin", "finished"}
Graphs == [count : 0..MaxGraphs, n : 0..N]

Types ==
  /\ pc \in [Threads -> Outside \cup PoolLabels \cup GraphLabels \cup {"start"}]
  /\ ret \in [Threads -> {"none", "loop", "firstChunk", "finished"}]
  /\ node \in [Threads -> Nat] /\ chunk \in [Threads -> Nat]
  /\ passed \in [Threads -> Nat]
  /\ pending \in [Threads -> BOOLEAN]
  /\ lastGraph \in [Threads -> Graphs] /\ nGraph \in Graphs
  /\ nBarrier \in Nat /\ nPassed \in Nat
  /\ currentChunk \in Nat /\ abort \in Int
  /\ stop \in BOOLEAN /\ pause \in BOOLEAN
  /\ plan \in Plans

\* A thread has a graph pending for one step; only thread 0 calls, and only the
\* others wait in the pool; what a thread has seen of the counters is not ahead.
Threading ==
  /\ \A t \in Threads : pending[t] <=> pc[t] = "start"
  /\ \A t \in Threads : lastGraph[t].count <= nGraph.count
  /\ \A t \in Threads : passed[t] <= nPassed
  /\ pc[0] \in Outside \cup GraphLabels
  /\ \A t \in Workers : pc[t] \notin Outside \cup {"resetChunk"}
  /\ pc[0] = "kickoff" => nGraph.count < MaxGraphs /\ abort = -1 /\ done = {}

\* The threads that compute the graph.
Active == {t \in Threads : t = 0 \/ t < nGraph.n}

\* In the loop of ggml_barrier until n_passed moves, or after it has.
Waits(t) == pc[t] = "spin" /\ passed[t] = nPassed
Released(t) == pc[t] = "spin" /\ passed[t] < nPassed

Arrived == {t \in Threads : Waits(t) \/ pc[t] = "resetBarrier"}

\* n_barrier counts the arrived, but for the time the last of them resets it.
Gathered ==
  /\ \A t \in Threads : pc[t] = "arrive" => passed[t] = nPassed
  /\ (\A t \in Threads : pc[t] # "release") => nBarrier = Cardinality(Arrived)
  /\ \A t \in Threads :
       /\ pc[t] = "release" => nBarrier = 0
       /\ pc[t] \in {"resetBarrier", "release"} =>
            \A u \in Active \ {t} : Waits(u)

\* Through with the last graph, or never in it: what a worker may still be when
\* the caller has the pool to itself.
Gone(t) ==
  \/ pc[t] \in PoolLabels
  \/ pc[t] = "finished"
  \/ Released(t) /\ ret[t] = "finished"

AtBarrier(t) == pc[t] \in {"barrier", "arrive", "resetBarrier", "release"} \/ Waits(t)

\* It entered this graph.
Here(t) == t = 0 \/ lastGraph[t] = nGraph

\* In the stretch that begins at the for statement with node i.
LoopExit(t, i) ==
  \/ ret[t] = "firstChunk" /\ abort # i - 1 /\ Work(plan.graph, i, node[t])
     /\ plan.graph[node[t]] = "mulmat" /\ (t = 0 => currentChunk = nGraph.n)
  \/ ret[t] = "loop" /\ abort # i - 1 /\ Past(plan.graph, i, node[t])
     /\ node[t] <= Len(plan.graph)
  \/ ret[t] = "finished" /\ abort = i - 1 /\ node[t] = i
  \/ ret[t] = "finished" /\ abort # i - 1 /\ node[t] > Len(plan.graph)
     /\ (Skips(plan.graph, i, node[t]) \/ Past(plan.graph, i, node[t]))

LoopPlace(t, i) ==
  \/ i = 1 /\ t # 0 /\ pc[t] # "start" /\ Gone(t) /\ lastGraph[t] # nGraph
  \/ i = 1 /\ t # 0 /\ pc[t] = "start" /\ lastGraph[t] = nGraph
  \/ Here(t) /\ Released(t) /\ ret[t] = "loop" /\ node[t] = i
  \/ Here(t) /\ pc[t] = "loop" /\ Skips(plan.graph, i, node[t])
     /\ (node[t] # i => abort # i - 1)
  \/ Here(t) /\ pc[t] = "loop" /\ abort # i - 1 /\ Past(plan.graph, i, node[t])
     /\ node[t] > Len(plan.graph)
  \/ Here(t) /\ pc[t] \in {"compute", "after"} /\ abort # i - 1
     /\ Work(plan.graph, i, node[t]) /\ plan.graph[node[t]] # "mulmat"
  \/ Here(t) /\ pc[t] \in {"convert", "resetChunk"} /\ abort # i - 1
     /\ Work(plan.graph, i, node[t]) /\ plan.graph[node[t]] = "mulmat"
  \/ Here(t) /\ AtBarrier(t) /\ LoopExit(t, i)

LoopStretch(i) ==
  /\ i \in 1..Len(plan.graph)
  /\ pc[0] \notin Outside
  /\ \A t \in Active : LoopPlace(t, i)
  /\ \/ abort <= i - 1
     \/ abort = node[0] - 1 /\ Past(plan.graph, i, node[0])
  /\ \A j, c \in Nat : <<j, "chunk", c>> \in done => j < i

\* In the stretch that begins with the first chunks of node i.
ChunkExit(t, i) ==
  \/ ret[t] = "loop" /\ node[t] = i + 1 /\ i < Len(plan.graph)
  \/ ret[t] = "finished" /\ node[t] = i + 1 /\ i = Len(plan.graph)

ChunkPlace(t, i) ==
  \/ Released(t) /\ ret[t] = "firstChunk" /\ node[t] = i
  \/ pc[t] \in {"firstChunk", "chunk", "fetchChunk", "after"} /\ node[t] = i
  \/ pc[t] = "loop" /\ node[t] = i + 1 /\ i = Len(plan.graph)
  \/ AtBarrier(t) /\ ChunkExit(t, i)

\* It has not begun with its own chunk.
Fresh(t) == pc[t] = "firstChunk" \/ Released(t)

\* Chunks that are done or being done were given out; nobody else's first chunk
\* is among them.
ChunksGiven(i) ==
  /\ nGraph.n <= currentChunk
  /\ \A j, c \in Nat : <<j, "chunk", c>> \in done =>
       j <= i /\ (j = i => c < currentChunk)
  /\ \A t \in Active : Fresh(t) => <<i, "chunk", t>> \notin done
  /\ \A t \in Active : pc[t] = "chunk" =>
       /\ chunk[t] = t \/ nGraph.n <= chunk[t]
       /\ chunk[t] < currentChunk
       /\ <<i, "chunk", chunk[t]>> \notin done
       /\ \A u \in Active \ {t} : pc[u] = "chunk" => chunk[u] # chunk[t]

ChunkStretch(i) ==
  /\ i \in 1..Len(plan.graph)
  /\ plan.graph[i] = "mulmat"
  /\ pc[0] \notin Outside
  /\ \A t \in Active : Here(t) /\ ChunkPlace(t, i)
  /\ abort <= i
  /\ ChunksGiven(i)

\* After the last barrier.
Finished ==
  \A t \in Active : IF t = 0 THEN pc[0] \in Outside \/ Gone(0)
                             ELSE Gone(t) /\ lastGraph[t] = nGraph

Stretch ==
  \/ \E i \in Nat : LoopStretch(i)
  \/ \E i \in Nat : ChunkStretch(i)
  \/ Finished

\* Those that have no part in the graph.
Others == \A t \in Threads \ Active : Gone(t)

IInv ==
  /\ Types /\ Threading /\ Gathered /\ Others /\ Stretch
  /\ pc[0] \notin Outside => nGraph.n # 0

-----------------------------------------------------------------------------
(* What is computed next is determined by the graph.                       *)

LEMMA PlanFacts ==
  ASSUME NEW p \in Plans
  PROVE  /\ p.n \in 1..N
         /\ p.graph \in Seq(Kinds)
         /\ Len(p.graph) \in Nat /\ 1 <= Len(p.graph)
         /\ \A j \in 1..Len(p.graph) :
              /\ p.graph[j] \in Kinds
              /\ p.graph[j] = "fused" => j < Len(p.graph) /\ p.graph[j + 1] = "plain"
<1>1. p.graph \in Shapes /\ p.n \in {IF r > N THEN N ELSE r : r \in Requests}
  BY DEF Plans
<1>2. p.n \in 1..N
  <2>1. PICK r \in Requests : p.n = IF r > N THEN N ELSE r
    BY <1>1
  <2>2. r \in Nat \ {0} /\ N \in Nat \ {0}
    BY PoolAssumption
  <2> QED
    BY <2>1, <2>2
<1>3. p.graph \in Seq(Kinds) /\ p.graph # <<>>
  BY <1>1, PoolAssumption
<1>4. Len(p.graph) \in Nat /\ 1 <= Len(p.graph)
  BY <1>3
<1>5. \A j \in 1..Len(p.graph) :
        p.graph[j] = "fused" => j < Len(p.graph) /\ p.graph[j + 1] = "plain"
  BY <1>1, PoolAssumption
<1>6. \A j \in 1..Len(p.graph) : p.graph[j] \in Kinds
  BY <1>3
<1> QED
  BY <1>2, <1>3, <1>4, <1>5, <1>6

\* A stretch has one node that is computed ...
LEMMA OneWork ==
  ASSUME NEW g, Len(g) \in Nat, NEW i \in Nat, NEW k \in Nat, NEW m \in Nat,
         Work(g, i, k), Work(g, i, m)
  PROVE  k = m
BY DEF Work, Skips

\* ... which no thread that passes over empty nodes goes beyond ...
LEMMA SkipsToWork ==
  ASSUME NEW g, Len(g) \in Nat, NEW i \in Nat, NEW k \in Nat, NEW m \in Nat,
         Work(g, i, k), Skips(g, i, m)
  PROVE  m <= k
BY DEF Work, Skips

\* ... and one node that follows it.
LEMMA OnePast ==
  ASSUME NEW g, Len(g) \in Nat, NEW i \in Nat, NEW k \in Nat, NEW m \in Nat,
         Past(g, i, k), Past(g, i, m)
  PROVE  k = m
<1>1. PICK a \in 1..Len(g) : Work(g, i, a) /\ k = a + (IF g[a] = "fused" THEN 2 ELSE 1)
  BY DEF Past
<1>2. PICK b \in 1..Len(g) : Work(g, i, b) /\ m = b + (IF g[b] = "fused" THEN 2 ELSE 1)
  BY DEF Past
<1>3. a = b
  BY <1>1, <1>2, OneWork
<1> QED
  BY <1>1, <1>2, <1>3

\* A thread that passes over empty nodes is before the end of the stretch.
LEMMA SkipsToPast ==
  ASSUME NEW g, Len(g) \in Nat, NEW i \in Nat, NEW k \in Nat, NEW m \in Nat,
         Past(g, i, k), Skips(g, i, m)
  PROVE  m < k
<1>1. PICK a \in 1..Len(g) : Work(g, i, a) /\ k = a + (IF g[a] = "fused" THEN 2 ELSE 1)
  BY DEF Past
<1>2. m <= a
  BY <1>1, SkipsToWork
<1> QED
  BY <1>1, <1>2

\* The node that is computed is before the end of the stretch.
LEMMA WorkToPast ==
  ASSUME NEW g, Len(g) \in Nat, NEW i \in Nat, NEW k \in Nat, NEW m \in Nat,
         Work(g, i, k), Past(g, i, m)
  PROVE  k < m /\ g[k] # "mulmat"
<1>1. PICK a \in 1..Len(g) : /\ Work(g, i, a) /\ g[a] # "mulmat"
                             /\ m = a + (IF g[a] = "fused" THEN 2 ELSE 1)
  BY DEF Past
<1>2. a = k
  BY <1>1, OneWork
<1> QED
  BY <1>1, <1>2

\* A stretch ends after it began.
LEMMA PastRange ==
  ASSUME NEW g, Len(g) \in Nat, NEW i \in Nat, NEW m \in Nat, Past(g, i, m)
  PROVE  i < m
BY DEF Past, Work, Skips

-----------------------------------------------------------------------------
(* Initially.                                                              *)

LEMMA InitIInv == Init => IInv
<1> SUFFICES ASSUME Init PROVE IInv
  OBVIOUS
<1> USE PoolAssumption DEF Init, Threads, Workers
<1>1. Types
  BY DEF Types, Graphs, Outside, PoolLabels, GraphLabels
<1>2. Threading
  BY DEF Threading, Outside, GraphLabels
<1>3. Gathered
  <2>1. Arrived = {}
    BY DEF Arrived, Waits
  <2> QED
    BY <2>1, FS_EmptySet DEF Gathered
<1>4. Others
  BY DEF Others, Gone, PoolLabels, Active
<1>5. Finished
  BY DEF Finished, Active, Outside, Gone
<1> QED
  BY <1>1, <1>2, <1>3, <1>4, <1>5 DEF IInv, Stretch, Outside

\* A step that changes nothing keeps it.
LEMMA StutterIInv == IInv /\ UNCHANGED vars => IInv'
<1> SUFFICES ASSUME IInv, UNCHANGED vars PROVE IInv'
  OBVIOUS
<1> USE DEF vars, local, barrier, control
<1>1. Types' /\ Threading'
  BY DEF IInv, Types, Threading
<1>2. Gathered'
  BY DEF IInv, Gathered, Arrived, Waits, Active
<1>3. Others' /\ (pc[0] \notin Outside => nGraph.n # 0)'
  BY DEF IInv, Others, Gone, Released, Active
<1>4. \A i : LoopStretch(i) => LoopStretch(i)'
  BY DEF LoopStretch, LoopPlace, LoopExit, Here, AtBarrier, Waits, Released, Gone, Active
<1>5. \A i : ChunkStretch(i) => ChunkStretch(i)'
  BY DEF ChunkStretch, ChunkPlace, ChunkExit, ChunksGiven, Fresh, Here, AtBarrier, Waits, Released, Active
<1>6. Finished => Finished'
  BY DEF Finished, Gone, Released, Active
<1> QED
  BY <1>1, <1>2, <1>3, <1>4, <1>5, <1>6 DEF IInv, Stretch

-----------------------------------------------------------------------------
(* A step of one thread leaves the others where they are.                  *)

Alone(t) ==
  /\ \A u \in Threads \ {t} :
       /\ pc'[u] = pc[u] /\ ret'[u] = ret[u] /\ node'[u] = node[u]
       /\ passed'[u] = passed[u] /\ chunk'[u] = chunk[u]
       /\ lastGraph'[u] = lastGraph[u]
  /\ nPassed' = nPassed /\ nGraph' = nGraph /\ plan' = plan

\* A step of one thread that does not come near the barrier leaves its count.
LEMMA GatheredStays ==
  ASSUME IInv, NEW t \in Threads, Alone(t), nBarrier' = nBarrier,
         ~Waits(t), pc[t] \notin {"resetBarrier", "release"},
         pc'[t] \notin {"spin", "arrive", "resetBarrier", "release"}
  PROVE  Gathered'
<1> USE DEF Alone
<1>1. \A u \in Threads : Waits(u)' <=> Waits(u)
  BY DEF Waits
<1>2. \A u \in Threads : pc'[u] = pc[u] \/ u = t
  OBVIOUS
<1>3. Arrived' = Arrived
  BY <1>1, <1>2 DEF Arrived
<1>4. Active' = Active
  BY DEF Active
<1>5. \A u \in Threads : pc'[u] = "arrive" => passed'[u] = nPassed'
  BY DEF IInv, Gathered
<1>6. (\A u \in Threads : pc'[u] # "release") => nBarrier' = Cardinality(Arrived')
  BY <1>2, <1>3 DEF IInv, Gathered
<1>7. ASSUME NEW u \in Threads PROVE
        /\ pc'[u] = "release" => nBarrier' = 0
        /\ pc'[u] \in {"resetBarrier", "release"} => \A v \in Active' \ {u} : Waits(v)'
  <2>1. Active \subseteq Threads
    BY DEF Active
  <2> QED
    BY <1>1, <1>2, <1>4, <2>1 DEF IInv, Gathered
<1> QED
  BY <1>5, <1>6, <1>7 DEF Gathered

\* A step of one thread that keeps the graph leaves the threads outside it alone.
LEMMA OthersStay ==
  ASSUME IInv, NEW t \in Threads, Alone(t), t \in Active \/ Gone(t)'
  PROVE  Others'
BY DEF IInv, Others, Alone, Gone, Released, Active

\* A thread that stays in a stretch of the loop leaves the stretch as it was.
LEMMA LoopStays ==
  ASSUME IInv, NEW i \in Nat, LoopStretch(i), NEW t \in Threads, Alone(t),
         t \in Active => LoopPlace(t, i)',
         abort' = i - 1 <=> abort = i - 1,
         abort' <= i - 1 \/ (abort' = node'[0] - 1 /\ Past(plan.graph, i, node'[0])),
         t # 0 => currentChunk' = currentChunk,
         pc'[0] \notin Outside,
         \A j, c \in Nat : <<j, "chunk", c>> \in done' => j < i
  PROVE  LoopStretch(i)'
<1> USE DEF Alone
<1>1. Active' = Active /\ Active \subseteq Threads
  BY DEF Active
<1>2. ASSUME NEW u \in Active, u # t PROVE LoopPlace(u, i)'
  <2>1. /\ pc'[u] = pc[u] /\ ret'[u] = ret[u] /\ node'[u] = node[u]
        /\ passed'[u] = passed[u] /\ lastGraph'[u] = lastGraph[u]
        /\ u = 0 => currentChunk' = currentChunk
    BY <1>1, <1>2
  <2>2. LoopPlace(u, i)
    BY DEF LoopStretch
  <2>3. LoopExit(u, i) => LoopExit(u, i)'
    BY <2>1 DEF LoopExit
  <2>4. Here(u)' = Here(u) /\ Released(u)' = Released(u) /\ AtBarrier(u)' = AtBarrier(u)
    BY <2>1 DEF Here, Released, AtBarrier, Waits
  <2>5. Gone(u)' = Gone(u)
    BY <2>1, <2>4 DEF Gone
  <2> QED
    BY <2>1, <2>2, <2>3, <2>4, <2>5 DEF LoopPlace
<1>3. \A u \in Active' : LoopPlace(u, i)'
  BY <1>1, <1>2
<1> QED
  BY <1>3 DEF LoopStretch

\* The same of a stretch that begins with the chunks of a product.
LEMMA ChunkStays ==
  ASSUME IInv, NEW i \in Nat, ChunkStretch(i), NEW t \in Threads, Alone(t),
         t \in Active => Here(t)' /\ ChunkPlace(t, i)',
         abort' <= i,
         pc'[0] \notin Outside,
         ChunksGiven(i)'
  PROVE  ChunkStretch(i)'
<1> USE DEF Alone
<1>1. Active' = Active /\ Active \subseteq Threads
  BY DEF Active
<1>2. ASSUME NEW u \in Active, u # t PROVE Here(u)' /\ ChunkPlace(u, i)'
  <2>1. /\ pc'[u] = pc[u] /\ ret'[u] = ret[u] /\ node'[u] = node[u]
        /\ passed'[u] = passed[u] /\ lastGraph'[u] = lastGraph[u]
    BY <1>1, <1>2
  <2>2. Here(u) /\ ChunkPlace(u, i)
    BY DEF ChunkStretch
  <2>3. Here(u)' = Here(u) /\ Released(u)' = Released(u) /\ AtBarrier(u)' = AtBarrier(u)
    BY <2>1 DEF Here, Released, AtBarrier, Waits
  <2>4. ChunkExit(u, i) => ChunkExit(u, i)'
    BY <2>1 DEF ChunkExit
  <2> QED
    BY <2>1, <2>2, <2>3, <2>4 DEF ChunkPlace
<1> QED
  BY <1>1, <1>2 DEF ChunkStretch

\* The chunks, when neither `done' nor the shared counter moves and the thread
\* is not about to compute one.
LEMMA GivenStays ==
  ASSUME IInv, NEW i \in Nat, ChunksGiven(i), NEW t \in Threads, Alone(t),
         currentChunk' = currentChunk,
         \A j, c \in Nat : <<j, "chunk", c>> \in done' => <<j, "chunk", c>> \in done,
         Fresh(t)' => Fresh(t), pc'[t] # "chunk"
  PROVE  ChunksGiven(i)'
<1> USE DEF Alone
<1>1. Active' = Active /\ Active \subseteq Threads /\ Active \subseteq Nat
  BY DEF Active, Threads
<1>2. \A u \in Active : Fresh(u)' => Fresh(u)
  BY <1>1 DEF Fresh, Released
<1>3. \A u \in Active : pc'[u] = "chunk" => u # t /\ pc[u] = "chunk" /\ chunk'[u] = chunk[u]
  BY <1>1
<1>4. \A u \in Active : chunk[u] \in Nat
  BY <1>1 DEF IInv, Types
<1>5. \A u \in Active : Fresh(u)' => <<i, "chunk", u>> \notin done'
  BY <1>1, <1>2 DEF ChunksGiven
<1>6. \A u \in Active : pc'[u] = "chunk" =>
        /\ chunk'[u] = u \/ nGraph'.n <= chunk'[u]
        /\ chunk'[u] < currentChunk'
        /\ <<i, "chunk", chunk'[u]>> \notin done'
        /\ \A v \in Active \ {u} : pc'[v] = "chunk" => chunk'[v] # chunk'[u]
  BY <1>1, <1>3, <1>4 DEF ChunksGiven
<1>7. nGraph'.n <= currentChunk' /\ \A j, c \in Nat :
        <<j, "chunk", c>> \in done' => j <= i /\ (j = i => c < currentChunk')
  BY DEF ChunksGiven
<1> QED
  BY <1>1, <1>5, <1>6, <1>7 DEF ChunksGiven

\* A thread that is through with the graph, and still is after its step.
LEMMA GoneStays ==
  ASSUME IInv, NEW t \in Threads, Alone(t), Gone(t),
         pc'[t] \in PoolLabels \cup {"finished"}, lastGraph'[t] = lastGraph[t],
         node' = node, nBarrier' = nBarrier, abort' = abort, done' = done,
         currentChunk' = currentChunk
  PROVE  Gathered' /\ Others' /\ Stretch'
<1>1. /\ pc[t] \in PoolLabels \cup {"finished", "spin"} /\ ~Waits(t)
      /\ pc[t] = "spin" => Released(t) /\ ret[t] = "finished"
  BY DEF Gone, Waits, Released, PoolLabels, IInv, Types
<1>2. Gathered'
  BY <1>1, GatheredStays DEF PoolLabels
<1>3. Gone(t)'
  BY DEF Gone
<1>4. Others'
  BY <1>3, OthersStay
<1>5. t = 0 => pc[0] \notin Outside /\ pc'[0] \notin Outside
  BY <1>1 DEF Outside, PoolLabels
<1>6. t # 0 => 0 \in Threads /\ pc'[0] = pc[0]
  BY PoolAssumption DEF Alone, Threads
<1>7. CASE \E i \in Nat : LoopStretch(i)
  <2>1. PICK i \in Nat : LoopStretch(i)
    BY <1>7
  <2>2. pc'[0] \notin Outside
    BY <1>5, <1>6, <2>1 DEF LoopStretch
  <2>3. ASSUME t \in Active PROVE LoopPlace(t, i)'
    <3>1. LoopPlace(t, i)
      BY <2>1, <2>3 DEF LoopStretch
    <3>2. i = 1 /\ t # 0 /\ lastGraph[t] # nGraph
      BY <1>1, <3>1 DEF LoopPlace, AtBarrier, PoolLabels, Released
    <3>3. pc'[t] # "start" /\ nGraph' = nGraph
      BY DEF PoolLabels, Alone
    <3> QED
      BY <1>3, <3>2, <3>3 DEF LoopPlace
  <2>4. /\ abort' <= i - 1 \/ (abort' = node'[0] - 1 /\ Past(plan.graph, i, node'[0]))
        /\ \A j, c \in Nat : <<j, "chunk", c>> \in done' => j < i
    BY <2>1 DEF LoopStretch
  <2>5. LoopStretch(i)'
    BY <2>1, <2>2, <2>3, <2>4, LoopStays
  <2> QED
    BY <1>2, <1>4, <2>5 DEF Stretch
<1>8. CASE \E i \in Nat : ChunkStretch(i)
  <2>1. PICK i \in Nat : ChunkStretch(i)
    BY <1>8
  <2>2. t \notin Active
    BY <1>1, <2>1 DEF ChunkStretch, ChunkPlace, AtBarrier, PoolLabels, Released
  <2>3. \A u \in Active' : u \in Active /\ u \in Threads /\ u # t
    BY <2>2 DEF Alone, Active
  <2>4. ChunksGiven(i)'
    <3>1. ~Fresh(t)' /\ pc'[t] # "chunk"
      BY DEF Fresh, Released, PoolLabels
    <3> QED
      BY <2>1, <3>1, GivenStays DEF ChunkStretch
  <2>5. ChunkStretch(i)'
    BY <1>5, <1>6, <2>1, <2>2, <2>4, ChunkStays DEF ChunkStretch
  <2> QED
    BY <1>2, <1>4, <2>5 DEF Stretch
<1>9. CASE Finished
  <2>1. ASSUME NEW u \in Active', u # t
        PROVE  IF u = 0 THEN pc'[0] \in Outside \/ Gone(0)' ELSE Gone(u)' /\ lastGraph'[u] = nGraph'
    BY <1>9, <2>1 DEF Finished, Active, Alone, Gone, Released
  <2>2. Finished'
    BY <1>3, <1>9, <2>1 DEF Finished, Active, Alone
  <2> QED
    BY <1>2, <1>4, <2>2 DEF Stretch
<1> QED
  BY <1>7, <1>8, <1>9 DEF IInv, Stretch

-----------------------------------------------------------------------------
(* The pool.                                                               *)

\* The variables of the graph and the caller.
rest == <<ret, node, chunk, passed, barrier, control, currentChunk, abort, done>>

\* A worker moves about the pool.
LEMMA PoolMove ==
  ASSUME IInv, NEW t \in Workers, NEW l \in PoolLabels,
         pc[t] \in PoolLabels \cup {"finished"}, Goto(t, l), UNCHANGED <<rest, local>>
  PROVE  IInv'
<1> USE DEF rest, local, barrier, control, Goto
<1>1. t \in Threads /\ t # 0 /\ 0 \in Threads
  BY PoolAssumption DEF Threads, Workers
<1>2. Types'
  BY <1>1 DEF IInv, Types
<1>3. Threading'
  BY <1>1 DEF IInv, Types, Threading, PoolLabels, Outside
<1>4. Alone(t)
  BY <1>1 DEF Alone, IInv, Types
<1>5. Gone(t) /\ pc'[t] \in PoolLabels
  BY <1>1 DEF Gone, IInv, Types
<1>6. Gathered' /\ Others' /\ Stretch'
  BY <1>1, <1>4, <1>5, GoneStays
<1>7. pc'[0] = pc[0]
  BY <1>1 DEF IInv, Types
<1> QED
  BY <1>2, <1>3, <1>6, <1>7 DEF IInv

\* It notices a graph, which it takes part in or not.
LEMMA NoticeIInv ==
  ASSUME IInv, NEW t \in Workers, pc[t] \in PoolLabels, News(t),
         NEW l \in PoolLabels, Goto(t, IF t < nGraph.n THEN "start" ELSE l),
         pending' = [pending EXCEPT ![t] = t < nGraph.n],
         lastGraph' = [lastGraph EXCEPT ![t] = nGraph],
         UNCHANGED rest
  PROVE  IInv'
<1> USE DEF rest, barrier, control, Goto
<1>1. t \in Threads /\ t # 0 /\ 0 \in Threads /\ lastGraph[t] # nGraph
  BY PoolAssumption DEF Threads, Workers, News
<1>2. (t \in Active) = (t < nGraph.n)
  BY <1>1 DEF Active
<1>3. pc' = [pc EXCEPT ![t] = IF t \in Active THEN "start" ELSE l]
  BY <1>2
<1>4. pending' = [pending EXCEPT ![t] = t \in Active]
  BY <1>2
<1>5. Types'
  BY <1>1, <1>3, <1>4 DEF IInv, Types
<1>6. Threading'
  <2>1. \A u \in Threads : pending'[u] <=> pc'[u] = "start"
    BY <1>1, <1>3, <1>4 DEF IInv, Types, Threading, PoolLabels
  <2>2. \A u \in Threads : lastGraph'[u].count <= nGraph'.count
    BY <1>1 DEF IInv, Types, Threading, Graphs
  <2>3. \A u \in Threads : passed'[u] <= nPassed'
    BY DEF IInv, Threading
  <2>4. pc'[0] = pc[0] /\ \A u \in Workers : pc'[u] \notin Outside \cup {"resetChunk"}
    BY <1>1, <1>3 DEF IInv, Types, Threading, PoolLabels, Outside, Workers
  <2> QED
    BY <2>1, <2>2, <2>3, <2>4 DEF IInv, Threading
<1>7. Alone(t)
  BY <1>1, <1>3 DEF Alone, IInv, Types
<1>8. pc'[t] = (IF t \in Active THEN "start" ELSE l)
  BY <1>1, <1>3 DEF IInv, Types
<1>9. Gathered'
  BY <1>1, <1>7, <1>8, GatheredStays DEF PoolLabels, Waits
<1>10. Others'
  BY <1>1, <1>7, <1>8, OthersStay DEF Gone
<1>11. pc'[0] = pc[0]
  BY <1>1, <1>3 DEF IInv, Types
<1>12. Stretch'
  <2>1. CASE t \in Active
    <3>1. ~Finished
      BY <1>1, <2>1 DEF Finished
    <3>2. \A i \in Nat : ~ChunkStretch(i)
      BY <1>1, <2>1 DEF ChunkStretch, Here
    <3>3. PICK i \in Nat : LoopStretch(i)
      BY <3>1, <3>2 DEF IInv, Stretch
    <3>4. LoopPlace(t, i)
      BY <2>1, <3>3 DEF LoopStretch
    <3>5. i = 1
      BY <1>1, <3>4 DEF LoopPlace, Here, PoolLabels
    <3>6. LoopPlace(t, i)'
      BY <1>1, <1>8, <2>1, <3>5 DEF LoopPlace, IInv, Types
    <3>7. LoopStretch(i)'
      BY <1>1, <1>7, <1>11, <3>3, <3>6, LoopStays DEF LoopStretch
    <3> QED
      BY <3>7 DEF Stretch
  <2>2. CASE t \notin Active
    <3>1. CASE \E i \in Nat : LoopStretch(i)
      <4>1. PICK i \in Nat : LoopStretch(i)
        BY <3>1
      <4>2. LoopStretch(i)'
        BY <1>1, <1>7, <1>11, <2>2, <4>1, LoopStays DEF LoopStretch
      <4> QED
        BY <4>2 DEF Stretch
    <3>2. CASE \E i \in Nat : ChunkStretch(i)
      <4>1. PICK i \in Nat : ChunkStretch(i)
        BY <3>2
      <4>2. ~Fresh(t)' /\ pc'[t] # "chunk"
        BY <1>8, <2>2 DEF Fresh, Released, PoolLabels
      <4>3. ChunksGiven(i)'
        BY <1>1, <1>7, <4>1, <4>2, GivenStays DEF ChunkStretch
      <4>4. ChunkStretch(i)'
        BY <1>1, <1>7, <1>11, <2>2, <4>1, <4>3, ChunkStays DEF ChunkStretch
      <4> QED
        BY <4>4 DEF Stretch
    <3>3. CASE Finished
      <4>1. \A u \in Active' : u \in Active /\ u \in Threads /\ u # t
        BY <1>7, <2>2 DEF Active
      <4>2. Finished'
        BY <1>7, <1>11, <3>3, <4>1 DEF Finished, Alone, Gone, Released
      <4> QED
        BY <4>2 DEF Stretch
    <3> QED
      BY <3>1, <3>2, <3>3 DEF IInv, Stretch
  <2> QED
    BY <2>1, <2>2
<1> QED
  BY <1>5, <1>6, <1>9, <1>10, <1>11, <1>12 DEF IInv

\* A worker enters the graph at the first node, in the first stretch of it.
LEMMA StartGraphIInv ==
  ASSUME IInv, NEW t \in Workers, StartGraph(t)
  PROVE  IInv'
<1> USE DEF StartGraph, barrier, control, Goto
<1>1. t \in Threads /\ t # 0 /\ 0 \in Threads
  BY PoolAssumption DEF Threads, Workers
<1>2. Types'
  BY <1>1 DEF IInv, Types, GraphLabels
<1>3. Threading'
  BY <1>1 DEF IInv, Types, Threading, Outside
<1>4. Alone(t) /\ pc'[t] = "loop" /\ node'[t] = 1 /\ pc'[0] = pc[0]
  BY <1>1 DEF Alone, IInv, Types
<1>5. ~Gone(t)
  BY DEF Gone, PoolLabels, Released
<1>6. t \in Active
  BY <1>1, <1>5 DEF IInv, Others
<1>7. Gathered' /\ Others'
  BY <1>1, <1>4, <1>6, GatheredStays, OthersStay DEF Waits
<1>8. ~Finished
  BY <1>1, <1>5, <1>6 DEF Finished
<1>9. \A i \in Nat : ~ChunkStretch(i)
  BY <1>6 DEF ChunkStretch, ChunkPlace, AtBarrier, Released, Waits
<1>10. PICK i \in Nat : LoopStretch(i)
  BY <1>8, <1>9 DEF IInv, Stretch
<1>11. LoopPlace(t, i)
  BY <1>6, <1>10 DEF LoopStretch
<1>12. i = 1 /\ lastGraph[t] = nGraph
  BY <1>1, <1>11 DEF LoopPlace, AtBarrier, Released, Waits
<1>13. Skips(plan.graph, 1, 1)
  BY PlanFacts DEF IInv, Types, Skips
<1>14. LoopPlace(t, i)'
  BY <1>4, <1>12, <1>13 DEF LoopPlace, Here
<1>15. LoopStretch(i)'
  <2>1. node'[0] = node[0]
    BY <1>1 DEF IInv, Types
  <2> QED
    BY <1>1, <1>4, <1>10, <1>14, <2>1, LoopStays DEF LoopStretch
<1> QED
  BY <1>2, <1>3, <1>4, <1>7, <1>15 DEF IInv, Stretch

\* It moves about the pool, it notices a graph, or it enters one.
Moves(t, l) ==
  /\ pc[t] \in PoolLabels \cup {"finished"} /\ Goto(t, l)
  /\ UNCHANGED <<rest, local>>
Notices(t, l) ==
  /\ pc[t] \in PoolLabels /\ News(t) /\ Goto(t, IF t < nGraph.n THEN "start" ELSE l)
  /\ pending' = [pending EXCEPT ![t] = t < nGraph.n]
  /\ lastGraph' = [lastGraph EXCEPT ![t] = nGraph]
  /\ UNCHANGED rest

LEMMA PoolSteps ==
  ASSUME IInv, NEW t \in Workers, InPool(t) \/ WakesByItself(t)
  PROVE  StartGraph(t) \/ \E l \in PoolLabels : Moves(t, l) \/ Notices(t, l)
<1> USE DEF Goto, rest, local, Moves, Notices
<1>1. t \in Threads /\ Threads \subseteq Nat
  BY DEF Threads, Workers
<1>2. CASE CheckPause(t)
  BY <1>2 DEF CheckPause, PoolLabels
<1>3. CASE PauseLock(t)
  BY <1>3 DEF PauseLock, PoolLabels
<1>4. CASE CheckStop(t)
  BY <1>4 DEF CheckStop, PoolLabels
<1>5. CASE PollGivesUp(t)
  BY <1>5 DEF PollGivesUp, PoolLabels
<1>6. CASE BackToPool(t)
  BY <1>6 DEF BackToPool, PoolLabels
<1>7. CASE WakesByItself(t)
  <2>1. Woken(pc)[t] \in PoolLabels
    BY <1>1, <1>7 DEF WakesByItself, Woken, PoolLabels
  <2> QED
    BY <1>7, <2>1 DEF WakesByItself, PoolLabels
<1>8. CASE PollFinds(t)
  <2>1. ~pending[t] /\ pc[t] \in PoolLabels
    BY <1>1, <1>8 DEF IInv, Threading, PollFinds, PoolLabels
  <2>2. CASE ~(stop \/ pause) /\ News(t)
    <3>1. pending' = [pending EXCEPT ![t] = t < nGraph.n]
          /\ lastGraph' = [lastGraph EXCEPT ![t] = nGraph]
      BY <1>8, <2>1, <2>2 DEF PollFinds, Notice
    <3>2. pending'[t] = (t < nGraph.n)
      BY <1>1, <3>1 DEF IInv, Types
    <3>3. Goto(t, IF t < nGraph.n THEN "start" ELSE "check")
      BY <1>8, <3>2 DEF PollFinds
    <3> QED
      BY <1>8, <2>1, <2>2, <3>1, <3>3 DEF PollFinds, PoolLabels
  <2>3. CASE ~(~(stop \/ pause) /\ News(t))
    <3>1. UNCHANGED local
      BY <1>8, <2>1, <2>3 DEF PollFinds, Notice
    <3>2. Goto(t, "check")
      BY <1>8, <2>1, <3>1 DEF PollFinds
    <3> QED
      BY <1>8, <2>1, <3>1, <3>2 DEF PollFinds, PoolLabels
  <2> QED
    BY <2>2, <2>3
<1>9. CASE CheckForWork(t)
  <2>1. ~pending[t] /\ pc[t] \in PoolLabels
    BY <1>1, <1>9 DEF IInv, Threading, CheckForWork, PoolLabels
  <2>2. CASE ~(stop \/ pause) /\ News(t)
    <3>1. pending' = [pending EXCEPT ![t] = t < nGraph.n]
          /\ lastGraph' = [lastGraph EXCEPT ![t] = nGraph]
      BY <1>9, <2>1, <2>2 DEF CheckForWork, Notice
    <3>2. pending'[t] = (t < nGraph.n)
      BY <1>1, <3>1 DEF IInv, Types
    <3>3. Goto(t, IF t < nGraph.n THEN "start" ELSE "top")
      BY <1>9, <2>2, <3>2 DEF CheckForWork, Ready
    <3> QED
      BY <1>9, <2>1, <2>2, <3>1, <3>3 DEF CheckForWork, PoolLabels
  <2>3. CASE ~(~(stop \/ pause) /\ News(t))
    <3>1. UNCHANGED local
      BY <1>9, <2>1, <2>3 DEF CheckForWork, Notice
    <3>2. Goto(t, IF ~Ready(t) THEN "workWait" ELSE "top")
      BY <1>9, <2>1, <3>1 DEF CheckForWork
    <3> QED
      BY <1>9, <2>1, <3>1, <3>2 DEF CheckForWork, PoolLabels
  <2> QED
    BY <2>2, <2>3
<1> QED
  BY <1>2, <1>3, <1>4, <1>5, <1>6, <1>7, <1>8, <1>9 DEF InPool

\* What a worker does outside the graph keeps the invariant.
LEMMA InPoolIInv ==
  ASSUME IInv, NEW t \in Workers, InPool(t) \/ WakesByItself(t)
  PROVE  IInv'
BY PoolSteps, PoolMove, NoticeIInv, StartGraphIInv DEF Moves, Notices

-----------------------------------------------------------------------------
(* A thread in a graph.                                                    *)

NodeLabels == {"loop", "compute", "convert", "resetChunk", "firstChunk",
               "chunk", "fetchChunk", "after"}

\* A thread inside the graph is where the one stretch there is lets it be.
LEMMA InAStretch ==
  ASSUME IInv, NEW t \in Threads, pc[t] \in GraphLabels, ~Gone(t)
  PROVE  /\ t \in Active /\ Here(t) /\ pc[0] \notin Outside
         /\ \/ \E i \in Nat : LoopStretch(i) /\ LoopPlace(t, i)
            \/ \E i \in Nat : ChunkStretch(i) /\ ChunkPlace(t, i)
<1>1. t \in Active
  BY DEF IInv, Others
<1>2. pc[t] \notin Outside
  BY DEF Outside, GraphLabels
<1>3. ~Finished
  BY <1>1, <1>2 DEF Finished
<1>4. CASE \E i \in Nat : LoopStretch(i)
  <2>1. PICK i \in Nat : LoopStretch(i)
    BY <1>4
  <2>2. LoopPlace(t, i)
    BY <1>1, <2>1 DEF LoopStretch
  <2>3. Here(t)
    BY <2>2 DEF LoopPlace, Here
  <2> QED
    BY <1>1, <2>1, <2>2, <2>3 DEF LoopStretch
<1>5. CASE \E i \in Nat : ChunkStretch(i)
  BY <1>1, <1>5 DEF ChunkStretch
<1> QED
  BY <1>3, <1>4, <1>5 DEF IInv, Stretch

\* A step of one thread that stays inside the graph keeps Threading.
LEMMA GraphThreading ==
  ASSUME IInv, NEW t \in Threads, Alone(t), pc[t] \in GraphLabels, ~Gone(t),
         pc'[t] \in GraphLabels, t # 0 => pc'[t] # "resetChunk",
         pending' = pending, lastGraph' = lastGraph, passed'[t] <= nPassed'
  PROVE  /\ Threading'
         /\ (pc[0] \notin Outside => nGraph.n # 0)'
         /\ pc[0] \notin Outside /\ pc'[0] \notin Outside
<1>2. t \in Active /\ Here(t) /\ pc[0] \notin Outside
  BY InAStretch
<1>4. pc'[t] \notin Outside /\ pc'[t] # "start" /\ pc[t] # "start"
  BY DEF GraphLabels, Outside
<1>5. pc'[0] \in GraphLabels /\ pc'[0] \notin Outside
  <2>1. CASE t = 0
    BY <1>4, <2>1
  <2>2. CASE t # 0
    <3>1. 0 \in Threads /\ pc'[0] = pc[0]
      BY <2>2, PoolAssumption DEF Alone, Threads
    <3> QED
      BY <1>2, <3>1 DEF IInv, Threading
  <2> QED
    BY <2>1, <2>2
<1>6. Threading'
  <2>1. \A u \in Threads : pending'[u] <=> pc'[u] = "start"
    BY <1>4 DEF Alone, IInv, Threading
  <2>2. \A u \in Threads : lastGraph'[u].count <= nGraph'.count /\ passed'[u] <= nPassed'
    BY DEF Alone, IInv, Threading
  <2>3. \A u \in Workers : pc'[u] \notin Outside \cup {"resetChunk"}
    <3>1. ASSUME NEW u \in Workers PROVE pc'[u] \notin Outside \cup {"resetChunk"}
      <4>1. u \in Threads /\ u # 0
        BY DEF Workers
      <4>2. CASE u = t
        BY <1>4, <4>1, <4>2
      <4>3. CASE u # t
        <5>1. pc'[u] = pc[u]
          BY <4>1, <4>3 DEF Alone
        <5> QED
          BY <5>1 DEF IInv, Threading
      <4> QED
        BY <4>2, <4>3
    <3> QED
      BY <3>1
  <2>4. pc'[0] # "kickoff"
    BY <1>5 DEF Outside
  <2> QED
    BY <1>5, <2>1, <2>2, <2>3, <2>4 DEF Threading
<1> QED
  BY <1>2, <1>5, <1>6 DEF IInv, Alone

\* Not at the barrier, nor on the way back to the pool.
LEMMA GraphFrame ==
  ASSUME IInv, NEW t \in Threads, Alone(t), pc[t] \in NodeLabels,
         pc'[t] \in NodeLabels \cup {"barrier", "finished"},
         t # 0 => pc'[t] # "resetChunk",
         pending' = pending, lastGraph' = lastGraph, nBarrier' = nBarrier, passed' = passed
  PROVE  /\ t \in Active /\ Here(t)
         /\ Threading' /\ Gathered' /\ Others'
         /\ (pc[0] \notin Outside => nGraph.n # 0)'
         /\ pc[0] \notin Outside /\ pc'[0] \notin Outside
         /\ \/ \E i \in Nat : LoopStretch(i) /\ LoopPlace(t, i)
            \/ \E i \in Nat : ChunkStretch(i) /\ ChunkPlace(t, i)
<1>1. ~Gone(t) /\ pc[t] \in GraphLabels /\ pc'[t] \in GraphLabels
  BY DEF Gone, NodeLabels, PoolLabels, GraphLabels, Released
<1>2. /\ t \in Active /\ Here(t)
      /\ \/ \E i \in Nat : LoopStretch(i) /\ LoopPlace(t, i)
         \/ \E i \in Nat : ChunkStretch(i) /\ ChunkPlace(t, i)
  BY <1>1, InAStretch
<1>3. Gathered' /\ Others'
  BY <1>2, GatheredStays, OthersStay DEF NodeLabels, Waits
<1>4. passed'[t] <= nPassed'
  BY DEF IInv, Threading, Alone
<1> QED
  BY <1>1, <1>2, <1>3, <1>4, GraphThreading

-----------------------------------------------------------------------------
(* All threads of the graph have passed the barrier, or there is but one.  *)

LEMMA EnterLoop ==
  ASSUME NEW i \in Nat, i \in 1..Len(plan'.graph), Len(plan'.graph) \in Nat,
         \A u \in Active' :
           /\ pc'[u] = "loop" \/ (Released(u)' /\ ret'[u] = "loop")
           /\ node'[u] = i /\ Here(u)',
         pc'[0] \notin Outside, abort' <= i - 1,
         \A j, c \in Nat : <<j, "chunk", c>> \in done' => j < i
  PROVE  LoopStretch(i)'
<1>1. Skips(plan'.graph, i, i)
  BY DEF Skips
<1>2. \A u \in Active' : LoopPlace(u, i)'
  BY <1>1 DEF LoopPlace
<1> QED
  BY <1>2 DEF LoopStretch

\* When all are before their first chunk, a stretch of chunks begins.
LEMMA EnterChunks ==
  ASSUME NEW i \in Nat, i \in 1..Len(plan'.graph), Len(plan'.graph) \in Nat,
         plan'.graph[i] = "mulmat",
         \A u \in Active' :
           /\ pc'[u] = "firstChunk" \/ (Released(u)' /\ ret'[u] = "firstChunk")
           /\ node'[u] = i /\ Here(u)' /\ u \in Nat,
         pc'[0] \notin Outside, abort' <= i,
         nGraph'.n \in Nat, currentChunk' = nGraph'.n,
         \A j, c \in Nat : <<j, "chunk", c>> \in done' => j < i
  PROVE  ChunkStretch(i)'
<1>1. \A u \in Active' : Here(u)' /\ ChunkPlace(u, i)'
  BY DEF ChunkPlace
<1>2. \A u \in Active' : pc'[u] # "chunk"
  BY DEF Released
<1>3. \A u \in Active' : <<i, "chunk", u>> \notin done'
  BY SMT
<1>4. \A j, c \in Nat : <<j, "chunk", c>> \in done' =>
        j <= i /\ (j = i => c < currentChunk')
  BY SMT
<1>5. ChunksGiven(i)'
  BY <1>2, <1>3, <1>4 DEF ChunksGiven
<1> QED
  BY <1>1, <1>5 DEF ChunkStretch

\* When all have finished, the last stretch begins.
LEMMA EnterFinish ==
  ASSUME \A u \in Active' :
           /\ pc'[u] = "finished" \/ (Released(u)' /\ ret'[u] = "finished")
           /\ Here(u)'
  PROVE  Finished'
BY DEF Finished, Gone, Here

-----------------------------------------------------------------------------
(* The nodes.                                                              *)

\* pc and ret after a thread went to the barrier, or past it when it is alone.
LEMMA BarrierGoes ==
  ASSUME IInv, NEW t \in Threads, NEW l \in {"loop", "firstChunk", "finished"},
         Barrier(t, l)
  PROVE  /\ pc' \in [Threads -> Outside \cup PoolLabels \cup GraphLabels \cup {"start"}]
         /\ ret' \in [Threads -> {"none", "loop", "firstChunk", "finished"}]
         /\ \A u \in Threads \ {t} : pc'[u] = pc[u] /\ ret'[u] = ret[u]
         /\ nGraph.n = 1 => pc'[t] = l
         /\ nGraph.n # 1 => pc'[t] = "barrier" /\ ret'[t] = l
         /\ pc'[t] \in {l, "barrier"}
<1>1. CASE nGraph.n = 1
  BY <1>1 DEF IInv, Types, Barrier, Goto, GraphLabels
<1>2. CASE nGraph.n # 1
  BY <1>2 DEF IInv, Types, Barrier, Goto, GraphLabels
<1> QED
  BY <1>1, <1>2

\* A graph of one thread has thread 0 alone.
LEMMA ActiveAlone ==
  ASSUME IInv, nGraph.n = 1 PROVE Active = {0}
BY PoolAssumption DEF Active, Threads

\* The types that the steps inside the graph need.
LEMMA GraphFacts ==
  ASSUME IInv
  PROVE  /\ Len(plan.graph) \in Nat /\ 1 <= Len(plan.graph)
         /\ \A t \in Threads : node[t] \in Nat
         /\ abort \in Int /\ 0 \in Threads /\ Threads \subseteq Nat
         /\ \A j \in 1..Len(plan.graph) :
              /\ plan.graph[j] \in Kinds
              /\ plan.graph[j] = "fused" =>
                   j < Len(plan.graph) /\ plan.graph[j + 1] = "plain"
<1>1. plan \in Plans /\ \A t \in Threads : node[t] \in Nat
  BY DEF IInv, Types
<1> QED
  BY <1>1, PlanFacts, PoolAssumption DEF IInv, Types, Threads

\* The loop of a thread that leaves it.
LEMMA LeavesLoop ==
  ASSUME IInv, NEW t \in Threads, NextNode(t), Barrier(t, "finished"), node' = node,
         LastNode(t) \/ abort = node[t] - 1
  PROVE  IInv'
<1> USE DEF NextNode, barrier, control, local
<1>1. Alone(t) /\ pc[t] \in NodeLabels /\ pc'[t] \in NodeLabels \cup {"barrier", "finished"}
  BY BarrierGoes DEF Alone, NodeLabels
<1>2. Types'
  BY BarrierGoes DEF IInv, Types
<1>3. /\ t \in Active /\ Here(t)
      /\ Threading' /\ Gathered' /\ Others'
      /\ (pc[0] \notin Outside => nGraph.n # 0)'
      /\ pc[0] \notin Outside /\ pc'[0] \notin Outside
      /\ \/ \E i \in Nat : LoopStretch(i) /\ LoopPlace(t, i)
         \/ \E i \in Nat : ChunkStretch(i) /\ ChunkPlace(t, i)
  BY <1>1, GraphFrame, BarrierGoes
<1>4. CASE nGraph.n = 1
  <2>1. \A u \in Active' : pc'[u] = "finished" /\ Here(u)'
    BY <1>3, <1>4, ActiveAlone, BarrierGoes DEF Here, Active
  <2> QED
    BY <1>2, <1>3, <2>1, EnterFinish DEF IInv, Stretch
<1>5. ASSUME nGraph.n # 1, NEW i \in Nat, LoopStretch(i), LoopPlace(t, i)
      PROVE  IInv'
  <2>1. pc'[t] = "barrier" /\ ret'[t] = "finished"
    BY <1>5, BarrierGoes
  <2>2. \/ Skips(plan.graph, i, node[t]) /\ (node[t] # i => abort # i - 1)
        \/ abort # i - 1 /\ Past(plan.graph, i, node[t]) /\ node[t] > Len(plan.graph)
    BY <1>5 DEF LoopPlace, AtBarrier, Released, Waits, Gone, PoolLabels
  <2>3. abort <= i - 1 \/ (abort = node[0] - 1 /\ Past(plan.graph, i, node[0]))
    BY <1>5 DEF LoopStretch
  <2>4. ASSUME abort # i - 1 PROVE node[t] > Len(plan.graph)
    <3>1. CASE LastNode(t)
      BY <3>1, GraphFacts DEF LastNode
    <3>2. CASE abort = node[t] - 1 /\ ~(node[t] > Len(plan.graph))
      <4>1. Skips(plan.graph, i, node[t]) /\ i < node[t]
        BY <2>2, <2>4, <3>2, GraphFacts DEF Skips
      <4>2. ~(abort <= i - 1)
        BY <3>2, <4>1, GraphFacts
      <4>3. abort = node[0] - 1 /\ Past(plan.graph, i, node[0])
        BY <2>3, <4>2
      <4>4. node[t] < node[0]
        BY <4>1, <4>3, SkipsToPast, GraphFacts
      <4> QED
        BY <3>2, <4>3, <4>4, GraphFacts
    <3> QED
      BY <3>1, <3>2
  <2>5. LoopExit(t, i)'
    BY <2>1, <2>2, <2>4 DEF LoopExit
  <2>6. LoopPlace(t, i)'
    BY <1>1, <1>3, <2>1, <2>5 DEF LoopPlace, AtBarrier, Here, Alone
  <2>7. LoopStretch(i)'
    BY <1>1, <1>3, <1>5, <2>3, <2>6, LoopStays DEF LoopStretch
  <2> QED
    BY <1>2, <1>3, <2>7 DEF IInv, Stretch
<1>6. ASSUME nGraph.n # 1, NEW i \in Nat, ChunkStretch(i), ChunkPlace(t, i)
      PROVE  IInv'
  <2>1. pc'[t] = "barrier" /\ ret'[t] = "finished"
    BY <1>6, BarrierGoes
  <2>2. node[t] = i + 1 /\ i = Len(plan.graph)
    BY <1>6 DEF ChunkPlace, AtBarrier, Released, Waits
  <2>3. Here(t)' /\ ChunkPlace(t, i)'
    BY <1>1, <1>3, <2>1, <2>2 DEF ChunkPlace, ChunkExit, AtBarrier, Here, Alone
  <2>4. ChunksGiven(i)'
    BY <1>1, <1>6, <2>1, GivenStays DEF ChunkStretch, Fresh, Released
  <2>5. ChunkStretch(i)'
    BY <1>1, <1>3, <1>6, <2>3, <2>4, ChunkStays DEF ChunkStretch
  <2> QED
    BY <1>2, <1>3, <2>5 DEF IInv, Stretch
<1> QED
  BY <1>3, <1>4, <1>5, <1>6

\* Where a thread is that the for statement does not turn away.
LEMMA AtNode ==
  ASSUME IInv, NEW t \in Threads, pc[t] = "loop", ~LastNode(t), abort # node[t] - 1
  PROVE  \E i \in Nat :
           /\ LoopStretch(i) /\ Skips(plan.graph, i, node[t])
           /\ node[t] \in 1..Len(plan.graph) /\ abort # i - 1
           /\ t = 0 => abort <= i - 1
<1>1. ~Gone(t) /\ pc[t] \in GraphLabels
  BY DEF Gone, PoolLabels, GraphLabels, Released
<1>2. \/ \E i \in Nat : LoopStretch(i) /\ LoopPlace(t, i)
      \/ \E i \in Nat : ChunkStretch(i) /\ ChunkPlace(t, i)
  BY <1>1, InAStretch
<1>3. node[t] <= Len(plan.graph)
  BY GraphFacts DEF LastNode
<1>4. ASSUME NEW i \in Nat, ChunkStretch(i), ChunkPlace(t, i) PROVE FALSE
  BY <1>3, <1>4, GraphFacts DEF ChunkPlace, AtBarrier, Released, Waits
<1>5. PICK i \in Nat : LoopStretch(i) /\ LoopPlace(t, i)
  BY <1>2, <1>4
<1>6. Skips(plan.graph, i, node[t]) /\ (node[t] # i => abort # i - 1)
  BY <1>3, <1>5, GraphFacts DEF LoopPlace, AtBarrier, Released, Waits, Gone, PoolLabels
<1>7. abort # i - 1
  BY <1>6
<1>8. node[t] \in 1..Len(plan.graph)
  BY <1>3, <1>5, <1>6, GraphFacts DEF LoopStretch, Skips
<1>9. t = 0 => abort <= i - 1
  BY <1>5, <1>6, SkipsToPast, GraphFacts DEF LoopStretch
<1> QED
  BY <1>5, <1>6, <1>7, <1>8, <1>9

\* The loop of ggml_graph_compute_thread.
LEMMA NextNodeIInv ==
  ASSUME IInv, NEW t \in Threads, NextNode(t)
  PROVE  IInv'
<1> USE DEF barrier, control, local
<1>1. CASE LastNode(t) \/ abort = node[t] - 1
  BY <1>1, LeavesLoop DEF NextNode
<1>2. CASE ~LastNode(t) /\ abort # node[t] - 1
  <2>1. PICK i \in Nat :
          /\ LoopStretch(i) /\ Skips(plan.graph, i, node[t])
          /\ node[t] \in 1..Len(plan.graph) /\ abort # i - 1
          /\ t = 0 => abort <= i - 1
    BY <1>2, AtNode DEF NextNode
  <2>2. CASE Kind(t) = "empty"
    <3>1. node' = [node EXCEPT ![t] = @ + 1] /\ UNCHANGED <<pc, ret>>
      BY <1>2, <2>2 DEF NextNode
    <3>2. Alone(t) /\ pc[t] \in NodeLabels /\ pc'[t] \in NodeLabels \cup {"barrier", "finished"}
      BY <3>1, GraphFacts DEF NextNode, Alone, NodeLabels, IInv, Types
    <3>3. Types'
      BY <3>1 DEF NextNode, IInv, Types
    <3>4. /\ t \in Active /\ Here(t)
          /\ Threading' /\ Gathered' /\ Others'
          /\ (pc[0] \notin Outside => nGraph.n # 0)'
          /\ pc[0] \notin Outside /\ pc'[0] \notin Outside
      BY <3>1, <3>2, GraphFrame DEF NextNode
    <3>5. node'[t] = node[t] + 1
      BY <3>1 DEF IInv, Types
    <3>6. Skips(plan.graph, i, node[t] + 1)
      <4>1. /\ i \in Nat /\ node[t] \in Nat /\ Len(plan.graph) \in Nat
            /\ node[t] <= Len(plan.graph) /\ plan.graph[node[t]] = "empty"
        BY <2>1, <2>2, GraphFacts DEF Kind
      <4> QED
        BY <2>1, <4>1 DEF Skips
    <3>7. LoopPlace(t, i)'
      BY <2>1, <3>1, <3>2, <3>4, <3>5, <3>6 DEF LoopPlace, Here, Alone, NextNode
    <3>8. abort' <= i - 1 \/ (abort' = node'[0] - 1 /\ Past(plan.graph, i, node'[0]))
      BY <2>1, <3>2, GraphFacts DEF Alone, LoopStretch, NextNode
    <3>9. LoopStretch(i)'
      BY <2>1, <3>2, <3>4, <3>7, <3>8, LoopStays DEF LoopStretch, NextNode
    <3> QED
      BY <3>3, <3>4, <3>9 DEF IInv, Stretch
  <2>3. CASE Kind(t) # "empty"
    <3>1. /\ pc' = [pc EXCEPT ![t] = IF Kind(t) = "mulmat" THEN "convert" ELSE "compute"]
          /\ UNCHANGED <<node, ret>>
      BY <1>2, <2>3 DEF NextNode, Goto
    <3>2. Alone(t) /\ pc[t] \in NodeLabels /\ pc'[t] \in NodeLabels \cup {"barrier", "finished"}
      BY <3>1, GraphFacts DEF NextNode, Alone, NodeLabels, IInv, Types
    <3>3. Types'
      BY <3>1 DEF NextNode, IInv, Types, GraphLabels
    <3>4. pc'[t] = (IF Kind(t) = "mulmat" THEN "convert" ELSE "compute")
      BY <3>1 DEF IInv, Types
    <3>5. /\ t \in Active /\ Here(t)
          /\ Threading' /\ Gathered' /\ Others'
          /\ (pc[0] \notin Outside => nGraph.n # 0)'
          /\ pc[0] \notin Outside /\ pc'[0] \notin Outside
      BY <3>1, <3>2, <3>4, GraphFrame DEF NextNode
    <3>6. Work(plan.graph, i, node[t])
      BY <2>1, <2>3, GraphFacts DEF Work, Kind
    <3>7. LoopPlace(t, i)'
      BY <2>1, <3>1, <3>2, <3>4, <3>5, <3>6 DEF LoopPlace, Here, Alone, NextNode, Kind
    <3>8. LoopStretch(i)'
      BY <2>1, <3>1, <3>2, <3>5, <3>7, LoopStays DEF LoopStretch, NextNode
    <3> QED
      BY <3>3, <3>5, <3>8 DEF IInv, Stretch
  <2> QED
    BY <2>2, <2>3
<1> QED
  BY <1>1, <1>2

\* A node that is computed in shares.
LEMMA ComputeShareIInv ==
  ASSUME IInv, NEW t \in Threads, ComputeShare(t)
  PROVE  IInv'
<1> USE DEF ComputeShare, Goto, barrier, control, local
<1>1. Alone(t) /\ pc[t] \in NodeLabels /\ pc'[t] = "after"
  BY DEF Alone, NodeLabels, IInv, Types
<1>2. Types'
  BY DEF IInv, Types, GraphLabels
<1>3. /\ t \in Active /\ Here(t)
      /\ Threading' /\ Gathered' /\ Others'
      /\ (pc[0] \notin Outside => nGraph.n # 0)'
      /\ pc[0] \notin Outside /\ pc'[0] \notin Outside
      /\ \/ \E i \in Nat : LoopStretch(i) /\ LoopPlace(t, i)
         \/ \E i \in Nat : ChunkStretch(i) /\ ChunkPlace(t, i)
  BY <1>1, GraphFrame DEF NodeLabels
<1>4. \A i \in Nat : ~ChunkPlace(t, i)
  BY DEF ChunkPlace, AtBarrier, Released, Waits
<1>5. PICK i \in Nat : LoopStretch(i) /\ LoopPlace(t, i)
  BY <1>3, <1>4
<1>6. /\ abort # i - 1 /\ Work(plan.graph, i, node[t])
      /\ plan.graph[node[t]] # "mulmat"
  BY <1>5 DEF LoopPlace, AtBarrier, Released, Waits, Gone, PoolLabels
<1>7. LoopPlace(t, i)'
  BY <1>1, <1>3, <1>6 DEF LoopPlace, Here, Alone
<1>8. \A j, c \in Nat : <<j, "chunk", c>> \in done' => j < i
  BY <1>5 DEF LoopStretch
<1>9. LoopStretch(i)'
  BY <1>1, <1>3, <1>5, <1>7, <1>8, LoopStays DEF LoopStretch
<1> QED
  BY <1>2, <1>3, <1>9 DEF IInv, Stretch

\* The first phase of a product.
LEMMA ConvertIInv ==
  ASSUME IInv, NEW t \in Threads, Convert(t)
  PROVE  IInv'
<1> USE DEF Convert, barrier, control, local
<1>1. CASE t = 0
  <2> USE <1>1
  <2>1. pc' = [pc EXCEPT ![t] = "resetChunk"] /\ UNCHANGED ret
    BY DEF Goto
  <2>2. Alone(t) /\ pc[t] \in NodeLabels /\ pc'[t] = "resetChunk"
    BY <2>1 DEF Alone, NodeLabels, IInv, Types
  <2>3. Types'
    BY <2>1 DEF IInv, Types, GraphLabels
  <2>4. /\ t \in Active /\ Here(t)
        /\ Threading' /\ Gathered' /\ Others'
        /\ (pc[0] \notin Outside => nGraph.n # 0)'
        /\ pc[0] \notin Outside /\ pc'[0] \notin Outside
        /\ \/ \E i \in Nat : LoopStretch(i) /\ LoopPlace(t, i)
           \/ \E i \in Nat : ChunkStretch(i) /\ ChunkPlace(t, i)
    BY <2>2, GraphFrame DEF NodeLabels
  <2>5. \A i \in Nat : ~ChunkPlace(t, i)
    BY DEF ChunkPlace, AtBarrier, Released, Waits
  <2>6. PICK i \in Nat : LoopStretch(i) /\ LoopPlace(t, i)
    BY <2>4, <2>5
  <2>7. /\ abort # i - 1 /\ Work(plan.graph, i, node[t])
        /\ plan.graph[node[t]] = "mulmat"
    BY <2>6 DEF LoopPlace, AtBarrier, Released, Waits, Gone, PoolLabels
  <2>8. LoopPlace(t, i)'
    BY <2>2, <2>4, <2>7 DEF LoopPlace, Here, Alone
  <2>9. \A j, c \in Nat : <<j, "chunk", c>> \in done' => j < i
    BY <2>6 DEF LoopStretch
  <2>10. LoopStretch(i)'
    BY <2>2, <2>4, <2>6, <2>8, <2>9, LoopStays DEF LoopStretch
  <2> QED
    BY <2>3, <2>4, <2>10 DEF IInv, Stretch
<1>2. CASE t # 0
  <2> USE <1>2
  <2>1. Barrier(t, "firstChunk") /\ pc[t] = "convert"
    OBVIOUS
  <2>2. Alone(t) /\ pc[t] \in NodeLabels /\ pc'[t] \in {"firstChunk", "barrier"}
    BY <2>1, BarrierGoes DEF Alone, NodeLabels
  <2>3. Types'
    BY <2>1, BarrierGoes DEF IInv, Types
  <2>4. /\ t \in Active /\ Here(t)
        /\ Threading' /\ Gathered' /\ Others'
        /\ (pc[0] \notin Outside => nGraph.n # 0)'
        /\ pc[0] \notin Outside /\ pc'[0] \notin Outside
        /\ \/ \E i \in Nat : LoopStretch(i) /\ LoopPlace(t, i)
           \/ \E i \in Nat : ChunkStretch(i) /\ ChunkPlace(t, i)
    BY <2>2, GraphFrame DEF NodeLabels
  <2>5. pc'[t] = "barrier" /\ ret'[t] = "firstChunk"
    BY <2>1, <2>4, ActiveAlone, BarrierGoes
  <2>6. \A i \in Nat : ~ChunkPlace(t, i)
    BY DEF ChunkPlace, AtBarrier, Released, Waits
  <2>7. PICK i \in Nat : LoopStretch(i) /\ LoopPlace(t, i)
    BY <2>4, <2>6
  <2>8. /\ abort # i - 1 /\ Work(plan.graph, i, node[t])
        /\ plan.graph[node[t]] = "mulmat"
    BY <2>7 DEF LoopPlace, AtBarrier, Released, Waits, Gone, PoolLabels
  <2>9. LoopExit(t, i)'
    BY <2>5, <2>8 DEF LoopExit
  <2>10. LoopPlace(t, i)'
    BY <2>2, <2>4, <2>5, <2>9 DEF LoopPlace, AtBarrier, Here, Alone
  <2>11. \A j, c \in Nat : <<j, "chunk", c>> \in done' => j < i
    BY <2>7 DEF LoopStretch
  <2>12. LoopStretch(i)'
    BY <2>2, <2>4, <2>7, <2>10, <2>11, LoopStays DEF LoopStretch
  <2> QED
    BY <2>3, <2>4, <2>12 DEF IInv, Stretch
<1> QED
  BY <1>1, <1>2

\* Thread 0 resets current_chunk before the barrier of the product.
LEMMA ResetChunkIInv ==
  ASSUME IInv, ResetChunk
  PROVE  IInv'
<1> USE DEF ResetChunk, barrier, control, local
<1>1. 0 \in Threads /\ nGraph.n \in Nat
  BY GraphFacts DEF IInv, Types, Graphs
<1>2. Alone(0) /\ pc[0] \in NodeLabels /\ pc'[0] \in {"firstChunk", "barrier"}
  BY <1>1, BarrierGoes DEF Alone, NodeLabels
<1>3. Types'
  BY <1>1, BarrierGoes DEF IInv, Types
<1>4. /\ 0 \in Active /\ Here(0)
      /\ Threading' /\ Gathered' /\ Others'
      /\ (pc[0] \notin Outside => nGraph.n # 0)'
      /\ pc[0] \notin Outside /\ pc'[0] \notin Outside
      /\ \/ \E i \in Nat : LoopStretch(i) /\ LoopPlace(0, i)
         \/ \E i \in Nat : ChunkStretch(i) /\ ChunkPlace(0, i)
  BY <1>1, <1>2, GraphFrame DEF NodeLabels
<1>5. \A i \in Nat : ~ChunkPlace(0, i)
  BY DEF ChunkPlace, AtBarrier, Released, Waits
<1>6. PICK i \in Nat : LoopStretch(i) /\ LoopPlace(0, i)
  BY <1>4, <1>5
<1>7. /\ abort # i - 1 /\ Work(plan.graph, i, node[0])
      /\ plan.graph[node[0]] = "mulmat"
  BY <1>6 DEF LoopPlace, AtBarrier, Released, Waits, Gone, PoolLabels
<1>8. abort <= i - 1
  BY <1>1, <1>6, <1>7, WorkToPast, GraphFacts DEF LoopStretch
<1>9. i \in 1..Len(plan.graph) /\ node[0] \in 1..Len(plan.graph) /\ i <= node[0]
  BY <1>1, <1>6, <1>7, GraphFacts DEF LoopStretch, Work, Skips
<1>10. CASE nGraph.n = 1
  <2>1. \A u \in Active' : u = 0
    BY <1>10, ActiveAlone DEF Active
  <2>2. pc'[0] = "firstChunk"
    BY <1>1, <1>10, BarrierGoes
  <2>3. abort' <= node[0]
    BY <1>8, <1>9, GraphFacts
  <2>4. \A j, c \in Nat : <<j, "chunk", c>> \in done' => j < node[0]
    BY <1>6, <1>9 DEF LoopStretch
  <2>5. ChunkStretch(node[0])'
    <3> DEFINE k == node[0]
    <3>1. k \in Nat /\ k = node[0] /\ k \in 1..Len(plan'.graph) /\ plan'.graph[k] = "mulmat"
      BY <1>7, <1>9
    <3>2. node'[0] = k /\ Here(0)'
      BY DEF Here
    <3> HIDE DEF k
    <3> QED
      BY <1>1, <1>4, <2>1, <2>2, <2>3, <2>4, <3>1, <3>2, EnterChunks, GraphFacts
  <2> QED
    BY <1>1, <1>3, <1>4, <2>5, GraphFacts DEF IInv, Stretch
<1>11. CASE nGraph.n # 1
  <2>1. pc'[0] = "barrier" /\ ret'[0] = "firstChunk"
    BY <1>1, <1>11, BarrierGoes
  <2>2. LoopExit(0, i)'
    BY <1>7, <2>1 DEF LoopExit
  <2>3. LoopPlace(0, i)'
    BY <1>4, <2>1, <2>2 DEF LoopPlace, AtBarrier, Here
  <2>4. LoopStretch(i)'
    BY <1>1, <1>2, <1>4, <1>6, <1>8, <2>3, LoopStays DEF LoopStretch
  <2> QED
    BY <1>3, <1>4, <2>4 DEF IInv, Stretch
<1> QED
  BY <1>10, <1>11

-----------------------------------------------------------------------------
(* The chunks of a matrix product.                                         *)

\* A thread with a chunk is in a stretch that began with chunks.
LEMMA AtChunk ==
  ASSUME IInv, NEW t \in Threads, pc[t] \in {"firstChunk", "chunk", "fetchChunk"}
  PROVE  /\ t \in Active
         /\ \E i \in Nat : ChunkStretch(i) /\ node[t] = i
<1>1. ~Gone(t) /\ pc[t] \in GraphLabels
  BY DEF Gone, PoolLabels, GraphLabels, Released
<1>2. t \in Active
  BY <1>1, InAStretch
<1>3. \A i \in Nat : ~LoopPlace(t, i)
  BY <1>1 DEF LoopPlace, AtBarrier, Released, Waits
<1>4. PICK i \in Nat : ChunkStretch(i) /\ ChunkPlace(t, i)
  BY <1>1, <1>3, InAStretch
<1>5. node[t] = i
  BY <1>4 DEF ChunkPlace, AtBarrier, Released, Waits
<1> QED
  BY <1>2, <1>4, <1>5

\* A thread begins with the chunk of its own number.
LEMMA FirstChunkIInv ==
  ASSUME IInv, NEW t \in Threads, FirstChunk(t)
  PROVE  IInv'
<1> USE DEF FirstChunk, Chunk, Goto, barrier, control, local
<1>1. Alone(t) /\ pc[t] \in NodeLabels /\ pc'[t] \in {"chunk", "after"} /\ chunk'[t] = t
  BY DEF Alone, NodeLabels, IInv, Types
<1>2. Types'
  BY GraphFacts DEF IInv, Types, GraphLabels
<1>3. /\ t \in Active /\ Here(t)
      /\ Threading' /\ Gathered' /\ Others'
      /\ (pc[0] \notin Outside => nGraph.n # 0)'
      /\ pc[0] \notin Outside /\ pc'[0] \notin Outside
  BY <1>1, GraphFrame DEF NodeLabels
<1>4. PICK i \in Nat : ChunkStretch(i) /\ node[t] = i
  BY AtChunk
<1>5. Here(t)' /\ ChunkPlace(t, i)'
  BY <1>1, <1>3, <1>4 DEF Here, Alone, ChunkPlace
<1>6. Active' = Active /\ Active \subseteq Threads /\ Active \subseteq Nat
  BY GraphFacts DEF Active
<1>7. t < nGraph.n /\ nGraph.n <= currentChunk /\ nGraph.n \in Nat /\ currentChunk \in Nat
  BY <1>3, <1>4 DEF ChunkStretch, ChunksGiven, Active, IInv, Types, Graphs, Threads
<1>8. \A u \in Active : chunk[u] \in Nat
  BY <1>6 DEF IInv, Types
<1>9. \A u \in Active : u # t => (pc'[u] = pc[u] /\ chunk'[u] = chunk[u])
  BY <1>1, <1>6 DEF Alone
<1>10. ~Fresh(t)' /\ \A u \in Active : u # t => (Fresh(u)' <=> Fresh(u))
  BY <1>1, <1>6 DEF Fresh, Released, Alone
<1>11. <<i, "chunk", t>> \notin done
  BY <1>3, <1>4 DEF ChunkStretch, ChunksGiven, Fresh
<1>12. \A u \in Active : u # t /\ pc[u] = "chunk" =>
         /\ chunk[u] = u \/ nGraph.n <= chunk[u]
         /\ chunk[u] < currentChunk
         /\ <<i, "chunk", chunk[u]>> \notin done
         /\ chunk[u] # t
  BY <1>4, <1>6, <1>7, <1>8 DEF ChunkStretch, ChunksGiven
<1>13. ASSUME NEW u \in Active, pc'[u] = "chunk"
       PROVE  /\ chunk'[u] = u \/ nGraph.n <= chunk'[u]
              /\ chunk'[u] < currentChunk
              /\ <<i, "chunk", chunk'[u]>> \notin done
              /\ \A v \in Active \ {u} : pc'[v] = "chunk" => chunk'[v] # chunk'[u]
  <2>1. CASE u = t
    <3>1. t < currentChunk
      BY <1>6, <1>7
    <3> QED
      BY <2>1, <3>1, <1>1, <1>9, <1>11, <1>12
  <2>2. CASE u # t
    <3>1. pc[u] = "chunk" /\ chunk'[u] = chunk[u]
      BY <2>2, <1>9, <1>13
    <3>2. \A v \in Active \ {u} : pc[v] = "chunk" => chunk[v] # chunk[u]
      BY <1>4, <3>1 DEF ChunkStretch, ChunksGiven
    <3>3. \A v \in Active \ {u} : pc'[v] = "chunk" => chunk'[v] # chunk[u]
      BY <1>1, <1>9, <1>12, <2>2, <3>1, <3>2
    <3> QED
      BY <1>12, <2>2, <3>1, <3>3
  <2> QED
    BY <2>1, <2>2
<1>14. ChunksGiven(i)'
  BY <1>4, <1>6, <1>10, <1>13 DEF ChunkStretch, ChunksGiven
<1>15. ChunkStretch(i)'
  BY <1>1, <1>3, <1>4, <1>5, <1>14, ChunkStays DEF ChunkStretch
<1> QED
  BY <1>2, <1>3, <1>15 DEF IInv, Stretch

\* A chunk is computed.
LEMMA ComputeChunkIInv ==
  ASSUME IInv, NEW t \in Threads, ComputeChunk(t)
  PROVE  IInv'
<1> USE DEF ComputeChunk, Goto, barrier, control, local
<1>1. Alone(t) /\ pc[t] \in NodeLabels /\ pc'[t] \in {"fetchChunk", "after"}
  BY DEF Alone, NodeLabels, IInv, Types
<1>2. Types'
  BY DEF IInv, Types, GraphLabels
<1>3. /\ t \in Active /\ Here(t)
      /\ Threading' /\ Gathered' /\ Others'
      /\ (pc[0] \notin Outside => nGraph.n # 0)'
      /\ pc[0] \notin Outside /\ pc'[0] \notin Outside
  BY <1>1, GraphFrame DEF NodeLabels
<1>4. PICK i \in Nat : ChunkStretch(i) /\ node[t] = i
  BY AtChunk
<1>5. Here(t)' /\ ChunkPlace(t, i)'
  BY <1>1, <1>3, <1>4 DEF Here, Alone, ChunkPlace
<1>6. Active' = Active /\ Active \subseteq Threads /\ Active \subseteq Nat
  BY GraphFacts DEF Active
<1>7. \A u \in Active : chunk[u] \in Nat
  BY <1>6 DEF IInv, Types
<1>8. /\ chunk[t] = t \/ nGraph.n <= chunk[t]
      /\ chunk[t] < currentChunk
      /\ \A v \in Active \ {t} : pc[v] = "chunk" => chunk[v] # chunk[t]
  BY <1>3, <1>4 DEF ChunkStretch, ChunksGiven
<1>9. nGraph.n \in Nat /\ \A u \in Active : u # t => u # chunk[t]
  <2>1. \A u \in Active : u < nGraph.n
    BY <1>3, <1>6, GraphFacts DEF Active, IInv, Types, Graphs
  <2>2. nGraph.n \in Nat
    BY DEF IInv, Types, Graphs
  <2> QED
    BY <1>3, <1>6, <1>7, <1>8, <2>1, <2>2
<1>10. \A j, c \in Nat : <<j, "chunk", c>> \in done' =>
         <<j, "chunk", c>> \in done \/ (j = i /\ c = chunk[t])
  BY <1>4
<1>11. \A u \in Active : Fresh(u)' => u # t /\ Fresh(u)
  BY <1>1, <1>6 DEF Fresh, Released, Alone
<1>12. \A u \in Active : Fresh(u)' => <<i, "chunk", u>> \notin done'
  BY <1>4, <1>6, <1>9, <1>10, <1>11 DEF ChunkStretch, ChunksGiven
<1>13. \A j, c \in Nat : <<j, "chunk", c>> \in done' => j <= i /\ (j = i => c < currentChunk)
  BY <1>4, <1>8, <1>10 DEF ChunkStretch, ChunksGiven
<1>14. ASSUME NEW u \in Active, pc'[u] = "chunk"
       PROVE  /\ chunk[u] = u \/ nGraph.n <= chunk[u]
              /\ chunk[u] < currentChunk
              /\ <<i, "chunk", chunk[u]>> \notin done'
              /\ \A v \in Active \ {u} : pc'[v] = "chunk" => chunk[v] # chunk[u]
  <2>1. u # t /\ pc[u] = "chunk"
    BY <1>1, <1>6, <1>14 DEF Alone
  <2>2. chunk[u] # chunk[t]
    BY <1>8, <2>1
  <2>3. <<i, "chunk", chunk[u]>> \notin done'
    BY <1>4, <1>7, <1>10, <2>1, <2>2 DEF ChunkStretch, ChunksGiven
  <2>4. \A v \in Active : pc'[v] = "chunk" => pc[v] = "chunk"
    BY <1>1, <1>6 DEF Alone
  <2> QED
    BY <1>4, <2>1, <2>3, <2>4 DEF ChunkStretch, ChunksGiven
<1>15. ChunksGiven(i)'
  BY <1>4, <1>6, <1>12, <1>13, <1>14 DEF ChunkStretch, ChunksGiven
<1>16. ChunkStretch(i)'
  BY <1>1, <1>3, <1>4, <1>5, <1>15, ChunkStays DEF ChunkStretch
<1> QED
  BY <1>2, <1>3, <1>16 DEF IInv, Stretch

\* The next chunk is the one current_chunk names, which is past all given out.
LEMMA FetchChunkIInv ==
  ASSUME IInv, NEW t \in Threads, FetchChunk(t)
  PROVE  IInv'
<1> USE DEF FetchChunk, Chunk, Goto, barrier, control, local
<1>1. /\ Alone(t) /\ pc[t] \in NodeLabels /\ pc'[t] \in {"chunk", "after"}
      /\ chunk'[t] = currentChunk /\ currentChunk \in Nat
  BY DEF Alone, NodeLabels, IInv, Types
<1>2. Types'
  BY DEF IInv, Types, GraphLabels
<1>3. /\ t \in Active /\ Here(t)
      /\ Threading' /\ Gathered' /\ Others'
      /\ (pc[0] \notin Outside => nGraph.n # 0)'
      /\ pc[0] \notin Outside /\ pc'[0] \notin Outside
  BY <1>1, GraphFrame DEF NodeLabels
<1>4. PICK i \in Nat : ChunkStretch(i) /\ node[t] = i
  BY AtChunk
<1>5. Here(t)' /\ ChunkPlace(t, i)'
  BY <1>1, <1>3, <1>4 DEF Here, Alone, ChunkPlace
<1>6. Active' = Active /\ Active \subseteq Threads /\ Active \subseteq Nat
  BY GraphFacts DEF Active
<1>7. \A u \in Active : chunk[u] \in Nat
  BY <1>6 DEF IInv, Types
<1>8. nGraph.n \in Nat /\ nGraph.n <= currentChunk /\ currentChunk' = currentChunk + 1
  BY <1>4 DEF ChunkStretch, ChunksGiven, IInv, Types, Graphs
<1>9. <<i, "chunk", currentChunk>> \notin done
  BY <1>1, <1>4 DEF ChunkStretch, ChunksGiven
<1>10. \A j, c \in Nat : <<j, "chunk", c>> \in done => j <= i /\ (j = i => c < currentChunk')
  BY <1>1, <1>4, <1>8 DEF ChunkStretch, ChunksGiven
<1>11. \A u \in Active : Fresh(u)' => Fresh(u)
  BY <1>1, <1>6 DEF Fresh, Released, Alone
<1>12. \A u \in Active : u # t => (pc'[u] = pc[u] /\ chunk'[u] = chunk[u])
  BY <1>1, <1>6 DEF Alone
<1>13. \A u \in Active : pc[u] = "chunk" => chunk[u] < currentChunk
  BY <1>4 DEF ChunkStretch, ChunksGiven
<1>14. ASSUME NEW u \in Active, pc'[u] = "chunk"
       PROVE  /\ chunk'[u] = u \/ nGraph.n <= chunk'[u]
              /\ chunk'[u] < currentChunk'
              /\ <<i, "chunk", chunk'[u]>> \notin done
              /\ \A v \in Active \ {u} : pc'[v] = "chunk" => chunk'[v] # chunk'[u]
  <2>1. CASE u = t
    <3>1. \A v \in Active \ {u} : pc'[v] = "chunk" => chunk'[v] < currentChunk /\ chunk'[v] \in Nat
      BY <1>7, <1>12, <1>13, <2>1
    <3>2. \A v \in Active \ {u} : pc'[v] = "chunk" => chunk'[v] # chunk'[u]
      BY <1>1, <2>1, <3>1
    <3> QED
      BY <1>1, <1>8, <1>9, <2>1, <3>2
  <2>2. CASE u # t
    <3>1. pc[u] = "chunk" /\ chunk'[u] = chunk[u]
      BY <2>2, <1>12, <1>14
    <3>2. /\ chunk[u] = u \/ nGraph.n <= chunk[u]
          /\ chunk[u] < currentChunk /\ chunk[u] \in Nat
          /\ <<i, "chunk", chunk[u]>> \notin done
          /\ \A v \in Active \ {u} : pc[v] = "chunk" => chunk[v] # chunk[u]
      BY <1>4, <1>7, <3>1 DEF ChunkStretch, ChunksGiven
    <3>3. \A v \in Active \ {u} : pc'[v] = "chunk" => chunk'[v] # chunk[u]
      BY <1>1, <1>12, <3>2
    <3>4. chunk[u] < currentChunk'
      BY <1>1, <1>8, <3>2
    <3> QED
      BY <3>1, <3>2, <3>3, <3>4
  <2> QED
    BY <2>1, <2>2
<1>15. nGraph.n <= currentChunk'
  BY <1>1, <1>8
<1>16. ChunksGiven(i)'
  BY <1>4, <1>6, <1>10, <1>11, <1>14, <1>15 DEF ChunkStretch, ChunksGiven
<1>17. ChunkStretch(i)'
  BY <1>1, <1>3, <1>4, <1>5, <1>16, ChunkStays DEF ChunkStretch
<1> QED
  BY <1>2, <1>3, <1>17 DEF IInv, Stretch

-----------------------------------------------------------------------------
(* After a node.                                                           *)

LEMMA AfterNodeIInv ==
  ASSUME IInv, NEW t \in Threads, AfterNode(t)
  PROVE  IInv'
<1> DEFINE m == node[t] + (IF Kind(t) = "fused" THEN 2 ELSE 1)
<1>1. /\ pc[t] = "after" /\ node' = [node EXCEPT ![t] = m]
      /\ abort' = abort \/ (t = 0 /\ abort' = m - 1)
      /\ UNCHANGED <<chunk, passed, local, barrier, control, currentChunk, done>>
      /\ m <= Len(plan.graph) => Barrier(t, "loop")
      /\ ~(m <= Len(plan.graph)) => Goto(t, "loop") /\ UNCHANGED ret
  BY DEF AfterNode
<1>2. m \in Nat /\ node'[t] = m /\ m = node[t] + (IF Kind(t) = "fused" THEN 2 ELSE 1)
  <2>1. node[t] \in Nat
    BY GraphFacts
  <2>2. m \in Nat
    BY <2>1
  <2>3. node'[t] = m
    BY <1>1 DEF IInv, Types
  <2> QED
    BY <2>2, <2>3
<1> HIDE DEF m
<1> USE DEF barrier, control, local
<1>3. /\ pc' \in [Threads -> Outside \cup PoolLabels \cup GraphLabels \cup {"start"}]
      /\ ret' \in [Threads -> {"none", "loop", "firstChunk", "finished"}]
      /\ pc'[t] \in {"loop", "barrier"}
      /\ \A u \in Threads \ {t} : pc'[u] = pc[u] /\ ret'[u] = ret[u]
  <2>1. CASE m <= Len(plan.graph)
    BY <1>1, <2>1, BarrierGoes
  <2>2. CASE ~(m <= Len(plan.graph))
    BY <1>1, <2>2 DEF Goto, IInv, Types, GraphLabels
  <2> QED
    BY <2>1, <2>2
<1>4. Alone(t) /\ pc[t] \in NodeLabels
  <2>1. \A u \in Threads \ {t} : node'[u] = node[u]
    BY <1>1 DEF IInv, Types
  <2> QED
    BY <1>1, <1>3, <2>1 DEF Alone, NodeLabels
<1>5. Types'
  <2>1. node' \in [Threads -> Nat]
    BY <1>1, <1>2 DEF IInv, Types
  <2>2. abort' \in Int
    BY <1>1, <1>2 DEF IInv, Types
  <2> QED
    BY <1>1, <1>3, <2>1, <2>2 DEF IInv, Types
<1>6. /\ t \in Active /\ Here(t)
      /\ Threading' /\ Gathered' /\ Others'
      /\ (pc[0] \notin Outside => nGraph.n # 0)'
      /\ pc[0] \notin Outside /\ pc'[0] \notin Outside
      /\ \/ \E i \in Nat : LoopStretch(i) /\ LoopPlace(t, i)
         \/ \E i \in Nat : ChunkStretch(i) /\ ChunkPlace(t, i)
  BY <1>1, <1>3, <1>4, GraphFrame DEF NodeLabels
<1>7. Here(t)'
  BY <1>1, <1>6 DEF Here
<1>8. m <= Len(plan.graph) =>
        /\ nGraph.n = 1 => pc'[t] = "loop"
        /\ nGraph.n # 1 => pc'[t] = "barrier" /\ ret'[t] = "loop"
  BY <1>1, BarrierGoes
<1>9. ~(m <= Len(plan.graph)) => pc'[t] = "loop"
  BY <1>1 DEF Goto, IInv, Types
<1>10. nGraph.n = 1 => t = 0 /\ \A u \in Active' : u = t
  BY <1>1, <1>6, ActiveAlone DEF Active
<1>11. ASSUME NEW i \in Nat, LoopStretch(i), LoopPlace(t, i) PROVE Stretch'
  <2>1. abort # i - 1 /\ Work(plan.graph, i, node[t]) /\ plan.graph[node[t]] # "mulmat"
    BY <1>1, <1>11 DEF LoopPlace, AtBarrier, Released, Waits, Gone, PoolLabels
  <2>2. Past(plan.graph, i, m) /\ i < m
    <3>1. node[t] \in 1..Len(plan.graph) /\ i <= node[t]
      BY <1>11, <2>1, GraphFacts DEF Work, Skips, LoopStretch
    <3>2. Past(plan.graph, i, m)
      BY <1>2, <2>1, <3>1 DEF Past, Kind
    <3> QED
      BY <1>2, <3>1, <3>2, PastRange, GraphFacts
  <2>3. t = 0 => abort <= i - 1
    BY <1>11, <2>1, WorkToPast, GraphFacts DEF LoopStretch
  <2>4. abort' = i - 1 <=> abort = i - 1
    BY <1>1, <1>2, <2>1, <2>2, GraphFacts
  <2>5. \A j, c \in Nat : <<j, "chunk", c>> \in done' => j < i
    BY <1>1, <1>11 DEF LoopStretch
  <2>6. i \in 1..Len(plan.graph)
    BY <1>11 DEF LoopStretch
  <2>7. CASE nGraph.n = 1 /\ m <= Len(plan.graph)
    <3>1. \A u \in Active' : pc'[u] = "loop" /\ node'[u] = m /\ Here(u)'
      BY <1>2, <1>7, <1>8, <1>10, <2>7
    <3>2. abort' <= m - 1
      BY <1>1, <1>2, <1>10, <2>2, <2>3, <2>7, GraphFacts
    <3>3. \A j, c \in Nat : <<j, "chunk", c>> \in done' => j < m
      BY <1>2, <2>2, <2>5
    <3>4. m \in 1..Len(plan'.graph) /\ Len(plan'.graph) \in Nat
      BY <1>1, <1>2, <2>2, <2>7, GraphFacts
    <3>5. PICK k \in Nat : k = m
      BY <1>2
    <3>6. LoopStretch(k)'
      BY <1>6, <3>1, <3>2, <3>3, <3>4, <3>5, EnterLoop
    <3> QED
      BY <3>6 DEF Stretch
  <2>8. CASE ~(nGraph.n = 1 /\ m <= Len(plan.graph))
    <3>1. LoopPlace(t, i)'
      <4>1. CASE m <= Len(plan.graph)
        <5>1. pc'[t] = "barrier" /\ ret'[t] = "loop"
          BY <1>8, <2>8, <4>1
        <5>2. LoopExit(t, i)'
          BY <1>1, <1>2, <2>1, <2>2, <2>4, <4>1, <5>1 DEF LoopExit
        <5> QED
          BY <1>7, <5>1, <5>2 DEF LoopPlace, AtBarrier
      <4>2. CASE ~(m <= Len(plan.graph))
        <5>1. pc'[t] = "loop" /\ m > Len(plan.graph)
          BY <1>2, <1>9, <4>2, GraphFacts
        <5> QED
          BY <1>1, <1>2, <1>7, <2>1, <2>2, <2>4, <5>1 DEF LoopPlace
      <4> QED
        BY <4>1, <4>2
    <3>2. abort' <= i - 1 \/ (abort' = node'[0] - 1 /\ Past(plan.graph, i, node'[0]))
      <4>1. CASE t = 0
        BY <1>1, <1>2, <2>2, <2>3, <4>1
      <4>2. CASE t # 0
        BY <1>1, <1>4, <1>11, <4>2, GraphFacts DEF LoopStretch, Alone
      <4> QED
        BY <4>1, <4>2
    <3>3. LoopStretch(i)'
      BY <1>1, <1>4, <1>6, <1>11, <2>4, <2>5, <3>1, <3>2, LoopStays
    <3> QED
      BY <3>3 DEF Stretch
  <2> QED
    BY <2>7, <2>8
<1>12. ASSUME NEW i \in Nat, ChunkStretch(i), ChunkPlace(t, i) PROVE Stretch'
  <2>1. node[t] = i /\ i \in 1..Len(plan.graph) /\ plan.graph[i] = "mulmat"
    BY <1>1, <1>12 DEF ChunkPlace, AtBarrier, Released, Waits, ChunkStretch
  <2>2. m = i + 1
    BY <1>2, <2>1 DEF Kind
  <2>3. abort' <= i
    BY <1>1, <1>12, <2>2 DEF ChunkStretch
  <2>4. CASE nGraph.n = 1 /\ m <= Len(plan.graph)
    <3>1. \A u \in Active' : pc'[u] = "loop" /\ node'[u] = m /\ Here(u)'
      BY <1>2, <1>7, <1>8, <1>10, <2>4
    <3>2. abort' <= m - 1
      BY <1>5, <2>2, <2>3 DEF Types
    <3>3. \A j, c \in Nat : <<j, "chunk", c>> \in done' => j < m
      BY <1>1, <1>12, <2>2 DEF ChunkStretch, ChunksGiven
    <3>4. m \in 1..Len(plan'.graph) /\ Len(plan'.graph) \in Nat
      BY <1>1, <1>2, <2>2, <2>4, GraphFacts
    <3>5. PICK k \in Nat : k = m
      BY <1>2
    <3>6. LoopStretch(k)'
      BY <1>6, <3>1, <3>2, <3>3, <3>4, <3>5, EnterLoop
    <3> QED
      BY <3>6 DEF Stretch
  <2>5. CASE ~(nGraph.n = 1 /\ m <= Len(plan.graph))
    <3>1. ChunkPlace(t, i)'
      <4>1. CASE m <= Len(plan.graph)
        <5>1. pc'[t] = "barrier" /\ ret'[t] = "loop" /\ i < Len(plan.graph)
          BY <1>8, <2>2, <2>5, <4>1, GraphFacts
        <5>2. ChunkExit(t, i)'
          BY <1>1, <1>2, <2>2, <5>1 DEF ChunkExit
        <5> QED
          BY <5>1, <5>2 DEF ChunkPlace, AtBarrier
      <4>2. CASE ~(m <= Len(plan.graph))
        <5>1. pc'[t] = "loop" /\ i = Len(plan.graph)
          BY <1>9, <2>1, <2>2, <4>2, GraphFacts
        <5> QED
          BY <1>1, <1>2, <2>2, <5>1 DEF ChunkPlace
      <4> QED
        BY <4>1, <4>2
    <3>2. ~Fresh(t)' /\ pc'[t] # "chunk"
      BY <1>3 DEF Fresh, Released
    <3>3. ChunksGiven(i)'
      BY <1>1, <1>4, <1>12, <3>2, GivenStays DEF ChunkStretch
    <3>4. ChunkStretch(i)'
      BY <1>4, <1>6, <1>7, <1>12, <2>3, <3>1, <3>3, ChunkStays
    <3> QED
      BY <3>4 DEF Stretch
  <2> QED
    BY <2>4, <2>5
<1> QED
  BY <1>5, <1>6, <1>11, <1>12 DEF IInv

-----------------------------------------------------------------------------
(* The barrier.                                                            *)

\* A thread that moves on in the barrier.
LEMMA AtBarrierStays ==
  ASSUME IInv, NEW t \in Threads, Alone(t), AtBarrier(t), AtBarrier(t)',
         ret' = ret, node' = node, lastGraph' = lastGraph, pending' = pending,
         passed'[t] <= nPassed', abort' = abort, done' = done,
         currentChunk' = currentChunk
  PROVE  /\ t \in Active
         /\ Threading' /\ Others' /\ Stretch'
         /\ (pc[0] \notin Outside => nGraph.n # 0)'
<1>1. /\ ~Gone(t) /\ pc[t] \in GraphLabels /\ pc'[t] \in GraphLabels
      /\ pc[t] # "resetChunk" /\ pc'[t] # "resetChunk"
  BY DEF Gone, PoolLabels, GraphLabels, Released, AtBarrier, Waits, IInv, Types
<1>2. /\ t \in Active /\ Here(t)
      /\ \/ \E i \in Nat : LoopStretch(i) /\ LoopPlace(t, i)
         \/ \E i \in Nat : ChunkStretch(i) /\ ChunkPlace(t, i)
  BY <1>1, InAStretch
<1>3. /\ Threading' /\ (pc[0] \notin Outside => nGraph.n # 0)'
      /\ pc'[0] \notin Outside
  BY <1>1, GraphThreading
<1>4. Others'
  BY <1>2, OthersStay
<1>5. Here(t)' /\ plan' = plan /\ nGraph' = nGraph
  BY <1>2 DEF Here, Alone
<1>6. ~Released(t)
  BY DEF AtBarrier, Released, Waits, IInv, Types
<1>7. ASSUME NEW i \in Nat, LoopStretch(i), LoopPlace(t, i) PROVE Stretch'
  <2>1. LoopExit(t, i)
    BY <1>1, <1>6, <1>7 DEF LoopPlace, AtBarrier, Waits
  <2>2. LoopExit(t, i)'
    BY <1>5, <2>1 DEF LoopExit
  <2>3. LoopPlace(t, i)'
    BY <1>5, <2>2 DEF LoopPlace
  <2>4. LoopStretch(i)'
    BY <1>3, <1>7, <2>3, LoopStays DEF LoopStretch
  <2> QED
    BY <2>4 DEF Stretch
<1>8. ASSUME NEW i \in Nat, ChunkStretch(i), ChunkPlace(t, i) PROVE Stretch'
  <2>1. ChunkExit(t, i)
    BY <1>1, <1>6, <1>8 DEF ChunkPlace, AtBarrier, Waits
  <2>2. ChunkPlace(t, i)'
    BY <1>5, <2>1 DEF ChunkExit, ChunkPlace
  <2>3. ~Fresh(t)' /\ pc'[t] # "chunk"
    BY DEF Fresh, AtBarrier, Waits, Released, IInv, Types, Alone
  <2>4. ChunksGiven(i)'
    BY <1>8, <2>3, GivenStays DEF ChunkStretch
  <2>5. ChunkStretch(i)'
    BY <1>3, <1>5, <1>8, <2>2, <2>4, ChunkStays DEF ChunkStretch
  <2> QED
    BY <2>5 DEF Stretch
<1> QED
  BY <1>2, <1>3, <1>4, <1>7, <1>8

\* The read of n_barrier_passed.
LEMMA EnterBarrierIInv ==
  ASSUME IInv, NEW t \in Threads, EnterBarrier(t)
  PROVE  IInv'
<1> USE DEF EnterBarrier, Goto, barrier, control, local
<1>1. Types'
  BY DEF IInv, Types, GraphLabels
<1>2. Alone(t) /\ pc'[t] = "arrive" /\ passed'[t] = nPassed
  BY DEF Alone, IInv, Types
<1>3. passed'[t] <= nPassed'
  BY <1>2 DEF IInv, Types
<1>4. /\ t \in Active
      /\ Threading' /\ Others' /\ Stretch'
      /\ (pc[0] \notin Outside => nGraph.n # 0)'
  BY <1>2, <1>3, AtBarrierStays DEF AtBarrier
<1>5. Gathered'
  <2>1. \A u \in Threads : Waits(u)' <=> Waits(u)
    BY <1>2 DEF Waits, Alone
  <2>2. Arrived' = Arrived
    BY <1>2, <2>1 DEF Arrived, Alone
  <2>3. Active' = Active /\ Active \subseteq Threads
    BY DEF Active
  <2> QED
    BY <1>2, <2>1, <2>2, <2>3 DEF IInv, Gathered, Alone
<1> QED
  BY <1>1, <1>4, <1>5 DEF IInv

\* The increment of n_barrier; the last one to arrive finds all others waiting.
LEMMA ArriveIInv ==
  ASSUME IInv, NEW t \in Threads, Arrive(t)
  PROVE  IInv'
<1> USE DEF Arrive, Goto, barrier, control, local
<1>1. Types'
  BY DEF IInv, Types, GraphLabels
<1>2. /\ Alone(t) /\ passed' = passed /\ passed[t] = nPassed
      /\ pc'[t] = IF nBarrier = nGraph.n - 1 THEN "resetBarrier" ELSE "spin"
  BY DEF Alone, IInv, Types, Gathered
<1>3. passed'[t] <= nPassed'
  BY <1>2 DEF IInv, Types
<1>4. AtBarrier(t)'
  BY <1>2 DEF AtBarrier, Waits
<1>5. /\ t \in Active
      /\ Threading' /\ Others' /\ Stretch'
      /\ (pc[0] \notin Outside => nGraph.n # 0)'
  BY <1>2, <1>3, <1>4, AtBarrierStays DEF AtBarrier
<1>6. \A u \in Threads : pc[u] \notin {"resetBarrier", "release"}
  BY <1>5 DEF IInv, Gathered, Waits
<1>7. nBarrier = Cardinality(Arrived)
  BY <1>6 DEF IInv, Gathered
<1>8. IsFiniteSet(Arrived) /\ t \notin Arrived
  <2>1. IsFiniteSet(Threads)
    BY PoolAssumption, FS_Interval DEF Threads
  <2> QED
    BY <2>1, FS_Subset DEF Arrived, Waits
<1>9. \A u \in Threads : u # t => (Waits(u)' <=> Waits(u))
  BY <1>2 DEF Waits, Alone
<1>10. Arrived' = Arrived \cup {t}
  BY <1>2, <1>9 DEF Arrived, Alone, Waits
<1>11. nBarrier' = Cardinality(Arrived')
  BY <1>7, <1>8, <1>10, FS_AddElement
<1>12. Active' = Active /\ Active \subseteq Threads
  BY DEF Active
<1>13. ASSUME nBarrier = nGraph.n - 1 PROVE \A u \in Active \ {t} : Waits(u)
  <2>1. nGraph.n \in 0..N /\ nGraph.n # 0
    <3>1. pc[0] \notin Outside
      BY InAStretch DEF GraphLabels, Gone, PoolLabels, Released
    <3> QED
      BY <3>1 DEF IInv, Types, Graphs
  <2>2. Active = 0..(nGraph.n - 1)
    BY <2>1, PoolAssumption DEF Active, Threads
  <2>3. IsFiniteSet(Active) /\ Cardinality(Active) = nGraph.n
    BY <2>1, <2>2, FS_Interval
  <2>4. IsFiniteSet(Active \ {t}) /\ Cardinality(Active \ {t}) = nGraph.n - 1
    BY <1>5, <2>3, FS_RemoveElement
  <2>5. Arrived \subseteq Active \ {t}
    BY <1>6, <1>8 DEF Arrived, IInv, Others, Gone, Waits, Released, PoolLabels, Types
  <2>6. Arrived = Active \ {t}
    BY <1>7, <1>13, <2>4, <2>5, FS_Subset
  <2> QED
    BY <1>6, <2>6 DEF Arrived
<1>14. Gathered'
  <2>1. \A u \in Threads : pc'[u] = "arrive" => passed'[u] = nPassed'
    BY <1>2 DEF IInv, Gathered
  <2>2. ASSUME NEW u \in Threads PROVE
          /\ pc'[u] = "release" => nBarrier' = 0
          /\ pc'[u] \in {"resetBarrier", "release"} => \A v \in Active' \ {u} : Waits(v)'
    <3>1. CASE u # t
      BY <1>2, <1>6, <3>1 DEF Alone
    <3>2. CASE u = t
      BY <1>2, <1>9, <1>12, <1>13, <3>2
    <3> QED
      BY <3>1, <3>2
  <2> QED
    BY <1>11, <2>1, <2>2 DEF Gathered
<1> QED
  BY <1>1, <1>5, <1>14 DEF IInv

\* The last one to arrive resets n_barrier while the others spin.
LEMMA ResetBarrierIInv ==
  ASSUME IInv, NEW t \in Threads, ResetBarrier(t)
  PROVE  IInv'
<1> USE DEF ResetBarrier, Goto, barrier, control, local
<1>1. Types'
  BY DEF IInv, Types, GraphLabels
<1>2. Alone(t) /\ pc'[t] = "release" /\ passed' = passed
  BY DEF Alone, IInv, Types
<1>3. passed'[t] <= nPassed'
  BY <1>2 DEF IInv, Threading
<1>4. /\ t \in Active
      /\ Threading' /\ Others' /\ Stretch'
      /\ (pc[0] \notin Outside => nGraph.n # 0)'
  BY <1>2, <1>3, AtBarrierStays DEF AtBarrier
<1>5. \A u \in Threads : u # t => pc[u] \notin {"resetBarrier", "release"}
  BY <1>4 DEF IInv, Gathered, Waits
<1>6. \A u \in Active \ {t} : Waits(u)
  BY DEF IInv, Gathered
<1>7. \A u \in Threads : u # t => (Waits(u)' <=> Waits(u))
  BY <1>2 DEF Waits, Alone
<1>8. Active' = Active /\ Active \subseteq Threads
  BY DEF Active
<1>9. Gathered'
  BY <1>2, <1>5, <1>6, <1>7, <1>8 DEF Gathered, Alone, IInv
<1> QED
  BY <1>1, <1>4, <1>9 DEF IInv

\* A thread that sees the barrier open.
LEMMA SpinIInv ==
  ASSUME IInv, NEW t \in Threads, Spin(t)
  PROVE  IInv'
<1> USE DEF Spin, Goto, barrier, control, local
<1>1. Released(t) /\ ~Waits(t)
  BY DEF Released, Waits, IInv, Types, Threading
<1>2. /\ Alone(t) /\ pc'[t] = ret[t] /\ passed'[t] <= nPassed'
      /\ ret[t] \in {"none", "loop", "firstChunk", "finished"}
  BY DEF Alone, IInv, Types, Threading
<1>3. CASE ret[t] = "finished"
  <2>1. Gone(t) /\ pc'[t] = "finished"
    BY <1>1, <1>2, <1>3 DEF Gone
  <2>2. Types'
    BY <1>3 DEF IInv, Types, GraphLabels
  <2>3. Gathered' /\ Others' /\ Stretch'
    BY <1>2, <2>1, GoneStays
  <2>4. Threading' /\ (pc[0] \notin Outside => nGraph.n # 0)'
    <3>1. 0 \in Threads /\ (pc[0] \notin Outside => nGraph.n # 0)
      BY GraphFacts DEF IInv
    <3>2. /\ \A u \in Threads : pc'[u] = "start" <=> pc[u] = "start"
          /\ pc'[0] \in Outside <=> pc[0] \in Outside
          /\ pc'[0] = "kickoff" <=> pc[0] = "kickoff"
          /\ pc'[0] \in Outside \cup GraphLabels
      BY <1>2, <2>1, <3>1 DEF Alone, Outside, GraphLabels, IInv, Threading
    <3>3. \A u \in Workers : pc'[u] \notin Outside \cup {"resetChunk"}
      BY <1>2, <2>1 DEF Alone, Outside, IInv, Threading, Workers
    <3> QED
      BY <3>1, <3>2, <3>3 DEF IInv, Threading
  <2> QED
    BY <2>2, <2>3, <2>4 DEF IInv
<1>4. CASE ret[t] # "finished"
  <2>1. ~Gone(t) /\ pc[t] \in GraphLabels
    BY <1>4 DEF Gone, PoolLabels, GraphLabels, Released
  <2>2. /\ t \in Active /\ Here(t)
        /\ \/ \E i \in Nat : LoopStretch(i) /\ LoopPlace(t, i)
           \/ \E i \in Nat : ChunkStretch(i) /\ ChunkPlace(t, i)
    BY <2>1, InAStretch
  <2>3. Here(t)'
    BY <2>2 DEF Here
  <2>4. ASSUME NEW i \in Nat, LoopStretch(i), LoopPlace(t, i)
        PROVE  ret[t] = "loop" /\ node[t] = i
    BY <1>1, <2>1, <2>4 DEF LoopPlace, AtBarrier
  <2>5. ASSUME NEW i \in Nat, ChunkStretch(i), ChunkPlace(t, i)
        PROVE  ret[t] = "firstChunk" /\ node[t] = i
    BY <1>1, <2>1, <2>5 DEF ChunkPlace, AtBarrier
  <2>6. pc'[t] \in {"loop", "firstChunk"}
    BY <1>2, <2>2, <2>4, <2>5
  <2>7. Types'
    BY <1>2, <2>6 DEF IInv, Types, GraphLabels
  <2>8. Threading' /\ (pc[0] \notin Outside => nGraph.n # 0)' /\ pc'[0] \notin Outside
    BY <1>2, <2>1, <2>6, GraphThreading DEF GraphLabels
  <2>9. Gathered' /\ Others'
    BY <1>1, <1>2, <2>2, <2>6, GatheredStays, OthersStay
  <2>10. ASSUME NEW i \in Nat, LoopStretch(i), LoopPlace(t, i) PROVE Stretch'
    <3>1. Skips(plan.graph, i, i)
      BY <2>10, GraphFacts DEF Skips, LoopStretch
    <3>2. LoopPlace(t, i)'
      BY <1>2, <2>3, <2>4, <2>10, <3>1 DEF LoopPlace
    <3>3. LoopStretch(i)'
      BY <1>2, <2>8, <2>10, <3>2, LoopStays DEF LoopStretch
    <3> QED
      BY <3>3 DEF Stretch
  <2>11. ASSUME NEW i \in Nat, ChunkStretch(i), ChunkPlace(t, i) PROVE Stretch'
    <3>1. ChunkPlace(t, i)'
      BY <1>2, <2>5, <2>11 DEF ChunkPlace
    <3>2. ChunksGiven(i)'
      BY <1>1, <1>2, <2>6, <2>11, GivenStays DEF ChunkStretch, Fresh
    <3>3. ChunkStretch(i)'
      BY <1>2, <2>3, <2>8, <2>11, <3>1, <3>2, ChunkStays DEF ChunkStretch
    <3> QED
      BY <3>3 DEF Stretch
  <2> QED
    BY <2>2, <2>7, <2>8, <2>9, <2>10, <2>11 DEF IInv
<1> QED
  BY <1>3, <1>4

\* All leave a stretch for the same place.
LEMMA LoopExitsAgree ==
  ASSUME IInv, NEW i \in Nat, NEW t \in Threads, NEW u \in Threads,
         LoopExit(t, i), LoopExit(u, i)
  PROVE  ret[u] = ret[t] /\ (ret[t] # "finished" => node[u] = node[t])
<1> DEFINE g == plan.graph
<1>1. Len(g) \in Nat /\ node[t] \in Nat /\ node[u] \in Nat
  BY GraphFacts
<1>2. /\ Work(g, i, node[t]) /\ Work(g, i, node[u]) => node[t] = node[u]
      /\ Past(g, i, node[t]) /\ Past(g, i, node[u]) => node[t] = node[u]
  BY <1>1, OneWork, OnePast
<1>3. /\ ~(Work(g, i, node[t]) /\ g[node[t]] = "mulmat" /\ Past(g, i, node[u]))
      /\ ~(Work(g, i, node[u]) /\ g[node[u]] = "mulmat" /\ Past(g, i, node[t]))
  BY <1>1, WorkToPast
<1>4. /\ Work(g, i, node[t]) /\ Skips(g, i, node[u]) => ~(node[u] > Len(g))
      /\ Work(g, i, node[u]) /\ Skips(g, i, node[t]) => ~(node[t] > Len(g))
  BY <1>1, SkipsToWork DEF Work
<1>5. /\ Past(g, i, node[t]) /\ Skips(g, i, node[u]) /\ node[t] <= Len(g) => ~(node[u] > Len(g))
      /\ Past(g, i, node[u]) /\ Skips(g, i, node[t]) /\ node[u] <= Len(g) => ~(node[t] > Len(g))
  BY <1>1, SkipsToPast
<1>6. ~(node[t] <= Len(g) /\ node[t] > Len(g)) /\ ~(node[u] <= Len(g) /\ node[u] > Len(g))
  BY <1>1
<1> HIDE DEF g
<1>7. LoopExit(t, i) /\ LoopExit(u, i)
  OBVIOUS
<1> QED
  BY <1>2, <1>3, <1>4, <1>5, <1>6, <1>7 DEF LoopExit, g

\* The release: all threads of the graph begin the next stretch together.
LEMMA ReleaseIInv ==
  ASSUME IInv, NEW t \in Threads, Release(t)
  PROVE  IInv'
<1> USE DEF Release, Goto, barrier, control, local
<1>1. /\ ~Gone(t) /\ pc[t] \in GraphLabels
      /\ AtBarrier(t) /\ ~Released(t)
  BY DEF Gone, PoolLabels, GraphLabels, Released, AtBarrier
<1>2. /\ t \in Active /\ pc[0] \notin Outside
      /\ \/ \E i \in Nat : LoopStretch(i) /\ LoopPlace(t, i)
         \/ \E i \in Nat : ChunkStretch(i) /\ ChunkPlace(t, i)
  BY <1>1, InAStretch
<1>3. \A u \in Active \ {t} : Waits(u)
  BY DEF IInv, Gathered
<1>4. Active' = Active /\ Active \subseteq Threads /\ 0 \in Active
  BY GraphFacts DEF Active
<1>5. nPassed \in Nat /\ nPassed' = nPassed + 1 /\ \A u \in Threads : passed[u] \in Nat /\ passed[u] <= nPassed
  BY DEF IInv, Types, Threading
<1>6. \A u \in Threads : u # t => pc'[u] = pc[u]
  BY DEF IInv, Types
<1>7. pc'[t] = ret[t] /\ ret[t] \in {"none", "loop", "firstChunk", "finished"}
  BY DEF IInv, Types
<1>8. \A u \in Active \ {t} : Released(u)'
  BY <1>3, <1>4, <1>5, <1>6 DEF Waits, Released
<1>9. \A u \in Threads \ Active : Gone(u)'
  <2>1. ASSUME NEW u \in Threads \ Active PROVE Gone(u)'
    <3>1. Gone(u) /\ pc'[u] = pc[u] /\ ret'[u] = ret[u]
      BY <1>2, <1>6 DEF IInv, Others
    <3>2. Released(u) => Released(u)'
      BY <1>5, <3>1 DEF Released
    <3> QED
      BY <3>1, <3>2 DEF Gone
  <2> QED
    BY <2>1
<1>10. \A u \in Active : AtBarrier(u) /\ ~Released(u) /\ ~Gone(u)
  BY <1>1, <1>3, <1>4 DEF AtBarrier, Waits, Released, Gone, PoolLabels, IInv, Types
<1>11. ASSUME NEW i \in Nat, LoopStretch(i)
       PROVE  Stretch' /\ ret[t] \in {"loop", "firstChunk", "finished"}
  <2>1. \A u \in Active : LoopExit(u, i) /\ Here(u)
    <3>1. ASSUME NEW u \in Active PROVE LoopExit(u, i) /\ Here(u)
      <4>1. LoopPlace(u, i)
        BY <1>11 DEF LoopStretch
      <4>2. AtBarrier(u) /\ ~Released(u) /\ ~Gone(u)
        BY <1>10
      <4>3. pc[u] \notin {"start", "loop", "compute", "after", "convert", "resetChunk"}
        BY <4>2 DEF AtBarrier, Waits
      <4> QED
        BY <4>1, <4>2, <4>3 DEF LoopPlace
    <3> QED
      BY <3>1
  <2>2. \A u \in Active : ret[u] = ret[t] /\ (ret[t] # "finished" => node[u] = node[t])
    BY <1>2, <1>4, <1>11, <2>1, LoopExitsAgree
  <2>3. \A u \in Active' : Here(u)' /\ node'[u] = node[u]
                            /\ (pc'[u] = ret[u] \/ (Released(u)' /\ ret'[u] = ret[u]))
    BY <1>4, <1>7, <1>8, <2>1 DEF Here
  <2>4. i \in 1..Len(plan.graph) /\ Len(plan.graph) \in Nat /\ node[t] \in Nat
    BY <1>11, GraphFacts DEF LoopStretch
  <2>5. CASE ret[t] = "loop"
    <3>1. Past(plan.graph, i, node[t]) /\ node[t] <= Len(plan.graph) /\ i < node[t]
      BY <1>2, <2>1, <2>4, <2>5, PastRange DEF LoopExit
    <3>2. abort' <= node[t] - 1
      BY <1>4, <1>11, <2>2, <2>4, <2>5, <3>1, GraphFacts DEF LoopStretch
    <3>3. \A j, c \in Nat : <<j, "chunk", c>> \in done' => j < node[t]
      BY <1>11, <2>4, <3>1 DEF LoopStretch
    <3>4. PICK k \in Nat : k = node[t]
      BY <2>4
    <3>5. \A u \in Active' :
            /\ pc'[u] = "loop" \/ (Released(u)' /\ ret'[u] = "loop")
            /\ node'[u] = k /\ Here(u)'
      BY <1>4, <2>2, <2>3, <2>5, <3>4
    <3>6. k \in 1..Len(plan'.graph) /\ Len(plan'.graph) \in Nat
      BY <2>4, <3>1, <3>4
    <3>7. pc'[0] \notin Outside
      BY <1>4, <3>5 DEF Outside, Released
    <3>8. LoopStretch(k)'
      BY <3>2, <3>3, <3>4, <3>5, <3>6, <3>7, EnterLoop
    <3> QED
      BY <2>5, <3>8 DEF Stretch
  <2>6. CASE ret[t] = "firstChunk"
    <3>1. /\ Work(plan.graph, i, node[t]) /\ plan.graph[node[t]] = "mulmat"
          /\ node[t] \in 1..Len(plan.graph) /\ i <= node[t]
      BY <1>2, <2>1, <2>4, <2>6 DEF LoopExit, Work, Skips
    <3>2. abort' <= node[t]
      <4>1. ~Past(plan.graph, i, node[0])
        BY <1>4, <2>2, <2>4, <2>6, <3>1, WorkToPast
      <4> QED
        BY <1>11, <2>4, <3>1, <4>1, GraphFacts DEF LoopStretch
    <3>3. \A j, c \in Nat : <<j, "chunk", c>> \in done' => j < node[t]
      BY <1>11, <2>4, <3>1 DEF LoopStretch
    <3>4. PICK k \in Nat : k = node[t]
      BY <2>4
    <3>5. \A u \in Active' :
            /\ pc'[u] = "firstChunk" \/ (Released(u)' /\ ret'[u] = "firstChunk")
            /\ node'[u] = k /\ Here(u)' /\ u \in Nat
      BY <1>4, <2>2, <2>3, <2>6, <3>4, GraphFacts
    <3>6. k \in 1..Len(plan'.graph) /\ Len(plan'.graph) \in Nat /\ plan'.graph[k] = "mulmat"
      BY <2>4, <3>1, <3>4
    <3>7. pc'[0] \notin Outside
      BY <1>4, <3>5 DEF Outside, Released
    <3>8. currentChunk' = nGraph'.n /\ nGraph'.n \in Nat
      <4>1. currentChunk = nGraph.n
        BY <1>4, <2>1, <2>2, <2>6 DEF LoopExit
      <4> QED
        BY <4>1 DEF IInv, Types, Graphs
    <3>9. ChunkStretch(k)'
      BY <3>2, <3>3, <3>4, <3>5, <3>6, <3>7, <3>8, EnterChunks
    <3> QED
      BY <2>6, <3>9 DEF Stretch
  <2>7. CASE ret[t] = "finished"
    BY <1>4, <2>2, <2>3, <2>7, EnterFinish DEF Stretch
  <2> QED
    BY <1>2, <2>1, <2>5, <2>6, <2>7 DEF LoopExit
<1>12. ASSUME NEW i \in Nat, ChunkStretch(i)
       PROVE  Stretch' /\ ret[t] \in {"loop", "firstChunk", "finished"}
  <2>1. \A u \in Active : ChunkExit(u, i) /\ Here(u)
    <3>1. ASSUME NEW u \in Active PROVE ChunkExit(u, i) /\ Here(u)
      <4>1. ChunkPlace(u, i) /\ Here(u)
        BY <1>12 DEF ChunkStretch
      <4>2. AtBarrier(u) /\ ~Released(u)
        BY <1>10
      <4>3. pc[u] \notin {"firstChunk", "chunk", "fetchChunk", "after", "loop"}
        BY <4>2 DEF AtBarrier, Waits
      <4> QED
        BY <4>1, <4>2, <4>3 DEF ChunkPlace
    <3> QED
      BY <3>1
  <2>2. i \in 1..Len(plan.graph) /\ Len(plan.graph) \in Nat
    BY <1>12, GraphFacts DEF ChunkStretch
  <2>3. \A u \in Active : ret[u] = ret[t] /\ (ret[t] # "finished" => node[u] = i + 1 /\ i < Len(plan.graph))
    BY <1>2, <2>1, <2>2 DEF ChunkExit
  <2>4. \A u \in Active' : Here(u)' /\ node'[u] = node[u]
                            /\ (pc'[u] = ret[u] \/ (Released(u)' /\ ret'[u] = ret[u]))
    BY <1>4, <1>7, <1>8, <2>1 DEF Here
  <2>5. CASE ret[t] = "loop"
    <3>1. abort' <= (i + 1) - 1
      BY <1>12, <2>2, GraphFacts DEF ChunkStretch
    <3>2. \A j, c \in Nat : <<j, "chunk", c>> \in done' => j < i + 1
      <4>1. \A j, c \in Nat : <<j, "chunk", c>> \in done' => j <= i
        BY <1>12 DEF ChunkStretch, ChunksGiven
      <4> QED
        BY <4>1, <2>2
    <3>3. i + 1 \in 1..Len(plan'.graph) /\ Len(plan'.graph) \in Nat
      BY <1>2, <2>2, <2>3, <2>5
    <3>4. PICK k \in Nat : k = i + 1
      OBVIOUS
    <3>5. \A u \in Active' :
            /\ pc'[u] = "loop" \/ (Released(u)' /\ ret'[u] = "loop")
            /\ node'[u] = k /\ Here(u)'
      BY <1>4, <2>3, <2>4, <2>5, <3>4
    <3>6. pc'[0] \notin Outside
      BY <1>4, <3>5 DEF Outside, Released
    <3>7. LoopStretch(k)'
      BY <3>1, <3>2, <3>3, <3>4, <3>5, <3>6, EnterLoop
    <3> QED
      BY <2>5, <3>7 DEF Stretch
  <2>6. CASE ret[t] = "finished"
    BY <1>4, <2>3, <2>4, <2>6, EnterFinish DEF Stretch
  <2> QED
    BY <1>2, <2>1, <2>5, <2>6 DEF ChunkExit
<1>13. Stretch' /\ ret[t] \in {"loop", "firstChunk", "finished"}
  BY <1>2, <1>11, <1>12
<1>14. Types'
  BY <1>13 DEF IInv, Types, GraphLabels
<1>15. Gathered'
  <2>1. \A u \in Threads : pc'[u] \notin {"arrive", "resetBarrier", "release"} /\ ~Waits(u)'
    <3>1. ASSUME NEW u \in Threads, u # t
          PROVE  pc'[u] \notin {"arrive", "resetBarrier", "release"} /\ ~Waits(u)'
      <4>1. Waits(u) \/ Gone(u)
        BY <1>3, <3>1 DEF IInv, Others
      <4>2. pc[u] \notin {"arrive", "resetBarrier", "release"}
        BY <4>1 DEF Waits, Gone, PoolLabels, Released
      <4> QED
        BY <1>5, <1>6, <3>1, <4>2 DEF Waits
    <3>2. pc'[t] \notin {"arrive", "resetBarrier", "release", "spin"}
      BY <1>7, <1>13
    <3> QED
      BY <3>1, <3>2 DEF Waits
  <2>2. Arrived' = {}
    BY <2>1 DEF Arrived
  <2>3. nBarrier' = 0
    BY DEF IInv, Gathered
  <2> QED
    BY <2>1, <2>2, <2>3, FS_EmptySet DEF Gathered
<1>16. Threading' /\ (pc[0] \notin Outside => nGraph.n # 0)'
  <2>1. pc'[t] \in GraphLabels /\ pc'[t] \notin Outside \cup {"start", "resetChunk"}
    BY <1>7, <1>13 DEF GraphLabels, Outside
  <2>2. \A u \in Threads : pc'[u] = "start" <=> pc[u] = "start"
    BY <1>6, <2>1
  <2>3. \A u \in Threads : passed'[u] <= nPassed'
    BY <1>5
  <2>4. pc'[0] \in GraphLabels /\ pc'[0] \notin Outside
    BY <1>2, <1>4, <1>6, <2>1 DEF IInv, Threading
  <2>5. \A u \in Workers : pc'[u] \notin Outside \cup {"resetChunk"}
    BY <1>6, <2>1 DEF IInv, Threading, Workers
  <2> QED
    BY <1>2, <2>2, <2>3, <2>4, <2>5 DEF IInv, Threading, Outside
<1> QED
  BY <1>4, <1>9, <1>13, <1>14, <1>15, <1>16 DEF IInv, Others

-----------------------------------------------------------------------------
(* The caller.                                                             *)

\* Between two graphs all that may be woken are in the pool.
LEMMA CallerOutside ==
  ASSUME IInv, pc[0] \in Outside \cup {"finished"}
  PROVE  /\ Finished /\ 0 \in Active
         /\ \A t \in Threads : t # 0 => Gone(t)
<1>1. 0 \in Active
  BY GraphFacts DEF Active
<1>2. \A i \in Nat : ~LoopStretch(i)
  <2>1. ASSUME NEW i \in Nat, LoopStretch(i) PROVE FALSE
    <3>1. LoopPlace(0, i) /\ pc[0] \notin Outside
      BY <1>1, <2>1 DEF LoopStretch
    <3> QED
      BY <3>1 DEF LoopPlace, AtBarrier, Released, Waits
  <2> QED
    BY <2>1
<1>3. \A i \in Nat : ~ChunkStretch(i)
  <2>1. ASSUME NEW i \in Nat, ChunkStretch(i) PROVE FALSE
    <3>1. ChunkPlace(0, i) /\ pc[0] \notin Outside
      BY <1>1, <2>1 DEF ChunkStretch
    <3> QED
      BY <3>1 DEF ChunkPlace, AtBarrier, Released, Waits
  <2> QED
    BY <2>1
<1>4. Finished
  BY <1>2, <1>3 DEF IInv, Stretch
<1> QED
  BY <1>1, <1>4 DEF Finished, IInv, Others

\* Waking the workers moves those that sleep, within the pool.
LEMMA WokenFacts ==
  ASSUME IInv, NEW t \in Threads
  PROVE  /\ Woken(pc)[t] \in Outside \cup PoolLabels \cup GraphLabels \cup {"start"}
         /\ pc[t] \in PoolLabels => Woken(pc)[t] \in PoolLabels
         /\ pc[t] \notin PoolLabels => Woken(pc)[t] = pc[t]
<1>1. CASE pc[t] = "pauseWait"
  BY <1>1 DEF Woken, PoolLabels
<1>2. CASE pc[t] = "workWait"
  BY <1>2 DEF Woken, PoolLabels
<1>3. CASE pc[t] \notin {"pauseWait", "workWait"}
  <2>1. Woken(pc)[t] = pc[t]
    BY <1>3 DEF Woken
  <2> QED
    BY <2>1 DEF IInv, Types
<1> QED
  BY <1>1, <1>2, <1>3

\* The caller moves, and may wake the workers: none of them is in the graph.
LEMMA CallerQuiet ==
  ASSUME IInv, pc[0] \in Outside \cup {"finished"}, pc'[0] \in Outside \cup {"loop"},
         \A t \in Workers : pc'[t] = pc[t] \/ pc'[t] = Woken(pc)[t],
         UNCHANGED <<ret, passed, barrier>>
  PROVE  Gathered' /\ \A t \in Threads : t # 0 => Gone(t)'
<1> USE DEF barrier
<1>1. \A t \in Threads : t # 0 => Gone(t)
  BY CallerOutside
<1>2. \A t \in Threads : t # 0 => Gone(t)'
  <2>1. ASSUME NEW t \in Threads, t # 0 PROVE Gone(t)'
    <3>1. Gone(t) /\ (pc'[t] = pc[t] \/ pc'[t] = Woken(pc)[t])
      BY <1>1, <2>1 DEF Workers
    <3>2. pc[t] \in PoolLabels => pc'[t] \in PoolLabels
      BY <3>1, WokenFacts
    <3>3. pc[t] \notin PoolLabels => pc'[t] = pc[t]
      BY <3>1, WokenFacts
    <3> QED
      BY <3>1, <3>2, <3>3 DEF Gone, Released
  <2> QED
    BY <2>1
<1>3. \A t \in Threads : pc'[t] \notin {"arrive", "resetBarrier", "release"} /\ ~Waits(t)'
  <2>1. ASSUME NEW t \in Threads, t # 0
        PROVE  pc'[t] \notin {"arrive", "resetBarrier", "release"} /\ ~Waits(t)'
    <3>1. Gone(t)' /\ passed'[t] \in Nat /\ nPassed' \in Nat
      BY <1>2, <2>1 DEF IInv, Types
    <3> QED
      BY <3>1 DEF Gone, PoolLabels, Waits, Released
  <2> QED
    BY <2>1 DEF Outside, Waits
<1>4. \A t \in Threads : pc[t] \notin {"arrive", "resetBarrier", "release"} /\ ~Waits(t)
  <2>1. ASSUME NEW t \in Threads, t # 0
        PROVE  pc[t] \notin {"arrive", "resetBarrier", "release"} /\ ~Waits(t)
    <3>1. Gone(t) /\ passed[t] \in Nat /\ nPassed \in Nat
      BY <1>1, <2>1 DEF IInv, Types
    <3> QED
      BY <3>1 DEF Gone, PoolLabels, Waits, Released
  <2> QED
    BY <2>1 DEF Outside, Waits
<1>5. Arrived = {} /\ Arrived' = {}
  BY <1>3, <1>4 DEF Arrived
<1>6. nBarrier' = Cardinality(Arrived')
  BY <1>4, <1>5 DEF IInv, Gathered
<1>7. Gathered'
  BY <1>3, <1>6 DEF Gathered
<1> QED
  BY <1>2, <1>7

\* It stays without a graph.
LEMMA CallerMove ==
  ASSUME IInv, pc[0] \in Outside \cup {"finished"}, pc'[0] \in Outside,
         \A t \in Workers : pc'[t] = pc[t] \/ pc'[t] = Woken(pc)[t],
         UNCHANGED <<ret, passed, local, barrier, nGraph>>
  PROVE  Gathered' /\ Others' /\ Stretch'
<1> USE DEF local
<1>1. Finished /\ 0 \in Active
  BY CallerOutside
<1>2. Active' = Active /\ Active \subseteq Threads
  BY DEF Active
<1>3. Gathered' /\ \A t \in Threads : t # 0 => Gone(t)'
  BY CallerQuiet
<1>4. Others'
  BY <1>1, <1>2, <1>3 DEF Others
<1>5. Finished'
  BY <1>1, <1>2, <1>3 DEF Finished
<1> QED
  BY <1>3, <1>4, <1>5 DEF Stretch

\* The same, for the other parts of the invariant.
LEMMA CallerThreading ==
  ASSUME IInv, pc[0] \in Outside \cup {"finished"},
         pc'[0] \in Outside \cup GraphLabels, pc[0] # "start", pc'[0] # "start",
         \A t \in Workers : pc'[t] = pc[t] \/ pc'[t] = Woken(pc)[t],
         pc'[0] = "kickoff" => nGraph'.count < MaxGraphs /\ abort' = -1 /\ done' = {},
         \A t \in Threads : lastGraph[t].count <= nGraph'.count,
         UNCHANGED <<passed, local, barrier>>
  PROVE  Threading'
<1> USE DEF local, barrier
<1>1. \A t \in Workers : (pc'[t] = "start" <=> pc[t] = "start")
                          /\ pc'[t] \notin Outside \cup {"resetChunk"}
  <2>1. ASSUME NEW t \in Workers
        PROVE  (pc'[t] = "start" <=> pc[t] = "start") /\ pc'[t] \notin Outside \cup {"resetChunk"}
    <3>1. t \in Threads /\ pc[t] \notin Outside \cup {"resetChunk"}
      BY DEF Workers, IInv, Threading
    <3>2. CASE pc[t] \in PoolLabels
      <4>1. pc'[t] \in PoolLabels
        BY <3>1, <3>2, WokenFacts
      <4> QED
        BY <3>2, <4>1 DEF PoolLabels, Outside
    <3>3. CASE pc[t] \notin PoolLabels
      BY <3>1, <3>3, WokenFacts
    <3> QED
      BY <3>2, <3>3
  <2> QED
    BY <2>1
<1>2. \A t \in Threads : pending'[t] <=> pc'[t] = "start"
  <2>1. \A t \in Threads : pending[t] <=> pc[t] = "start"
    BY DEF IInv, Threading
  <2>2. \A t \in Threads : t # 0 => t \in Workers
    BY DEF Workers
  <2> QED
    BY <1>1, <2>1, <2>2
<1> QED
  BY <1>1, <1>2 DEF IInv, Threading

\* Waking the workers keeps the types.
LEMMA WokenTypes ==
  ASSUME IInv
  PROVE  Woken(pc) \in [Threads -> Outside \cup PoolLabels \cup GraphLabels \cup {"start"}]
<1>1. \A t \in Threads :
        Woken(pc)[t] \in Outside \cup PoolLabels \cup GraphLabels \cup {"start"}
  BY WokenFacts
<1> QED
  BY <1>1 DEF Woken

\* What the caller does between two graphs.
LEMMA CallerIInv ==
  ASSUME IInv, SetPlan \/ Returned \/ Joined \/ Free \/ (\E b \in BOOLEAN : SetPause(b))
  PROVE  IInv'
<1> USE DEF Goto, local, barrier, control
<1>1. 0 \in Threads /\ 0 \notin Workers
  BY GraphFacts DEF Workers
<1>2. Workers \subseteq Threads /\ pc \in [Threads -> Outside \cup PoolLabels \cup GraphLabels \cup {"start"}]
  BY DEF Workers, IInv, Types
<1>3. Woken(pc) \in [Threads -> Outside \cup PoolLabels \cup GraphLabels \cup {"start"}]
  BY WokenTypes
<1>4. \A t \in Threads : lastGraph[t].count <= nGraph.count
  BY DEF IInv, Threading
<1>5. CASE SetPlan
  <2>1. /\ pc[0] \in Outside \cup {"finished"} /\ pc'[0] \in Outside
        /\ \A t \in Workers : pc'[t] = pc[t]
        /\ pc[0] # "start" /\ pc'[0] # "start"
    BY <1>1, <1>2, <1>5 DEF SetPlan, Outside
  <2>2. Types'
    <3>1. abort' \in Int /\ currentChunk' \in Nat
      BY <1>5 DEF SetPlan
    <3>2. pc' \in [Threads -> Outside \cup PoolLabels \cup GraphLabels \cup {"start"}]
      BY <1>2, <1>5 DEF SetPlan, Outside
    <3> QED
      BY <1>5, <3>1, <3>2 DEF SetPlan, IInv, Types
  <2>3. Gathered' /\ Others' /\ Stretch'
    BY <1>5, <2>1, CallerMove DEF SetPlan
  <2>4. Threading'
    BY <1>4, <1>5, <2>1, CallerThreading DEF SetPlan
  <2> QED
    BY <2>1, <2>2, <2>3, <2>4 DEF IInv
<1>6. CASE Returned
  <2>1. /\ pc[0] \in Outside \cup {"finished"} /\ pc'[0] \in Outside
        /\ \A t \in Workers : pc'[t] = pc[t]
        /\ pc[0] # "start" /\ pc'[0] # "start" /\ pc'[0] # "kickoff"
    BY <1>1, <1>2, <1>6 DEF Returned, Outside
  <2>2. Types'
    BY <1>6 DEF Returned, IInv, Types, Outside
  <2>3. Gathered' /\ Others' /\ Stretch'
    BY <1>6, <2>1, CallerMove DEF Returned
  <2>4. Threading'
    BY <1>4, <1>6, <2>1, CallerThreading DEF Returned
  <2> QED
    BY <2>1, <2>2, <2>3, <2>4 DEF IInv
<1>7. CASE Joined
  <2>1. /\ pc[0] \in Outside \cup {"finished"} /\ pc'[0] \in Outside
        /\ \A t \in Workers : pc'[t] = pc[t]
        /\ pc[0] # "start" /\ pc'[0] # "start" /\ pc'[0] # "kickoff"
    BY <1>1, <1>2, <1>7 DEF Joined, Outside
  <2>2. Types'
    BY <1>7 DEF Joined, IInv, Types, Outside
  <2>3. Gathered' /\ Others' /\ Stretch'
    BY <1>7, <2>1, CallerMove DEF Joined
  <2>4. Threading'
    BY <1>4, <1>7, <2>1, CallerThreading DEF Joined
  <2> QED
    BY <2>1, <2>2, <2>3, <2>4 DEF IInv
<1>8. CASE Free
  <2>1. /\ pc[0] \in Outside \cup {"finished"} /\ pc'[0] \in Outside
        /\ \A t \in Workers : pc'[t] = Woken(pc)[t]
        /\ pc[0] # "start" /\ pc'[0] # "start" /\ pc'[0] # "kickoff"
    BY <1>1, <1>2, <1>3, <1>8 DEF Free, Outside
  <2>2. Types'
    BY <1>3, <1>8 DEF Free, IInv, Types, Outside
  <2>3. Gathered' /\ Others' /\ Stretch'
    BY <1>8, <2>1, CallerMove DEF Free
  <2>4. Threading'
    BY <1>4, <1>8, <2>1, CallerThreading DEF Free
  <2> QED
    BY <2>1, <2>2, <2>3, <2>4 DEF IInv
<1>9. ASSUME NEW b \in BOOLEAN, SetPause(b) PROVE IInv'
  <2>1. /\ pc[0] \in Outside \cup {"finished"} /\ pc'[0] \in Outside
        /\ \A t \in Workers : pc'[t] = Woken(pc)[t]
        /\ pc[0] # "start" /\ pc'[0] # "start" /\ pc'[0] # "kickoff"
    <3>1. pc[0] = "idle" /\ pc' = Woken(pc)
      BY <1>9 DEF SetPause
    <3>2. Woken(pc)[0] = "idle"
      BY <1>1, <3>1, WokenFacts DEF PoolLabels
    <3> QED
      BY <3>1, <3>2 DEF Outside
  <2>2. Types'
    BY <1>3, <1>9 DEF SetPause, IInv, Types
  <2>3. Gathered' /\ Others' /\ Stretch'
    BY <1>9, <2>1, CallerMove DEF SetPause
  <2>4. Threading'
    BY <1>4, <1>9, <2>1, CallerThreading DEF SetPause
  <2> QED
    BY <2>1, <2>2, <2>3, <2>4 DEF IInv
<1> QED
  BY <1>5, <1>6, <1>7, <1>8, <1>9

\* A graph is published: thread 0 begins its first stretch.
LEMMA KickoffIInv ==
  ASSUME IInv, Kickoff
  PROVE  IInv'
<1> USE DEF Kickoff, local, barrier
<1>1. 0 \in Threads /\ 0 \notin Workers /\ Workers \subseteq Threads
  BY GraphFacts DEF Workers
<1>2. Woken(pc) \in [Threads -> Outside \cup PoolLabels \cup GraphLabels \cup {"start"}]
  BY WokenTypes
<1>3. /\ pc[0] \in Outside \cup {"finished"} /\ pc'[0] = "loop"
      /\ \A t \in Workers : pc'[t] = Woken(pc)[t]
      /\ pc[0] # "start" /\ pc'[0] # "start" /\ pc'[0] # "kickoff"
      /\ pc'[0] \in Outside \cup GraphLabels
  BY <1>1, <1>2 DEF Outside, GraphLabels
<1>4. plan.n \in 1..N /\ nGraph.count \in Nat /\ nGraph.count < MaxGraphs
      /\ abort = -1 /\ done = {}
  BY PlanFacts DEF IInv, Types, Threading, Graphs
<1>5. nGraph' \in Graphs /\ nGraph'.count = nGraph.count + 1 /\ nGraph'.n = plan.n
  BY <1>4, PoolAssumption DEF Graphs
<1>6. Types'
  BY <1>1, <1>2, <1>5 DEF IInv, Types, GraphLabels
<1>7. Gathered' /\ \A t \in Threads : t # 0 => Gone(t)'
  BY <1>3, CallerQuiet
<1>8. \A t \in Threads : lastGraph[t].count <= nGraph.count /\ lastGraph[t].count \in Nat
  BY DEF IInv, Threading, Types, Graphs
<1>9. \A t \in Threads : lastGraph[t].count <= nGraph'.count /\ lastGraph[t] # nGraph'
  BY <1>4, <1>5, <1>8
<1>10. Threading'
  BY <1>3, <1>9, CallerThreading
<1>11. Active' \subseteq Threads /\ 0 \in Active'
  BY <1>1 DEF Active
<1>12. Others'
  BY <1>7, <1>11 DEF Others
<1>13. node'[0] = 1 /\ Len(plan.graph) \in Nat /\ 1 <= Len(plan.graph)
  BY <1>1, GraphFacts DEF IInv, Types
<1>14. Skips(plan.graph, 1, 1)
  BY <1>13 DEF Skips
<1>15. \A t \in Active' : LoopPlace(t, 1)'
  <2>1. LoopPlace(0, 1)'
    BY <1>3, <1>13, <1>14 DEF LoopPlace, Here
  <2>2. ASSUME NEW t \in Active', t # 0 PROVE LoopPlace(t, 1)'
    <3>1. Gone(t)' /\ lastGraph'[t] # nGraph'
      BY <1>7, <1>9, <1>11, <2>2
    <3>2. pc'[t] # "start"
      BY <3>1 DEF Gone, PoolLabels, Released
    <3> QED
      BY <2>2, <3>1, <3>2 DEF LoopPlace
  <2> QED
    BY <2>1, <2>2
<1>16. LoopStretch(1)'
  BY <1>3, <1>4, <1>13, <1>15 DEF LoopStretch, Outside
<1>17. nGraph'.n # 0
  BY <1>4, <1>5
<1> QED
  BY <1>6, <1>7, <1>10, <1>12, <1>16, <1>17 DEF IInv, Stretch

-----------------------------------------------------------------------------
(* The theorems.                                                           *)

LEMMA NextIInv == IInv /\ [Next]_vars => IInv'
<1> SUFFICES ASSUME IInv, [Next]_vars PROVE IInv'
  OBVIOUS
<1>1. ASSUME NEW t \in Threads, InGraph(t) PROVE IInv'
  BY <1>1, NextNodeIInv, ComputeShareIInv, ConvertIInv, FirstChunkIInv,
     ComputeChunkIInv, FetchChunkIInv, AfterNodeIInv, EnterBarrierIInv,
     ArriveIInv, ResetBarrierIInv, ReleaseIInv, SpinIInv DEF InGraph
<1>2. ASSUME NEW t \in Workers, InPool(t) \/ WakesByItself(t) PROVE IInv'
  BY <1>2, InPoolIInv
<1>3. CASE Caller
  BY <1>3, KickoffIInv, ResetChunkIInv, CallerIInv DEF Caller
<1>4. CASE Demand
  BY <1>4, CallerIInv DEF Demand
<1>5. CASE UNCHANGED vars
  BY <1>5, StutterIInv
<1> QED
  BY <1>1, <1>2, <1>3, <1>4, <1>5 DEF Next

\* In every behaviour of the pool, for any number of threads and any graphs:
\* between two releases of the barrier all threads are in one stretch of it.
THEOREM Invariance == Spec => []IInv
<1>1. Init => IInv
  BY InitIInv
<1>2. IInv /\ [Next]_vars => IInv'
  BY NextIInv
<1> QED
  BY <1>1, <1>2, PTL DEF Spec

\* Every variable of the pool keeps its type, and n_barrier stays within the
\* threads of the pool.
THEOREM TypeCorrect == Spec => []TypeOK
<1>1. IInv => TypeOK
  <2> SUFFICES ASSUME IInv PROVE TypeOK
    OBVIOUS
  <2>1. Types
    BY DEF IInv
  <2>2. pc \in [Threads -> Labels]
    BY <2>1 DEF Types, Labels, Outside, PoolLabels, GraphLabels
  <2>3. \A g \in {nGraph} \cup {lastGraph[t] : t \in Threads} :
          g.count \in 0..MaxGraphs /\ g.n \in 0..N
    BY <2>1 DEF Types, Graphs
  <2>4. nBarrier \in 0..N
    <3>1. CASE \E t \in Threads : pc[t] = "release"
      <4>1. nBarrier = 0
        BY <3>1 DEF IInv, Gathered
      <4> QED
        BY <4>1, PoolAssumption
    <3>2. CASE \A t \in Threads : pc[t] # "release"
      <4>1. nBarrier = Cardinality(Arrived)
        BY <3>2 DEF IInv, Gathered
      <4>2. IsFiniteSet(Threads) /\ Cardinality(Threads) = N
        BY PoolAssumption, FS_Interval DEF Threads
      <4>3. Arrived \subseteq Threads
        BY DEF Arrived
      <4>4. Cardinality(Arrived) <= N /\ Cardinality(Arrived) \in Nat
        BY <4>2, <4>3, FS_Subset, FS_CardinalityType
      <4> QED
        BY <4>1, <4>4, PoolAssumption
    <3> QED
      BY <3>1, <3>2
  <2> QED
    BY <2>1, <2>2, <2>3, <2>4 DEF Types, TypeOK
<1> QED
  BY <1>1, Invariance, PTL

\* Threads in the middle of a task are in the same phase of the same node, for
\* any number of threads and any graph: a barrier is where all are let go at
\* once, and in between there is one phase to be in the middle of.
THEOREM PhasesHold == Spec => []PhasesAgree
<1>1. IInv => PhasesAgree
  <2> SUFFICES ASSUME IInv, NEW t \in Threads, NEW u \in Threads, Working(t), Working(u)
               PROVE  node[t] = node[u] /\ pc[t] = pc[u]
    BY DEF PhasesAgree
  <2>1. /\ pc[t] \in GraphLabels /\ ~Gone(t) /\ ~AtBarrier(t) /\ ~Released(t)
        /\ pc[u] \in GraphLabels /\ ~Gone(u) /\ ~AtBarrier(u) /\ ~Released(u)
    BY DEF Working, GraphLabels, Gone, PoolLabels, Released, AtBarrier, Waits
  <2>2. t \in Active /\ u \in Active
    BY <2>1, InAStretch
  <2>3. ASSUME NEW i \in Nat, LoopStretch(i) PROVE node[t] = node[u] /\ pc[t] = pc[u]
    <3>1. LoopPlace(t, i) /\ LoopPlace(u, i)
      BY <2>2, <2>3 DEF LoopStretch
    <3>2. /\ Work(plan.graph, i, node[t])
          /\ pc[t] = IF plan.graph[node[t]] = "mulmat" THEN "convert" ELSE "compute"
      BY <2>1, <3>1 DEF LoopPlace, Working
    <3>3. /\ Work(plan.graph, i, node[u])
          /\ pc[u] = IF plan.graph[node[u]] = "mulmat" THEN "convert" ELSE "compute"
      BY <2>1, <3>1 DEF LoopPlace, Working
    <3>4. node[t] = node[u]
      BY <3>2, <3>3, OneWork, GraphFacts
    <3> QED
      BY <3>2, <3>3, <3>4
  <2>4. ASSUME NEW i \in Nat, ChunkStretch(i) PROVE node[t] = node[u] /\ pc[t] = pc[u]
    <3>1. ChunkPlace(t, i) /\ ChunkPlace(u, i)
      BY <2>2, <2>4 DEF ChunkStretch
    <3> QED
      BY <2>1, <3>1 DEF ChunkPlace, Working
  <2> QED
    BY <2>1, <2>3, <2>4, InAStretch
<1> QED
  BY <1>1, Invariance, PTL

\* A chunk of a matrix product is given to one thread, once, for any number of
\* threads and of chunks: a thread begins with the chunk of its own number, and
\* current_chunk is past those and past all that were given out.
THEOREM ChunksOnce == Spec => []EachChunkOnce
<1>1. IInv => EachChunkOnce
  <2> SUFFICES ASSUME IInv, NEW t \in Threads, pc[t] = "chunk"
               PROVE  /\ <<node[t], "chunk", chunk[t]>> \notin done
                      /\ \A u \in Threads \ {t} : pc[u] = "chunk" => chunk[u] # chunk[t]
    BY DEF EachChunkOnce
  <2>1. PICK i \in Nat : ChunkStretch(i) /\ node[t] = i
    BY AtChunk
  <2>2. t \in Active /\ \A u \in Threads : pc[u] = "chunk" => u \in Active
    BY AtChunk
  <2> QED
    BY <2>1, <2>2 DEF ChunkStretch, ChunksGiven
<1> QED
  BY <1>1, Invariance, PTL

\* While the caller has the pool to itself, no worker has a graph before it: the
\* caller leaves the graph through the barrier that all of its threads have
\* reached, and the next is published after it.
THEOREM PoolIsQuiet == Spec => []QuietPool
<1>1. IInv => QuietPool
  <2> SUFFICES ASSUME IInv, pc[0] \in {"idle", "kickoff", "joining"}, NEW t \in Workers
               PROVE  \/ pc[t] \in {"top", "pauseLock", "pauseWait", "stopCheck", "poll",
                                     "check", "workWait", "exited"} /\ ~pending[t]
                      \/ pc[t] = "finished"
                      \/ pc[t] = "spin" /\ ret[t] = "finished" /\ passed[t] # nPassed
    BY DEF QuietPool
  <2>1. t \in Threads /\ t # 0
    BY DEF Workers
  <2>2. Gone(t)
    BY <2>1, CallerOutside DEF Outside
  <2>3. passed[t] < nPassed => passed[t] # nPassed
    BY <2>1 DEF IInv, Types
  <2>4. pc[t] \in PoolLabels => ~pending[t]
    BY <2>1 DEF IInv, Threading, PoolLabels
  <2> QED
    BY <2>2, <2>3, <2>4 DEF Gone, Released, PoolLabels
<1> QED
  BY <1>1, Invariance, PTL

-----------------------------------------------------------------------------
(* What has been computed, and by whom.                                    *)

\* It is at work on the graph, or through with it.
Entered(t) == t \in Active /\ Here(t) /\ pc[t] # "start"

BarrierLabels == {"barrier", "arrive", "resetBarrier", "release", "spin"}

\* Its part of the first phase of node j is behind it.
Behind(t, j) ==
  \/ j < node[t]
  \/ j = node[t] /\ pc[t] \in {"after", "resetChunk", "firstChunk", "chunk", "fetchChunk"}
  \/ j = node[t] /\ pc[t] \in BarrierLabels /\ ret[t] = "firstChunk"

\* It is about to begin with its own chunk, or among the chunks.
Opening(t) == pc[t] = "firstChunk" \/ (Released(t) /\ ret[t] = "firstChunk")
InProduct(t) == Opening(t) \/ pc[t] \in {"chunk", "fetchChunk"}

\* A chunk is done, or somebody is on it.
Holds(u, j, c) ==
  node[u] = j /\ ((pc[u] = "chunk" /\ chunk[u] = c) \/ (Opening(u) /\ u = c))
Given(j, c) == <<j, "chunk", c>> \in done \/ \E u \in Active : Holds(u, j, c)

\* Only tasks of the graph are done.
OnlyTasks ==
  \A x \in done : \E i \in 1..Len(plan.graph) :
    x \in FirstPhase(plan, i) \/ x \in SecondPhase(plan, i)

\* It never comes to the second node of a fused pair, or to a chunk too many.
Placed(t) ==
  Entered(t) =>
    /\ ~Covered(plan.graph, node[t])
    /\ pc[t] = "chunk" => chunk[t] < ChunksFor(plan.n)

\* It has computed its own part of the nodes behind it, and of no other.
OwnPart(t) ==
  \A j \in 1..Len(plan.graph) :
    /\ <<j, "share", t>> \in done <=>
         Entered(t) /\ Shared(plan.graph, j) /\ Behind(t, j)
    /\ <<j, "wdata", t>> \in done <=>
         Entered(t) /\ plan.graph[j] = "mulmat" /\ Behind(t, j)

\* All chunks of a product it has left were given out.
Left(t, j) == Entered(t) /\ (j < node[t] \/ (j = node[t] /\ pc[t] = "after"))
At(t, j) == Entered(t) /\ j = node[t] /\ InProduct(t)
HandedOut(t) ==
  \A j \in 1..Len(plan.graph), c \in 0..(ChunksFor(plan.n) - 1) :
    plan.graph[j] = "mulmat" =>
      /\ Left(t, j) => Given(j, c)
      /\ At(t, j) /\ c < currentChunk => Given(j, c)

\* When the caller has left the graph, a whole number of phases is done: all of
\* them if nobody asked to stop.
WholePhases ==
  Gone(0) => \E k \in 0..(2 * Len(plan.graph)) :
    done = Abstract!Upto(k) /\ (abort = -1 => k = 2 * Len(plan.graph))

Tracked ==
  pc[0] \notin Outside =>
    /\ plan.n = nGraph.n
    /\ \A t \in Active : Placed(t) /\ OwnPart(t) /\ HandedOut(t)
    /\ OnlyTasks /\ WholePhases

-----------------------------------------------------------------------------
(* The phases.                                                             *)

\* Those of node i come after those of the nodes before it.
LEMMA UptoNode ==
  ASSUME Len(plan.graph) \in Nat, NEW m \in 1..(Len(plan.graph) + 1), NEW x
  PROVE  x \in Abstract!Upto(2 * (m - 1)) <=>
           \E i \in 1..(m - 1) : x \in FirstPhase(plan, i) \/ x \in SecondPhase(plan, i)
<1>1. ASSUME NEW i \in 1..(m - 1)
      PROVE  /\ PhasesOf(plan)[2 * i - 1] = FirstPhase(plan, i)
             /\ PhasesOf(plan)[2 * i] = SecondPhase(plan, i)
             /\ 2 * i - 1 \in 1..(2 * (m - 1)) /\ 2 * i \in 1..(2 * (m - 1))
  <2>1. /\ 2 * i - 1 \in 1..(2 * Len(plan.graph)) /\ 2 * i \in 1..(2 * Len(plan.graph))
        /\ (2 * i - 1) % 2 = 1 /\ ((2 * i - 1) + 1) \div 2 = i
        /\ (2 * i) % 2 # 1 /\ (2 * i) \div 2 = i
    OBVIOUS
  <2>2. 2 * i - 1 \in 1..(2 * (m - 1)) /\ 2 * i \in 1..(2 * (m - 1))
    OBVIOUS
  <2> QED
    BY <2>1, <2>2 DEF PhasesOf
<1>2. ASSUME NEW k \in 1..(2 * (m - 1)), x \in PhasesOf(plan)[k]
      PROVE  \E i \in 1..(m - 1) : x \in FirstPhase(plan, i) \/ x \in SecondPhase(plan, i)
  <2>1. k \in 1..(2 * Len(plan.graph))
    OBVIOUS
  <2>2. CASE k % 2 = 1
    <3>1. (k + 1) \div 2 \in 1..(m - 1)
      BY <2>2
    <3>2. x \in FirstPhase(plan, (k + 1) \div 2)
      BY <1>2, <2>1, <2>2 DEF PhasesOf
    <3> QED
      BY <3>1, <3>2
  <2>3. CASE k % 2 # 1
    <3>1. k \div 2 \in 1..(m - 1)
      BY <2>3
    <3>2. x \in SecondPhase(plan, k \div 2)
      BY <1>2, <2>1, <2>3 DEF PhasesOf
    <3> QED
      BY <3>1, <3>2
  <2> QED
    BY <2>2, <2>3
<1>3. x \in Abstract!Upto(2 * (m - 1)) <=> \E k \in 1..(2 * (m - 1)) : x \in PhasesOf(plan)[k]
  BY DEF Abstract!Upto
<1> QED
  BY <1>1, <1>2, <1>3

\* The first phase of node m is the next.
LEMMA UptoFirst ==
  ASSUME Len(plan.graph) \in Nat, NEW m \in 1..Len(plan.graph), NEW x,
         x \in Abstract!Upto(2 * m - 1)
  PROVE  x \in Abstract!Upto(2 * (m - 1)) \/ x \in FirstPhase(plan, m)
<1>1. PICK k \in 1..(2 * m - 1) : x \in PhasesOf(plan)[k]
  BY DEF Abstract!Upto
<1>2. CASE k = 2 * m - 1
  <2>1. /\ k \in 1..(2 * Len(plan.graph)) /\ k % 2 = 1 /\ (k + 1) \div 2 = m
    BY <1>2
  <2> QED
    BY <1>1, <2>1 DEF PhasesOf
<1>3. CASE k # 2 * m - 1
  <2>1. k \in 1..(2 * (m - 1))
    BY <1>3
  <2> QED
    BY <1>1, <2>1 DEF Abstract!Upto
<1> QED
  BY <1>2, <1>3

\* The tasks of a node are for the threads of the graph.
LEMMA TasksOf ==
  ASSUME IInv, Tracked, pc[0] \notin Outside, NEW i \in 1..Len(plan.graph), NEW x
  PROVE  /\ x \in FirstPhase(plan, i) <=>
              \E t \in Active : \/ Shared(plan.graph, i) /\ x = <<i, "share", t>>
                                \/ plan.graph[i] = "mulmat" /\ x = <<i, "wdata", t>>
         /\ x \in SecondPhase(plan, i) <=>
              /\ plan.graph[i] = "mulmat"
              /\ \E c \in 0..(ChunksFor(plan.n) - 1) : x = <<i, "chunk", c>>
<1>1. plan.n = nGraph.n /\ plan.n \in 1..N
  BY PlanFacts DEF Tracked, IInv, Types
<1>2. Active = 0..(plan.n - 1)
  BY <1>1, PoolAssumption DEF Active, Threads
<1>3. Shared(plan.graph, i) => plan.graph[i] # "mulmat"
  BY DEF Shared
<1>4. x \in FirstPhase(plan, i) <=>
        \E t \in Active : \/ Shared(plan.graph, i) /\ x = <<i, "share", t>>
                          \/ plan.graph[i] = "mulmat" /\ x = <<i, "wdata", t>>
  <2>1. CASE Shared(plan.graph, i)
    BY <1>2, <1>3, <2>1 DEF FirstPhase, Tasks
  <2>2. CASE ~Shared(plan.graph, i) /\ plan.graph[i] = "mulmat"
    BY <1>2, <2>2 DEF FirstPhase, Tasks
  <2>3. CASE ~Shared(plan.graph, i) /\ plan.graph[i] # "mulmat"
    BY <2>3 DEF FirstPhase
  <2> QED
    BY <2>1, <2>2, <2>3
<1>5. x \in SecondPhase(plan, i) <=>
        /\ plan.graph[i] = "mulmat"
        /\ \E c \in 0..(ChunksFor(plan.n) - 1) : x = <<i, "chunk", c>>
  BY DEF SecondPhase, Tasks
<1> QED
  BY <1>4, <1>5

\* What all threads have left behind them is done.
LEMMA BehindAll ==
  ASSUME IInv, Tracked, pc[0] \notin Outside, NEW i \in 1..Len(plan.graph),
         \A u \in Active : Entered(u) /\ i < node[u],
         NEW x, x \in FirstPhase(plan, i) \/ x \in SecondPhase(plan, i)
  PROVE  x \in done
<1>1. CASE x \in FirstPhase(plan, i)
  <2>1. PICK t \in Active : \/ Shared(plan.graph, i) /\ x = <<i, "share", t>>
                            \/ plan.graph[i] = "mulmat" /\ x = <<i, "wdata", t>>
    BY <1>1, TasksOf
  <2>2. Entered(t) /\ Behind(t, i) /\ OwnPart(t)
    BY DEF Behind, Tracked
  <2> QED
    BY <2>1, <2>2 DEF OwnPart
<1>2. CASE x \in SecondPhase(plan, i)
  <2>1. PICK c \in 0..(ChunksFor(plan.n) - 1) : x = <<i, "chunk", c>>
    BY <1>2, TasksOf
  <2>2. plan.graph[i] = "mulmat"
    BY <1>2, TasksOf
  <2>3. 0 \in Active
    BY GraphFacts DEF Active
  <2>4. HandedOut(0) /\ Left(0, i)
    BY <2>3 DEF Tracked, Left
  <2>5. Given(i, c)
    BY <2>2, <2>4 DEF HandedOut
  <2>6. \A u \in Active : ~Holds(u, i, c)
    <3>1. \A u \in Active : node[u] # i
      <4>1. \A u \in Active : node[u] \in Nat /\ i < node[u]
        BY GraphFacts DEF Active
      <4> QED
        BY <4>1
    <3> QED
      BY <3>1 DEF Holds
  <2> QED
    BY <2>1, <2>5, <2>6 DEF Given
<1> QED
  BY <1>1, <1>2

\* When all leave the graph at node m, a whole number of phases is done.
LEMMA LeftTogether ==
  ASSUME IInv, Tracked, pc[0] \notin Outside, NEW m \in 1..(Len(plan.graph) + 1),
         \A u \in Active :
           /\ Entered(u)
           /\ node[u] = m \/ (m = Len(plan.graph) + 1 /\ node[u] > Len(plan.graph))
           /\ \A j \in 1..Len(plan.graph) : Behind(u, j) => j < node[u],
         \A j, c \in Nat : <<j, "chunk", c>> \in done => j < m,
         m <= Len(plan.graph) => abort = m - 1,
         UNCHANGED <<done, plan, abort>>
  PROVE  WholePhases'
<1>1. Len(plan.graph) \in Nat /\ abort \in Int /\ m \in Nat
  BY GraphFacts
<1>2. \A u \in Active : node[u] \in Nat
  BY GraphFacts DEF Active
<1>3. \A u \in Active, j \in 1..Len(plan.graph) : j < node[u] <=> j < m
  BY <1>1, <1>2
<1>4. ASSUME NEW x, x \in Abstract!Upto(2 * (m - 1)) PROVE x \in done
  <2>1. PICK i \in 1..(m - 1) : x \in FirstPhase(plan, i) \/ x \in SecondPhase(plan, i)
    BY <1>1, <1>4, UptoNode
  <2>2. i \in 1..Len(plan.graph) /\ i < m
    BY <1>1
  <2> QED
    BY <1>3, <2>1, <2>2, BehindAll
<1>5. ASSUME NEW x \in done PROVE x \in Abstract!Upto(2 * (m - 1))
  <2>1. PICK i \in 1..Len(plan.graph) : x \in FirstPhase(plan, i) \/ x \in SecondPhase(plan, i)
    BY DEF Tracked, OnlyTasks
  <2>2. CASE x \in FirstPhase(plan, i)
    <3>1. PICK t \in Active : \/ Shared(plan.graph, i) /\ x = <<i, "share", t>>
                              \/ plan.graph[i] = "mulmat" /\ x = <<i, "wdata", t>>
      BY <2>2, TasksOf
    <3>2. Behind(t, i)
      BY <1>5, <3>1 DEF Tracked, OwnPart
    <3>3. i < m
      BY <1>3, <3>2
    <3> QED
      BY <1>1, <2>1, <3>3, UptoNode
  <2>3. CASE x \in SecondPhase(plan, i)
    <3>1. PICK c \in 0..(ChunksFor(plan.n) - 1) : x = <<i, "chunk", c>>
      BY <2>3, TasksOf
    <3>2. i \in Nat /\ c \in Nat
      OBVIOUS
    <3>3. i < m
      BY <1>5, <3>1, <3>2
    <3> QED
      BY <1>1, <2>1, <3>3, UptoNode
  <2> QED
    BY <2>1, <2>2, <2>3
<1>6. PICK k \in 0..(2 * Len(plan.graph)) : k = 2 * (m - 1)
  BY <1>1
<1>7. done = Abstract!Upto(k)
  BY <1>4, <1>5, <1>6
<1>8. abort = -1 => k = 2 * Len(plan.graph)
  BY <1>1, <1>6
<1>9. Abstract!Upto(k)' = Abstract!Upto(k)
  BY DEF Abstract!Upto
<1> QED
  BY <1>7, <1>8, <1>9 DEF WholePhases

-----------------------------------------------------------------------------
(* A step of one thread, for the others and for itself.                    *)

\* There are at least as many chunks as threads.
LEMMA ChunksForFacts ==
  ASSUME NEW n \in Nat \ {0}
  PROVE  ChunksFor(n) \in Nat /\ n <= ChunksFor(n)
BY PoolAssumption DEF ChunksFor

\* What is tracked of the other threads.
LEMMA OthersTracked ==
  ASSUME IInv, Tracked, pc[0] \notin Outside, NEW t \in Threads, Alone(t),
         NEW u \in Active, u # t,
         \A j \in 1..Len(plan.graph) :
           /\ <<j, "share", u>> \in done' <=> <<j, "share", u>> \in done
           /\ <<j, "wdata", u>> \in done' <=> <<j, "wdata", u>> \in done,
         \A j \in 1..Len(plan.graph), c \in 0..(ChunksFor(plan.n) - 1) :
           /\ Given(j, c) => Given(j, c)'
           /\ At(u, j) /\ c < currentChunk' => c < currentChunk \/ Given(j, c)'
  PROVE  Placed(u)' /\ OwnPart(u)' /\ HandedOut(u)'
<1>1. /\ pc'[u] = pc[u] /\ ret'[u] = ret[u] /\ node'[u] = node[u]
      /\ passed'[u] = passed[u] /\ chunk'[u] = chunk[u] /\ lastGraph'[u] = lastGraph[u]
      /\ nPassed' = nPassed /\ nGraph' = nGraph /\ plan' = plan
  BY DEF Active, Alone
<1>2. Active' = Active
  BY <1>1 DEF Active
<1>3. Entered(u)' <=> Entered(u)
  BY <1>1, <1>2 DEF Entered, Here
<1>4. \A j : Behind(u, j)' <=> Behind(u, j)
  BY <1>1 DEF Behind
<1>5. InProduct(u)' <=> InProduct(u)
  BY <1>1 DEF InProduct, Opening, Released
<1>6. \A j : (Left(u, j)' <=> Left(u, j)) /\ (At(u, j)' <=> At(u, j))
  BY <1>1, <1>3, <1>5 DEF Left, At
<1>7. Placed(u) /\ OwnPart(u) /\ HandedOut(u)
  BY DEF Tracked
<1>8. Placed(u)'
  BY <1>1, <1>3, <1>7 DEF Placed
<1>9. OwnPart(u)'
  BY <1>1, <1>3, <1>4, <1>7 DEF OwnPart
<1>10. HandedOut(u)'
  BY <1>1, <1>6, <1>7 DEF HandedOut
<1> QED
  BY <1>8, <1>9, <1>10

\* A step that computes nothing, and after which the thread is at the same place
\* among the tasks.
LEMMA TrackedStays ==
  ASSUME IInv, Tracked, pc[0] \notin Outside, NEW t \in Threads, Alone(t),
         done' = done, currentChunk' = currentChunk,
         (Gone(0)' => Gone(0) /\ abort' = abort) \/ WholePhases',
         t \in Active =>
           /\ Placed(t)'
           /\ \A j \in 1..Len(plan.graph) :
                Shared(plan.graph, j) \/ plan.graph[j] = "mulmat" =>
                  (Entered(t)' /\ Behind(t, j)' <=> Entered(t) /\ Behind(t, j))
           /\ \A j \in 1..Len(plan.graph) : plan.graph[j] = "mulmat" =>
                /\ Left(t, j)' => Left(t, j)
                /\ At(t, j)' => At(t, j)
           /\ \A j, c : Holds(t, j, c) => Holds(t, j, c)'
  PROVE  Tracked'
<1>1. plan' = plan /\ nGraph' = nGraph /\ Active' = Active /\ Active \subseteq Threads
  BY DEF Alone, Active
<1>2. \A u \in Active : u # t => \A j, c : Holds(u, j, c) => Holds(u, j, c)'
  BY <1>1 DEF Alone, Holds, Opening, Released
<1>3. \A j, c : Given(j, c) => Given(j, c)'
  BY <1>1, <1>2 DEF Given
<1>4. ASSUME NEW u \in Active PROVE Placed(u)' /\ OwnPart(u)' /\ HandedOut(u)'
  <2>1. CASE u # t
    BY <1>3, <2>1, OthersTracked
  <2>2. CASE u = t
    <3>1. OwnPart(t) /\ HandedOut(t)
      BY <2>2 DEF Tracked
    <3>2. OwnPart(t)'
      BY <1>1, <2>2, <3>1 DEF OwnPart
    <3>3. HandedOut(t)'
      BY <1>1, <1>3, <2>2, <3>1 DEF HandedOut
    <3> QED
      BY <2>2, <3>2, <3>3
  <2> QED
    BY <2>1, <2>2
<1>5. OnlyTasks' /\ plan'.n = nGraph'.n
  BY <1>1 DEF Tracked, OnlyTasks
<1>6. WholePhases'
  <2>1. ASSUME Gone(0)', ~WholePhases' PROVE \E k \in 0..(2 * Len(plan'.graph)) :
          done' = Abstract!Upto(k)' /\ (abort' = -1 => k = 2 * Len(plan'.graph))
    <3>1. PICK k \in 0..(2 * Len(plan.graph)) :
            done = Abstract!Upto(k) /\ (abort = -1 => k = 2 * Len(plan.graph))
      BY <2>1 DEF Tracked, WholePhases
    <3>2. Abstract!Upto(k)' = Abstract!Upto(k)
      BY <1>1 DEF Abstract!Upto
    <3> QED
      BY <1>1, <2>1, <3>1, <3>2
  <2> QED
    BY <2>1 DEF WholePhases
<1> QED
  BY <1>1, <1>4, <1>5, <1>6 DEF Tracked

\* The thread stays outside the nodes of the graph.
LEMMA PoolMoveTracked ==
  ASSUME IInv, Tracked, NEW t \in Workers, NEW l \in PoolLabels,
         pc[t] \in PoolLabels \cup {"finished"}, Goto(t, l), UNCHANGED <<rest, local>>
  PROVE  Tracked'
<1> USE DEF rest, local, barrier, control, Goto
<1>1. t \in Threads /\ t # 0 /\ 0 \in Threads
  BY PoolAssumption DEF Threads, Workers
<1>2. Alone(t) /\ pc'[0] = pc[0] /\ pc'[t] \in PoolLabels
  BY <1>1 DEF Alone, IInv, Types
<1>3. CASE pc[0] \in Outside
  BY <1>2, <1>3 DEF Tracked
<1>4. CASE pc[0] \notin Outside
  <2>1. Gone(0)' => Gone(0)
    BY <1>2 DEF Gone, Released
  <2>2. Active' = Active
    BY DEF Active
  <2>3. Entered(t)' <=> Entered(t)
    BY <1>2, <2>2 DEF Entered, Here, PoolLabels
  <2>4. \A j : Behind(t, j)' <=> Behind(t, j)
    BY <1>2 DEF Behind, PoolLabels, BarrierLabels
  <2>5. ~InProduct(t)' /\ pc'[t] # "chunk" /\ pc'[t] # "after"
    BY <1>2 DEF InProduct, Opening, Released, PoolLabels
  <2>6. \A j, c : ~Holds(t, j, c)
    BY DEF Holds, Opening, Released, PoolLabels
  <2>7. t \in Active => Placed(t)'
    BY <1>4, <2>3, <2>5 DEF Tracked, Placed
  <2>8. \A j : (Left(t, j)' => Left(t, j)) /\ ~At(t, j)'
    BY <2>3, <2>5 DEF Left, At
  <2> QED
    BY <1>1, <1>2, <1>4, <2>1, <2>3, <2>4, <2>6, <2>7, <2>8, TrackedStays
<1> QED
  BY <1>3, <1>4

\* It notices a graph.
LEMMA NoticeTracked ==
  ASSUME IInv, Tracked, NEW t \in Workers, pc[t] \in PoolLabels, News(t),
         NEW l \in PoolLabels, Goto(t, IF t < nGraph.n THEN "start" ELSE l),
         pending' = [pending EXCEPT ![t] = t < nGraph.n],
         lastGraph' = [lastGraph EXCEPT ![t] = nGraph],
         UNCHANGED rest
  PROVE  Tracked'
<1> USE DEF rest, barrier, control, Goto
<1>1. t \in Threads /\ t # 0 /\ 0 \in Threads /\ lastGraph[t] # nGraph
  BY PoolAssumption DEF Threads, Workers, News
<1>2. (t \in Active) = (t < nGraph.n)
  BY <1>1 DEF Active
<1>3. pc' = [pc EXCEPT ![t] = IF t \in Active THEN "start" ELSE l]
  BY <1>2
<1>4. Alone(t) /\ pc'[0] = pc[0] /\ (t \in Active => pc'[t] = "start")
  BY <1>1, <1>3 DEF Alone, IInv, Types
<1>5. CASE pc[0] \in Outside
  BY <1>4, <1>5 DEF Tracked
<1>6. CASE pc[0] \notin Outside
  <2>1. Gone(0)' => Gone(0)
    BY <1>4 DEF Gone, Released
  <2>2. t \in Active => ~Entered(t) /\ ~Entered(t)'
    BY <1>1, <1>4 DEF Entered, Here
  <2>3. \A j, c : ~Holds(t, j, c)
    BY DEF Holds, Opening, Released, PoolLabels
  <2>4. t \in Active => Placed(t)' /\ \A j : ~Left(t, j)' /\ ~At(t, j)'
    BY <2>2 DEF Placed, Left, At
  <2> QED
    BY <1>1, <1>4, <1>6, <2>1, <2>2, <2>3, <2>4, TrackedStays
<1> QED
  BY <1>5, <1>6

\* It begins with the first node, and has done nothing.
LEMMA StartGraphTracked ==
  ASSUME IInv, Tracked, NEW t \in Workers, StartGraph(t)
  PROVE  Tracked'
<1> USE DEF StartGraph, barrier, control, Goto
<1>1. t \in Threads /\ t # 0 /\ 0 \in Threads
  BY PoolAssumption DEF Threads, Workers
<1>2. Alone(t) /\ pc'[t] = "loop" /\ node'[t] = 1 /\ pc'[0] = pc[0]
  BY <1>1 DEF Alone, IInv, Types
<1>3. CASE pc[0] \in Outside
  BY <1>2, <1>3 DEF Tracked
<1>4. CASE pc[0] \notin Outside
  <2>1. Gone(0)' => Gone(0)
    BY <1>2 DEF Gone, Released
  <2>2. ~Entered(t)
    BY DEF Entered
  <2>3. \A j \in 1..Len(plan.graph) : ~Behind(t, j)'
    <3>1. Len(plan.graph) \in Nat
      BY GraphFacts
    <3> QED
      BY <1>2, <3>1 DEF Behind, BarrierLabels
  <2>4. \A j, c : ~Holds(t, j, c)
    BY DEF Holds, Opening, Released
  <2>5. Placed(t)'
    BY <1>2 DEF Placed, Covered
  <2>6. \A j \in 1..Len(plan.graph) : ~Left(t, j)' /\ ~At(t, j)'
    <3>1. Len(plan.graph) \in Nat
      BY GraphFacts
    <3> QED
      BY <1>2, <3>1 DEF Left, At, InProduct, Opening, Released
  <2> QED
    BY <1>1, <1>2, <1>4, <2>1, <2>2, <2>3, <2>4, <2>5, <2>6, TrackedStays
<1> QED
  BY <1>3, <1>4

\* What a worker does outside the graph.
LEMMA InPoolTracked ==
  ASSUME IInv, Tracked, NEW t \in Workers, InPool(t) \/ WakesByItself(t)
  PROVE  Tracked'
BY PoolSteps, PoolMoveTracked, NoticeTracked, StartGraphTracked DEF Moves, Notices

-----------------------------------------------------------------------------
(* A thread in the graph.                                                  *)

\* When the caller is through with the graph, all are.
LEMMA CallerGone ==
  ASSUME IInv, Gone(0)
  PROVE  \A t \in Threads : Gone(t) \/ pc[t] \in Outside
<1>1. pc[0] \in {"finished", "spin"} /\ (pc[0] = "spin" => Released(0) /\ ret[0] = "finished")
  BY GraphFacts DEF IInv, Threading, Gone, PoolLabels, Outside, GraphLabels, Released
<1>2. 0 \in Active /\ ~Waits(0)
  BY <1>1, GraphFacts DEF Active, Waits, Released, IInv, Types
<1>3. \A i \in Nat : ~LoopStretch(i)
  <2>1. ASSUME NEW i \in Nat, LoopStretch(i) PROVE FALSE
    <3>1. LoopPlace(0, i)
      BY <1>2, <2>1 DEF LoopStretch
    <3> QED
      BY <1>1, <1>2, <3>1 DEF LoopPlace, AtBarrier, Released
  <2> QED
    BY <2>1
<1>4. \A i \in Nat : ~ChunkStretch(i)
  <2>1. ASSUME NEW i \in Nat, ChunkStretch(i) PROVE FALSE
    <3>1. ChunkPlace(0, i)
      BY <1>2, <2>1 DEF ChunkStretch
    <3> QED
      BY <1>1, <1>2, <3>1 DEF ChunkPlace, AtBarrier, Released
  <2> QED
    BY <2>1
<1>5. Finished
  BY <1>3, <1>4 DEF IInv, Stretch
<1> QED
  BY <1>5 DEF Finished, IInv, Others

\* A thread in a graph is there with all the others, and so is the caller.
LEMMA AtWork ==
  ASSUME IInv, NEW t \in Threads, pc[t] \in GraphLabels, ~Gone(t)
  PROVE  t \in Active /\ Entered(t) /\ pc[0] \notin Outside /\ ~Gone(0)
<1>1. pc[t] \notin Outside \cup {"start"}
  BY DEF GraphLabels, Outside
<1> QED
  BY <1>1, InAStretch, CallerGone DEF Entered

\* It stays in the graph and does not leave it for good.
LEMMA StaysAtWork ==
  ASSUME IInv, NEW t \in Threads, pc[t] \in GraphLabels, ~Gone(t), Alone(t),
         pc'[t] \notin PoolLabels \cup {"start", "finished", "spin"},
         lastGraph'[t] = lastGraph[t]
  PROVE  Entered(t)' /\ ~Gone(0)'
<1>1. t \in Active /\ Entered(t) /\ ~Gone(0) /\ 0 \in Threads
  BY AtWork, GraphFacts
<1>2. Active' = Active /\ Here(t)'
  BY <1>1 DEF Active, Alone, Entered, Here
<1>3. ~Gone(0)'
  BY <1>1 DEF Gone, Released, Alone
<1> QED
  BY <1>1, <1>2, <1>3 DEF Entered

\* The steps of the barrier that let nobody go.
LEMMA InBarrierTracked ==
  ASSUME IInv, Tracked, NEW t \in Threads, EnterBarrier(t) \/ Arrive(t) \/ ResetBarrier(t)
  PROVE  Tracked'
<1> USE DEF EnterBarrier, Arrive, ResetBarrier, Goto, barrier, control, local
<1>1. /\ pc[t] \in {"barrier", "arrive", "resetBarrier"}
      /\ pc'[t] \in {"arrive", "resetBarrier", "spin", "release"}
      /\ Alone(t) /\ UNCHANGED <<ret, node, lastGraph, done, currentChunk, abort>>
  BY DEF Alone, IInv, Types
<1>2. /\ ~Gone(t) /\ pc[t] \in GraphLabels
  BY <1>1 DEF Gone, PoolLabels, GraphLabels, Released
<1>3. t \in Active /\ Entered(t) /\ pc[0] \notin Outside /\ ~Gone(0) /\ 0 \in Threads
  BY <1>2, AtWork, GraphFacts
<1>4. Entered(t)'
  BY <1>1, <1>3 DEF Active, Alone, Entered, Here
<1>5. ~Released(t)'
  <2>1. CASE Arrive(t)
    <3>1. passed'[t] = nPassed' /\ nPassed' \in Nat
      BY <2>1 DEF IInv, Types, Gathered
    <3> QED
      BY <3>1 DEF Released
  <2>2. CASE ~Arrive(t)
    BY <2>2 DEF Released, IInv, Types
  <2> QED
    BY <2>1, <2>2
<1>6. ~Gone(0)'
  BY <1>1, <1>3, <1>5 DEF Gone, Released, Alone, PoolLabels
<1>7. \A j : Behind(t, j)' <=> Behind(t, j)
  BY <1>1 DEF Behind, BarrierLabels
<1>8. ~InProduct(t)' /\ \A j, c : ~Holds(t, j, c)
  BY <1>1, <1>5 DEF InProduct, Opening, Holds, Released
<1>9. Placed(t)'
  BY <1>1, <1>3, <1>4 DEF Tracked, Placed, Alone
<1>10. \A j : (Left(t, j)' => Left(t, j)) /\ ~At(t, j)'
  BY <1>1, <1>3, <1>8 DEF Left, At
<1> QED
  BY <1>1, <1>3, <1>4, <1>6, <1>7, <1>8, <1>9, <1>10, TrackedStays

\* The one that sees the barrier open.
LEMMA SpinTracked ==
  ASSUME IInv, Tracked, NEW t \in Threads, Spin(t)
  PROVE  Tracked'
<1> USE DEF Spin, Goto, barrier, control, local
<1>1. /\ Released(t) /\ pc[t] = "spin" /\ pc'[t] = ret[t]
      /\ Alone(t) /\ UNCHANGED <<ret, node, lastGraph, done, currentChunk, abort>>
  BY DEF Alone, IInv, Types, Released, Threading
<1>2. CASE pc[0] \in Outside
  <2>1. t # 0
    BY <1>1, <1>2 DEF Outside
  <2>2. pc'[0] = pc[0]
    BY <1>1, <2>1, GraphFacts DEF Alone
  <2> QED
    BY <1>2, <2>2 DEF Tracked
<1>3. CASE pc[0] \notin Outside
  <2>1. ret[t] \in {"loop", "firstChunk", "finished"}
    <3>1. CASE Gone(t)
      BY <1>1, <3>1 DEF Gone, PoolLabels
    <3>2. CASE ~Gone(t)
      <4>1. ~AtBarrier(t)
        BY <1>1 DEF AtBarrier, Waits, Released, IInv, Types
      <4>2. pc[t] \in GraphLabels
        BY DEF GraphLabels
      <4>3. \/ \E i \in Nat : LoopStretch(i) /\ LoopPlace(t, i)
            \/ \E i \in Nat : ChunkStretch(i) /\ ChunkPlace(t, i)
        BY <3>2, <4>2, InAStretch
      <4> QED
        BY <1>1, <3>2, <4>1, <4>3 DEF LoopPlace, ChunkPlace
    <3> QED
      BY <3>1, <3>2
  <2>2. Gone(0)' => Gone(0)
    <3>1. 0 \in Threads
      BY GraphFacts
    <3> QED
      BY <1>1, <2>1, <3>1 DEF Gone, Released, Alone, PoolLabels
  <2>3. Entered(t)' <=> Entered(t)
    BY <1>1, <2>1 DEF Entered, Here, Active, Alone
  <2>4. \A j : Behind(t, j)' <=> Behind(t, j)
    BY <1>1, <2>1 DEF Behind, BarrierLabels
  <2>5. InProduct(t)' => InProduct(t)
    BY <1>1, <2>1 DEF InProduct, Opening, Released
  <2>6. \A j, c : Holds(t, j, c) => Holds(t, j, c)'
    BY <1>1, <2>1 DEF Holds, Opening
  <2>7. t \in Active => Placed(t)'
    BY <1>1, <1>3, <2>1, <2>3 DEF Tracked, Placed, Alone
  <2>8. \A j : (Left(t, j)' => Left(t, j)) /\ (At(t, j)' => At(t, j))
    BY <1>1, <2>1, <2>3, <2>5 DEF Left, At
  <2> QED
    BY <1>1, <1>3, <2>2, <2>3, <2>4, <2>6, <2>7, <2>8, TrackedStays
<1> QED
  BY <1>2, <1>3

\* Where a thread is that leaves the for statement.
LEMMA LeavesTracked ==
  ASSUME IInv, Tracked, NEW t \in Threads, NextNode(t), Barrier(t, "finished"), node' = node,
         LastNode(t) \/ abort = node[t] - 1
  PROVE  Tracked'
<1> USE DEF NextNode, barrier, control, local
<1>1. /\ Alone(t) /\ pc'[t] \in {"barrier", "finished"}
      /\ UNCHANGED <<lastGraph, done, currentChunk, abort>>
      /\ pc'[t] = "barrier" => ret'[t] = "finished"
      /\ pc'[t] = "finished" => nGraph.n = 1
  BY BarrierGoes DEF Alone
<1>2. ~Gone(t) /\ pc[t] \in GraphLabels
  BY DEF Gone, PoolLabels, GraphLabels, Released
<1>3. /\ t \in Active /\ Entered(t) /\ pc[0] \notin Outside /\ ~Gone(0) /\ 0 \in Threads
      /\ Here(t)
  BY <1>2, AtWork, GraphFacts DEF Entered
<1>4. Entered(t)'
  BY <1>1, <1>3 DEF Active, Alone, Entered, Here
<1>5. \A j \in 1..Len(plan.graph) : Behind(t, j)' <=> Behind(t, j)
  BY <1>1 DEF Behind, BarrierLabels
<1>6. ~InProduct(t)' /\ \A j, c : ~Holds(t, j, c)
  BY <1>1 DEF InProduct, Opening, Holds, Released
<1>7. Placed(t)'
  BY <1>1, <1>3, <1>4 DEF Tracked, Placed, Alone
<1>8. \A j : (Left(t, j)' => Left(t, j)) /\ ~At(t, j)'
  BY <1>1, <1>3, <1>6 DEF Left, At
<1>9. (Gone(0)' => Gone(0)) \/ WholePhases'
  <2>1. CASE pc'[t] # "finished"
    <3>1. ~Gone(0)'
      BY <1>1, <1>3, <2>1 DEF Gone, Released, Alone, PoolLabels
    <3> QED
      BY <3>1
  <2>2. CASE pc'[t] = "finished"
    <3>1. Active = {0} /\ t = 0
      BY <1>1, <1>3, <2>2, ActiveAlone
    <3>2. Len(plan.graph) \in Nat /\ node[0] \in Nat /\ abort \in Int
      BY <1>3, GraphFacts
    <3>3. \A j \in 1..Len(plan.graph) : Behind(0, j) => j < node[0]
      BY <3>1 DEF Behind, BarrierLabels
    <3>4. \E i \in 1..Len(plan.graph) :
            /\ i <= node[0]
            /\ \A j, c \in Nat : <<j, "chunk", c>> \in done => j < i \/ (j <= i /\ i < node[0])
      <4>1. ASSUME NEW i \in Nat, LoopStretch(i), LoopPlace(0, i)
            PROVE  i <= node[0]
        <5>1. Skips(plan.graph, i, node[0]) \/ Past(plan.graph, i, node[0])
          BY <3>1, <4>1 DEF LoopPlace, AtBarrier, Released, Waits
        <5>2. Past(plan.graph, i, node[0]) => i < node[0]
          BY <3>2, PastRange
        <5>3. Skips(plan.graph, i, node[0]) => i <= node[0]
          BY DEF Skips
        <5> QED
          BY <3>2, <5>1, <5>2, <5>3
      <4>2. ASSUME NEW i \in Nat, ChunkStretch(i), ChunkPlace(0, i)
            PROVE  node[0] = i + 1
        BY <3>1, <4>2 DEF ChunkPlace, AtBarrier, Released, Waits
      <4>3. ASSUME NEW i \in Nat, LoopStretch(i), LoopPlace(0, i)
            PROVE  \E k \in 1..Len(plan.graph) :
                     /\ k <= node[0]
                     /\ \A j, c \in Nat : <<j, "chunk", c>> \in done => j < k \/ (j <= k /\ k < node[0])
        BY <4>1, <4>3 DEF LoopStretch
      <4>4. ASSUME NEW i \in Nat, ChunkStretch(i), ChunkPlace(0, i)
            PROVE  \E k \in 1..Len(plan.graph) :
                     /\ k <= node[0]
                     /\ \A j, c \in Nat : <<j, "chunk", c>> \in done => j < k \/ (j <= k /\ k < node[0])
        <5>1. i \in 1..Len(plan.graph) /\ i <= node[0] /\ i < node[0]
          BY <4>2, <4>4, <3>2 DEF ChunkStretch
        <5>2. \A j, c \in Nat : <<j, "chunk", c>> \in done => j <= i
          BY <4>4 DEF ChunkStretch, ChunksGiven
        <5> QED
          BY <5>1, <5>2
      <4> QED
        BY <1>2, <3>1, <4>3, <4>4, InAStretch
    <3>5. PICK i \in 1..Len(plan.graph) :
            /\ i <= node[0]
            /\ \A j, c \in Nat : <<j, "chunk", c>> \in done => j < i \/ (j <= i /\ i < node[0])
      BY <3>4
    <3>6. PICK m \in 1..(Len(plan.graph) + 1) :
            /\ node[0] = m \/ (m = Len(plan.graph) + 1 /\ node[0] > Len(plan.graph))
      BY <3>2, <3>5
    <3>7. m <= Len(plan.graph) => abort = m - 1
      BY <3>1, <3>2, <3>6 DEF LastNode
    <3>8. i <= m /\ (i < node[0] => i < m)
      BY <3>2, <3>5, <3>6
    <3>9. \A j, c \in Nat : <<j, "chunk", c>> \in done => j < m
      BY <3>2, <3>5, <3>8
    <3>10. \A u \in Active :
             /\ Entered(u)
             /\ node[u] = m \/ (m = Len(plan.graph) + 1 /\ node[u] > Len(plan.graph))
             /\ \A j \in 1..Len(plan.graph) : Behind(u, j) => j < node[u]
      BY <1>3, <3>1, <3>3, <3>6
    <3>11. UNCHANGED <<done, plan, abort>>
      OBVIOUS
    <3> QED
      BY <1>3, <3>7, <3>9, <3>10, <3>11, LeftTogether
  <2> QED
    BY <2>1, <2>2
<1> QED
  BY <1>1, <1>3, <1>4, <1>5, <1>7, <1>8, <1>6, <1>9, TrackedStays

\* The for statement.
LEMMA NextNodeTracked ==
  ASSUME IInv, Tracked, NEW t \in Threads, NextNode(t)
  PROVE  Tracked'
<1> USE DEF barrier, control, local
<1>1. CASE LastNode(t) \/ abort = node[t] - 1
  BY <1>1, LeavesTracked DEF NextNode
<1>2. CASE ~LastNode(t) /\ abort # node[t] - 1
  <2>1. /\ pc[t] = "loop" /\ UNCHANGED <<lastGraph, done, currentChunk, abort, ret>>
        /\ \/ node' = [node EXCEPT ![t] = @ + 1] /\ pc' = pc /\ Kind(t) = "empty"
           \/ node' = node /\ Kind(t) # "empty"
              /\ pc' = [pc EXCEPT ![t] = IF Kind(t) = "mulmat" THEN "convert" ELSE "compute"]
    BY <1>2 DEF NextNode, Goto
  <2>2. ~Gone(t) /\ pc[t] \in GraphLabels
    BY <2>1 DEF Gone, PoolLabels, GraphLabels, Released
  <2>3. t \in Active /\ Entered(t) /\ pc[0] \notin Outside /\ ~Gone(0)
    BY <2>2, AtWork
  <2>4. Alone(t) /\ pc'[t] \in {"loop", "compute", "convert"}
    BY <2>1 DEF NextNode, Alone, IInv, Types
  <2>5. Entered(t)' /\ ~Gone(0)'
    BY <2>1, <2>2, <2>4, StaysAtWork DEF PoolLabels
  <2>6. node[t] \in 1..Len(plan.graph) /\ Len(plan.graph) \in Nat
    BY <1>2, <2>1, AtNode, GraphFacts
  <2>7. /\ ~InProduct(t)' /\ pc'[t] # "after"
        /\ \A j, c : ~Holds(t, j, c)
    BY <2>1, <2>4 DEF InProduct, Opening, Holds, Released
  <2>8. /\ \A j : Behind(t, j) <=> j < node[t]
        /\ \A j : Behind(t, j)' <=> j < node'[t]
    BY <2>1, <2>4 DEF Behind, BarrierLabels
  <2>9. \/ node'[t] = node[t]
        \/ node'[t] = node[t] + 1 /\ plan.graph[node[t]] = "empty"
    BY <2>1 DEF IInv, Types, Kind
  <2>10. Placed(t)'
    <3>1. ~Covered(plan.graph, node[t]) /\ plan' = plan
      BY <2>3, <2>4 DEF Tracked, Placed, Alone
    <3>2. ~Covered(plan.graph, node'[t])
      BY <2>6, <2>9, <3>1 DEF Covered
    <3> QED
      BY <2>4, <3>1, <3>2 DEF Placed
  <2>11. \A j \in 1..Len(plan.graph) :
           Shared(plan.graph, j) \/ plan.graph[j] = "mulmat" => (j < node'[t] <=> j < node[t])
    BY <2>6, <2>9 DEF Shared
  <2>12. \A j \in 1..Len(plan.graph) : plan.graph[j] = "mulmat" =>
           /\ Left(t, j)' => Left(t, j)
           /\ At(t, j)' => At(t, j)
    BY <2>3, <2>7, <2>11 DEF Left, At
  <2> QED
    BY <2>1, <2>3, <2>4, <2>5, <2>7, <2>8, <2>10, <2>11, <2>12, TrackedStays
<1> QED
  BY <1>1, <1>2

\* The first chunk of a thread.
LEMMA FirstChunkTracked ==
  ASSUME IInv, Tracked, NEW t \in Threads, FirstChunk(t)
  PROVE  Tracked'
<1> USE DEF FirstChunk, Chunk, Goto, barrier, control, local
<1>1. /\ pc[t] = "firstChunk" /\ chunk'[t] = t /\ node'[t] = node[t]
      /\ pc'[t] = IF t < ChunksFor(nGraph.n) THEN "chunk" ELSE "after"
      /\ Alone(t) /\ UNCHANGED <<lastGraph, done, currentChunk, abort>>
  BY DEF Alone, IInv, Types
<1>2. ~Gone(t) /\ pc[t] \in GraphLabels
  BY <1>1 DEF Gone, PoolLabels, GraphLabels, Released
<1>3. t \in Active /\ Entered(t) /\ pc[0] \notin Outside /\ ~Gone(0)
  BY <1>2, AtWork
<1>4. plan.n = nGraph.n /\ plan.n \in 1..N
  BY <1>3, PlanFacts DEF Tracked, IInv, Types
<1>5. t < ChunksFor(plan.n)
  <2>1. t \in Nat /\ t < plan.n
    BY <1>3, <1>4, GraphFacts DEF Active
  <2>2. ChunksFor(plan.n) \in Nat /\ plan.n <= ChunksFor(plan.n)
    BY <1>4, ChunksForFacts, PoolAssumption
  <2> QED
    BY <1>4, <2>1, <2>2
<1>6. pc'[t] = "chunk"
  BY <1>1, <1>4, <1>5
<1>7. Entered(t)' /\ ~Gone(0)'
  BY <1>1, <1>2, <1>6, StaysAtWork DEF PoolLabels
<1>8. \A j : Behind(t, j)' <=> Behind(t, j)
  BY <1>1, <1>6 DEF Behind, BarrierLabels
<1>9. \A j, c : Holds(t, j, c) => Holds(t, j, c)'
  BY <1>1, <1>6 DEF Holds, Opening, Released
<1>10. Placed(t)'
  BY <1>1, <1>3, <1>5 DEF Tracked, Placed, Alone
<1>11. \A j : (Left(t, j)' => Left(t, j)) /\ (At(t, j)' => At(t, j))
  BY <1>1, <1>3, <1>6 DEF Left, At, InProduct, Opening
<1> QED
  BY <1>1, <1>3, <1>7, <1>8, <1>9, <1>10, <1>11, TrackedStays

\* The end of a node.
LEMMA AfterNodeTracked ==
  ASSUME IInv, Tracked, NEW t \in Threads, AfterNode(t)
  PROVE  Tracked'
<1> DEFINE m == node[t] + (IF Kind(t) = "fused" THEN 2 ELSE 1)
<1>1. /\ pc[t] = "after" /\ node' = [node EXCEPT ![t] = m]
      /\ UNCHANGED <<chunk, passed, local, barrier, control, currentChunk, done>>
      /\ m <= Len(plan.graph) => Barrier(t, "loop")
      /\ ~(m <= Len(plan.graph)) => Goto(t, "loop") /\ UNCHANGED ret
  BY DEF AfterNode
<1>2. m \in Nat /\ node'[t] = m /\ m = node[t] + (IF Kind(t) = "fused" THEN 2 ELSE 1)
      /\ node[t] \in Nat
  <2>1. node[t] \in Nat
    BY GraphFacts
  <2>2. m \in Nat
    BY <2>1
  <2>3. node'[t] = m
    BY <1>1 DEF IInv, Types
  <2> QED
    BY <2>1, <2>2, <2>3
<1> HIDE DEF m
<1> USE DEF barrier, control, local
<1>3. /\ pc'[t] \in {"loop", "barrier"} /\ (pc'[t] = "barrier" => ret'[t] = "loop")
      /\ \A u \in Threads \ {t} : pc'[u] = pc[u] /\ ret'[u] = ret[u]
  <2>1. CASE m <= Len(plan.graph)
    BY <1>1, <2>1, BarrierGoes
  <2>2. CASE ~(m <= Len(plan.graph))
    BY <1>1, <2>2 DEF Goto, IInv, Types, GraphLabels
  <2> QED
    BY <2>1, <2>2
<1>4. Alone(t)
  BY <1>1, <1>3 DEF Alone, IInv, Types
<1>5. ~Gone(t) /\ pc[t] \in GraphLabels
  BY <1>1 DEF Gone, PoolLabels, GraphLabels, Released
<1>6. t \in Active /\ Entered(t) /\ pc[0] \notin Outside /\ ~Gone(0)
  BY <1>5, AtWork
<1>7. Entered(t)' /\ ~Gone(0)'
  BY <1>1, <1>3, <1>4, <1>5, StaysAtWork DEF PoolLabels
<1>8. /\ \A j : Behind(t, j) <=> j < node[t] \/ j = node[t]
      /\ \A j : Behind(t, j)' <=> j < m
  BY <1>1, <1>2, <1>3 DEF Behind, BarrierLabels
<1>9. Len(plan.graph) \in Nat /\ node[t] \in 1..Len(plan.graph)
  <2>1. \/ \E i \in Nat : LoopStretch(i) /\ LoopPlace(t, i)
        \/ \E i \in Nat : ChunkStretch(i) /\ ChunkPlace(t, i)
    BY <1>5, InAStretch
  <2>2. ASSUME NEW i \in Nat, LoopStretch(i), LoopPlace(t, i) PROVE node[t] \in 1..Len(plan.graph)
    <3>1. Work(plan.graph, i, node[t]) /\ i \in 1..Len(plan.graph)
      BY <1>1, <2>2 DEF LoopStretch, LoopPlace, AtBarrier, Released, Waits, Gone, PoolLabels
    <3> QED
      BY <1>2, <3>1, GraphFacts DEF Work, Skips
  <2>3. ASSUME NEW i \in Nat, ChunkStretch(i), ChunkPlace(t, i) PROVE node[t] \in 1..Len(plan.graph)
    BY <1>1, <2>3 DEF ChunkStretch, ChunkPlace, AtBarrier, Released, Waits
  <2> QED
    BY <2>1, <2>2, <2>3, GraphFacts
<1>10. \/ plan.graph[node[t]] # "fused" /\ m = node[t] + 1
       \/ /\ plan.graph[node[t]] = "fused" /\ m = node[t] + 2
          /\ node[t] < Len(plan.graph) /\ plan.graph[node[t] + 1] = "plain"
  BY <1>2, <1>9, GraphFacts DEF Kind
<1>11. ~Covered(plan.graph, m)
  BY <1>9, <1>10 DEF Covered
<1>12. ASSUME NEW j \in 1..Len(plan.graph), j < m, ~(j < node[t] \/ j = node[t])
       PROVE  plan.graph[j] = "plain" /\ Covered(plan.graph, j)
  <2>1. j = node[t] + 1 /\ plan.graph[node[t]] = "fused" /\ plan.graph[node[t] + 1] = "plain"
    BY <1>9, <1>10, <1>12
  <2>2. j - 1 = node[t] /\ j > 1
    BY <1>9, <2>1
  <2> QED
    BY <2>1, <2>2 DEF Covered
<1>13. \A j \in 1..Len(plan.graph) : j < node[t] \/ j = node[t] => j < m
  BY <1>9, <1>10
<1>14. \A j \in 1..Len(plan.graph) :
         Shared(plan.graph, j) \/ plan.graph[j] = "mulmat" =>
           (j < m <=> j < node[t] \/ j = node[t])
  BY <1>12, <1>13 DEF Shared
<1>15. Placed(t)'
  BY <1>2, <1>3, <1>4, <1>11 DEF Placed, Alone
<1>16. ~InProduct(t)' /\ \A j, c : ~Holds(t, j, c)
  BY <1>1, <1>3 DEF InProduct, Opening, Holds, Released
<1>17. \A j \in 1..Len(plan.graph) : plan.graph[j] = "mulmat" =>
         /\ Left(t, j)' => Left(t, j)
         /\ At(t, j)' => At(t, j)
  BY <1>1, <1>2, <1>3, <1>6, <1>14, <1>16 DEF Left, At
<1>18. \A j \in 1..Len(plan.graph) :
         Shared(plan.graph, j) \/ plan.graph[j] = "mulmat" =>
           (Entered(t)' /\ Behind(t, j)' <=> Entered(t) /\ Behind(t, j))
  BY <1>6, <1>7, <1>8, <1>14
<1> QED
  BY <1>1, <1>4, <1>6, <1>7, <1>15, <1>16, <1>17, <1>18, TrackedStays

-----------------------------------------------------------------------------
(* The tasks.                                                              *)

\* Two phases for a node.
LEMMA PhasesLen ==
  ASSUME Len(plan.graph) \in Nat PROVE Len(PhasesOf(plan)) = 2 * Len(plan.graph)
<1>1. 2 * Len(plan.graph) \in Nat
  OBVIOUS
<1> QED
  BY <1>1 DEF PhasesOf

\* A stretch that does not begin the graph has all threads in it.
LEMMA AllBeyond ==
  ASSUME IInv, NEW i \in Nat, LoopStretch(i), i # 1, NEW u \in Active
  PROVE  Entered(u) /\ i <= node[u]
<1>1. LoopPlace(u, i) /\ node[u] \in Nat /\ u \in Threads
  BY GraphFacts DEF LoopStretch, Active
<1>2. Here(u) /\ pc[u] # "start"
  BY <1>1 DEF LoopPlace, AtBarrier, Waits, Released
<1>3. \/ Skips(plan.graph, i, node[u]) \/ Past(plan.graph, i, node[u]) \/ node[u] = i
  BY <1>1, <1>2 DEF LoopPlace, LoopExit, Work
<1>4. Past(plan.graph, i, node[u]) => i < node[u]
  BY <1>1, PastRange, GraphFacts
<1>5. Skips(plan.graph, i, node[u]) => i <= node[u]
  BY DEF Skips
<1> QED
  BY <1>1, <1>2, <1>3, <1>4, <1>5 DEF Entered

\* All phases before a node that is being computed are done.
LEMMA BeforeWork ==
  ASSUME IInv, Tracked, pc[0] \notin Outside, NEW i \in Nat, LoopStretch(i),
         NEW k \in 1..Len(plan.graph), Work(plan.graph, i, k)
  PROVE  Abstract!Upto(2 * (k - 1)) \subseteq done
<1>1. Len(plan.graph) \in Nat
  BY GraphFacts
<1>2. ASSUME NEW x, x \in Abstract!Upto(2 * (k - 1)) PROVE x \in done
  <2>1. PICK j \in 1..(k - 1) : x \in FirstPhase(plan, j) \/ x \in SecondPhase(plan, j)
    BY <1>1, <1>2, UptoNode
  <2>2. j \in 1..Len(plan.graph)
    BY <1>1
  <2>3. plan.graph[j] # "empty"
    BY <2>1, <2>2, TasksOf DEF Shared
  <2>4. j < i
    BY <1>1, <2>2, <2>3 DEF Work, Skips
  <2>5. i # 1
    BY <2>4
  <2>6. \A u \in Active : Entered(u) /\ i <= node[u] /\ node[u] \in Nat
    BY <2>5, AllBeyond, GraphFacts DEF Active
  <2>7. \A u \in Active : Entered(u) /\ j < node[u]
    BY <2>4, <2>6
  <2> QED
    BY <2>1, <2>2, <2>7, BehindAll
<1> QED
  BY <1>2

\* A thread computes its own part of a node.
LEMMA OwnTaskStep ==
  ASSUME IInv, Tracked, NEW t \in Threads, Alone(t), pc[t] \in {"compute", "convert"},
         NEW w, w = (IF pc[t] = "convert" THEN "wdata" ELSE "share"),
         done' = done \cup {<<node[t], w, t>>},
         \/ pc[t] = "compute" /\ pc'[t] = "after"
         \/ pc[t] = "convert" /\ pc'[t] = "resetChunk"
         \/ pc[t] = "convert" /\ pc'[t] = "barrier" /\ ret'[t] = "firstChunk",
         node' = node, UNCHANGED <<lastGraph, currentChunk, abort>>
  PROVE  Tracked' /\ Abstract!Compute
<1>1. ~Gone(t) /\ pc[t] \in GraphLabels
  BY DEF Gone, PoolLabels, GraphLabels, Released
<1>2. t \in Active /\ Entered(t) /\ pc[0] \notin Outside /\ ~Gone(0)
  BY <1>1, AtWork
<1>3. Entered(t)' /\ ~Gone(0)'
  BY <1>1, StaysAtWork DEF PoolLabels
<1>4. plan' = plan /\ nGraph' = nGraph /\ Active' = Active /\ Active \subseteq Threads
      /\ Len(plan.graph) \in Nat
  BY GraphFacts DEF Alone, Active
<1>5. PICK i \in Nat : /\ LoopStretch(i) /\ Work(plan.graph, i, node[t])
                       /\ pc[t] = "convert" <=> plan.graph[node[t]] = "mulmat"
  <2>1. \A i \in Nat : ~ChunkPlace(t, i)
    BY DEF ChunkPlace, AtBarrier, Released, Waits
  <2>2. PICK i \in Nat : LoopStretch(i) /\ LoopPlace(t, i)
    BY <1>1, <2>1, InAStretch
  <2>3. Work(plan.graph, i, node[t]) /\ (pc[t] = "convert" <=> plan.graph[node[t]] = "mulmat")
    BY <1>1, <2>2 DEF LoopPlace, AtBarrier, Released, Waits
  <2> QED
    BY <2>2, <2>3
<1>6. PICK k \in 1..Len(plan.graph) : k = node[t]
  <2>1. node[t] \in Nat /\ i \in 1..Len(plan.graph)
    BY <1>5, GraphFacts DEF LoopStretch
  <2> QED
    BY <1>4, <1>5, <2>1 DEF Work, Skips
<1>7. /\ w = "wdata" => plan.graph[k] = "mulmat"
      /\ w = "share" => Shared(plan.graph, k) /\ plan.graph[k] # "mulmat"
      /\ w \in {"wdata", "share"}
  <2>1. plan.graph[k] \in Kinds /\ plan.graph[k] # "empty"
    BY <1>5, <1>6, GraphFacts DEF Work
  <2>2. ~Covered(plan.graph, k)
    BY <1>2, <1>6 DEF Tracked, Placed
  <2> QED
    BY <1>5, <1>6, <2>1, <2>2 DEF Shared, Kinds
<1>8. <<k, w, t>> \in FirstPhase(plan, k)
  <2>1. \E u \in Active : \/ Shared(plan.graph, k) /\ <<k, w, t>> = <<k, "share", u>>
                          \/ plan.graph[k] = "mulmat" /\ <<k, w, t>> = <<k, "wdata", u>>
    BY <1>2, <1>7
  <2> QED
    BY <1>2, <2>1, TasksOf
<1>9. OwnPart(t) /\ Placed(t) /\ HandedOut(t) /\ OnlyTasks /\ plan.n = nGraph.n
  BY <1>2 DEF Tracked
<1>10. ~Behind(t, k) /\ <<k, "share", t>> \notin done /\ <<k, "wdata", t>> \notin done
  <2>1. ~Behind(t, k)
    BY <1>6 DEF Behind, BarrierLabels
  <2> QED
    BY <1>9, <2>1 DEF OwnPart
<1>11. Behind(t, k)' /\ \A j : j # k => (Behind(t, j)' <=> Behind(t, j))
  BY <1>6 DEF Behind, BarrierLabels
<1>12. OwnPart(t)'
  <2>1. ASSUME NEW j \in 1..Len(plan.graph)
        PROVE  /\ <<j, "share", t>> \in done' <=>
                    Entered(t)' /\ Shared(plan.graph, j) /\ Behind(t, j)'
               /\ <<j, "wdata", t>> \in done' <=>
                    Entered(t)' /\ plan.graph[j] = "mulmat" /\ Behind(t, j)'
    <3>1. CASE j # k
      <4>1. /\ <<j, "share", t>> \in done' <=> <<j, "share", t>> \in done
            /\ <<j, "wdata", t>> \in done' <=> <<j, "wdata", t>> \in done
        BY <1>6, <3>1
      <4> QED
        BY <1>2, <1>3, <1>9, <1>11, <3>1, <4>1 DEF OwnPart
    <3>2. CASE j = k
      <4>1. /\ <<k, "share", t>> \in done' <=> w = "share"
            /\ <<k, "wdata", t>> \in done' <=> w = "wdata"
        BY <1>6, <1>7, <1>10
      <4>2. ~(Shared(plan.graph, k) /\ plan.graph[k] = "mulmat")
        BY DEF Shared
      <4> QED
        BY <1>3, <1>7, <1>11, <3>2, <4>1, <4>2
    <3> QED
      BY <3>1, <3>2
  <2> QED
    BY <1>4, <2>1 DEF OwnPart
<1>13. \A u \in Active : \A j, c : Holds(u, j, c) => Holds(u, j, c)'
  <2>1. \A j, c : ~Holds(t, j, c)
    BY DEF Holds, Opening, Released
  <2>2. \A u \in Active : u # t => \A j, c : Holds(u, j, c) => Holds(u, j, c)'
    BY <1>4 DEF Alone, Holds, Opening, Released
  <2> QED
    BY <2>1, <2>2
<1>14. \A j, c : Given(j, c) => Given(j, c)'
  BY <1>4, <1>13 DEF Given
<1>15. HandedOut(t)'
  <2>1. ~InProduct(t)'
    BY DEF InProduct, Opening, Released
  <2>2. \A j \in 1..Len(plan.graph) : plan.graph[j] = "mulmat" =>
          (Left(t, j)' => Left(t, j)) /\ ~At(t, j)'
    BY <1>2, <1>5, <1>6, <2>1 DEF Left, At
  <2> QED
    BY <1>4, <1>9, <1>14, <2>2 DEF HandedOut
<1>16. Placed(t)'
  BY <1>2, <1>4, <1>9 DEF Placed
<1>17. ASSUME NEW u \in Active, u # t PROVE Placed(u)' /\ OwnPart(u)' /\ HandedOut(u)'
  <2>1. \A j \in 1..Len(plan.graph) :
          /\ <<j, "share", u>> \in done' <=> <<j, "share", u>> \in done
          /\ <<j, "wdata", u>> \in done' <=> <<j, "wdata", u>> \in done
    BY <1>17
  <2> QED
    BY <1>2, <1>14, <1>17, <2>1, OthersTracked
<1>18. OnlyTasks'
  <2>1. \A x \in done' : x \in done \/ x = <<k, w, t>>
    BY <1>6
  <2> QED
    BY <1>4, <1>8, <1>9, <2>1 DEF OnlyTasks
<1>19. Tracked'
  BY <1>3, <1>4, <1>9, <1>12, <1>15, <1>16, <1>17, <1>18 DEF Tracked, WholePhases
<1>20. Abstract!Compute
  <2>1. /\ 2 * k - 1 \in 1..Len(PhasesOf(plan)) /\ 2 * k - 1 \in 1..(2 * Len(plan.graph))
        /\ (2 * k - 1) % 2 = 1 /\ ((2 * k - 1) + 1) \div 2 = k
        /\ (2 * k - 1) - 1 = 2 * (k - 1)
    BY <1>4, PhasesLen
  <2>2. PICK p \in 1..Len(PhasesOf(plan)) : p = 2 * k - 1
    BY <2>1
  <2>3. <<k, w, t>> \in PhasesOf(plan)[p]
    BY <1>8, <2>1, <2>2 DEF PhasesOf
  <2>4. <<k, w, t>> \notin done
    BY <1>7, <1>10
  <2>5. Abstract!Upto(p - 1) \subseteq done
    <3>1. p - 1 = 2 * (k - 1)
      BY <2>1, <2>2
    <3> QED
      BY <1>2, <1>5, <1>6, <3>1, BeforeWork
  <2>6. done' = done \cup {<<k, w, t>>}
    BY <1>6
  <2>7. pc'[0] \notin Outside
    BY <1>2, GraphFacts DEF Alone, Outside
  <2> QED
    BY <1>2, <1>4, <2>2, <2>3, <2>4, <2>5, <2>6, <2>7 DEF Abstract!Compute, Outside
<1> QED
  BY <1>19, <1>20

\* A share of a node, or of the conversion.
LEMMA ComputeShareTracked ==
  ASSUME IInv, Tracked, NEW t \in Threads, ComputeShare(t) \/ Convert(t)
  PROVE  Tracked' /\ Abstract!Compute
<1> USE DEF Goto, barrier, control, local
<1>1. CASE ComputeShare(t)
  <2>1. /\ Alone(t) /\ pc[t] = "compute" /\ pc'[t] = "after"
        /\ done' = done \cup {<<node[t], "share", t>>} /\ node' = node
        /\ UNCHANGED <<lastGraph, currentChunk, abort>>
    BY <1>1 DEF ComputeShare, Alone, IInv, Types
  <2> QED
    BY <2>1, OwnTaskStep
<1>2. CASE Convert(t)
  <2>1. /\ pc[t] = "convert" /\ done' = done \cup {<<node[t], "wdata", t>>} /\ node' = node
        /\ UNCHANGED <<lastGraph, currentChunk, abort>>
    BY <1>2 DEF Convert
  <2>2. Alone(t) /\ (pc'[t] = "resetChunk" \/ (pc'[t] = "barrier" /\ ret'[t] = "firstChunk"))
    <3>1. CASE t = 0
      BY <1>2, <3>1 DEF Convert, Alone, IInv, Types
    <3>2. CASE t # 0
      <4>1. Barrier(t, "firstChunk")
        BY <1>2, <3>2 DEF Convert
      <4>2. Alone(t)
        BY <1>2, <4>1, BarrierGoes DEF Convert, Alone
      <4>3. ~Gone(t) /\ pc[t] \in GraphLabels
        BY <2>1 DEF Gone, PoolLabels, GraphLabels, Released
      <4>4. nGraph.n # 1
        BY <3>2, <4>3, AtWork, ActiveAlone
      <4> QED
        BY <4>1, <4>2, <4>4, BarrierGoes
    <3> QED
      BY <3>1, <3>2
  <2> QED
    BY <2>1, <2>2, OwnTaskStep
<1> QED
  BY <1>1, <1>2

\* The counter of chunks is set to the first that is nobody's.
LEMMA ResetChunkTracked ==
  ASSUME IInv, Tracked, ResetChunk
  PROVE  Tracked'
<1> USE DEF ResetChunk, barrier, control, local
<1>1. 0 \in Threads /\ pc[0] = "resetChunk" /\ Barrier(0, "firstChunk") /\ currentChunk' = nGraph.n
  BY GraphFacts
<1>2. /\ Alone(0) /\ UNCHANGED <<node, lastGraph, done, abort>>
      /\ pc'[0] = "barrier" => ret'[0] = "firstChunk"
      /\ pc'[0] = "firstChunk" => nGraph.n = 1
      /\ pc'[0] \in {"barrier", "firstChunk"}
  BY <1>1, BarrierGoes DEF Alone
<1>3. ~Gone(0) /\ pc[0] \in GraphLabels
  BY <1>1 DEF Gone, PoolLabels, GraphLabels, Released
<1>4. 0 \in Active /\ Entered(0) /\ pc[0] \notin Outside
  BY <1>1, <1>3, AtWork
<1>5. Entered(0)' /\ ~Gone(0)'
  BY <1>1, <1>2, <1>3, StaysAtWork DEF PoolLabels
<1>6. plan' = plan /\ nGraph' = nGraph /\ Active' = Active /\ Active \subseteq Threads
  BY <1>2 DEF Alone, Active
<1>7. PICK i \in Nat : LoopStretch(i)
  <2>1. \A i \in Nat : ~ChunkPlace(0, i)
    BY <1>1 DEF ChunkPlace, AtBarrier, Released, Waits
  <2> QED
    BY <1>1, <1>3, <2>1, InAStretch
<1>8. ASSUME NEW u \in Active PROVE ~(Entered(u) /\ InProduct(u)) /\ \A j, c : ~Holds(u, j, c)
  <2>1. LoopPlace(u, i)
    BY <1>7, <1>8 DEF LoopStretch
  <2>2. pc[u] \notin {"chunk", "fetchChunk"} /\ ~Opening(u)
    BY <2>1 DEF LoopPlace, Opening, AtBarrier, Waits, Released, Gone, PoolLabels, IInv, Types, Active
  <2> QED
    BY <2>2 DEF InProduct, Holds
<1>9. \A j, c : Given(j, c) => Given(j, c)'
  BY <1>2, <1>8 DEF Given
<1>10. OwnPart(0) /\ Placed(0) /\ HandedOut(0) /\ OnlyTasks /\ plan.n = nGraph.n
  BY <1>4 DEF Tracked
<1>11. \A j : Behind(0, j)' <=> Behind(0, j)
  BY <1>1, <1>2 DEF Behind, BarrierLabels
<1>12. OwnPart(0)'
  BY <1>2, <1>4, <1>5, <1>6, <1>10, <1>11 DEF OwnPart
<1>13. Placed(0)'
  BY <1>2, <1>4, <1>6, <1>10 DEF Placed
<1>14. HandedOut(0)'
  <2>1. ASSUME NEW j, At(0, j)', NEW c \in Nat, c < currentChunk' PROVE Given(j, c)'
    <3>1. pc'[0] = "firstChunk" /\ node'[0] = j
      BY <1>2, <2>1 DEF At, InProduct, Opening, Released
    <3>2. c = 0
      BY <1>1, <1>2, <2>1, <3>1
    <3>3. Holds(0, j, 0)'
      BY <3>1 DEF Holds, Opening
    <3> QED
      BY <1>4, <1>6, <3>2, <3>3 DEF Given
  <2>2. \A j : Left(0, j)' => Left(0, j)
    BY <1>2, <1>4 DEF Left
  <2>3. plan.n \in 1..N /\ N \in Nat
    BY PlanFacts, PoolAssumption DEF IInv, Types
  <2>4. ChunksFor(plan.n) \in Nat
    BY <2>3, ChunksForFacts
  <2> QED
    BY <1>6, <1>9, <1>10, <2>1, <2>2, <2>4 DEF HandedOut
<1>15. ASSUME NEW u \in Active, u # 0 PROVE Placed(u)' /\ OwnPart(u)' /\ HandedOut(u)'
  <2>1. \A j : ~At(u, j)
    BY <1>8 DEF At
  <2> QED
    BY <1>1, <1>2, <1>4, <1>9, <1>15, <2>1, OthersTracked
<1>16. OnlyTasks'
  BY <1>2, <1>6, <1>10 DEF OnlyTasks
<1> QED
  BY <1>5, <1>6, <1>10, <1>12, <1>13, <1>14, <1>15, <1>16 DEF Tracked, WholePhases

\* All threads are in the product.
LEMMA AllInProduct ==
  ASSUME IInv, NEW i \in Nat, ChunkStretch(i), NEW u \in Active
  PROVE  /\ Entered(u) /\ i <= node[u] /\ Behind(u, i)
         /\ InProduct(u) => node[u] = i
<1>1. Here(u) /\ ChunkPlace(u, i) /\ i \in Nat
  BY DEF ChunkStretch
<1>2. pc[u] # "start"
  BY <1>1 DEF ChunkPlace, AtBarrier, Waits, Released
<1>3. node[u] = i \/ node[u] = i + 1
  BY <1>1 DEF ChunkPlace, ChunkExit
<1>4. Behind(u, i)
  BY <1>1 DEF ChunkPlace, ChunkExit, Behind, Released, BarrierLabels
<1>5. InProduct(u) => node[u] = i
  BY <1>1 DEF ChunkPlace, InProduct, Opening, AtBarrier, Waits, Released, IInv, Types, Active
<1>6. i <= i /\ i <= i + 1
  OBVIOUS
<1> QED
  BY <1>1, <1>2, <1>3, <1>4, <1>5, <1>6 DEF Entered

\* All phases before the chunks of node i are done.
LEMMA BeforeChunks ==
  ASSUME IInv, Tracked, pc[0] \notin Outside, NEW i \in Nat, ChunkStretch(i)
  PROVE  Abstract!Upto(2 * i - 1) \subseteq done
<1>1. Len(plan.graph) \in Nat /\ i \in 1..Len(plan.graph)
  BY GraphFacts DEF ChunkStretch
<1>2. \A u \in Active : Entered(u) /\ i <= node[u] /\ Behind(u, i) /\ node[u] \in Nat
  BY AllInProduct, GraphFacts DEF Active
<1>3. ASSUME NEW x, x \in Abstract!Upto(2 * i - 1) PROVE x \in done
  <2>1. CASE x \in Abstract!Upto(2 * (i - 1))
    <3>1. PICK j \in 1..(i - 1) : x \in FirstPhase(plan, j) \/ x \in SecondPhase(plan, j)
      BY <1>1, <2>1, UptoNode
    <3>2. j \in 1..Len(plan.graph) /\ j < i
      BY <1>1
    <3>3. \A u \in Active : Entered(u) /\ j < node[u]
      BY <1>2, <3>2
    <3> QED
      BY <3>1, <3>2, <3>3, BehindAll
  <2>2. CASE x \in FirstPhase(plan, i)
    <3>1. PICK t \in Active : \/ Shared(plan.graph, i) /\ x = <<i, "share", t>>
                              \/ plan.graph[i] = "mulmat" /\ x = <<i, "wdata", t>>
      BY <1>1, <2>2, TasksOf
    <3>2. OwnPart(t)
      BY DEF Tracked
    <3> QED
      BY <1>1, <1>2, <3>1, <3>2 DEF OwnPart
  <2> QED
    BY <1>1, <1>3, <2>1, <2>2, UptoFirst
<1> QED
  BY <1>3

\* A chunk of a product is computed.
LEMMA ComputeChunkTracked ==
  ASSUME IInv, Tracked, NEW t \in Threads, ComputeChunk(t)
  PROVE  Tracked' /\ Abstract!Compute
<1> USE DEF ComputeChunk, Goto, barrier, control, local
<1>1. /\ pc[t] = "chunk" /\ done' = done \cup {<<node[t], "chunk", chunk[t]>>}
      /\ pc'[t] = (IF nGraph.n >= ChunksFor(nGraph.n) THEN "after" ELSE "fetchChunk")
      /\ Alone(t) /\ UNCHANGED <<node, chunk, lastGraph, currentChunk, abort>>
  BY DEF Alone, IInv, Types
<1>2. ~Gone(t) /\ pc[t] \in GraphLabels /\ pc'[t] \in {"after", "fetchChunk"}
  BY <1>1 DEF Gone, PoolLabels, GraphLabels, Released
<1>3. t \in Active /\ Entered(t) /\ pc[0] \notin Outside /\ ~Gone(0)
  BY <1>2, AtWork
<1>4. Entered(t)' /\ ~Gone(0)'
  BY <1>1, <1>2, StaysAtWork DEF PoolLabels
<1>5. plan' = plan /\ nGraph' = nGraph /\ Active' = Active /\ Active \subseteq Threads
      /\ Len(plan.graph) \in Nat
  BY <1>1, GraphFacts DEF Alone, Active
<1>6. OwnPart(t) /\ Placed(t) /\ HandedOut(t) /\ OnlyTasks /\ plan.n = nGraph.n
  BY <1>3 DEF Tracked
<1>7. PICK i \in Nat : ChunkStretch(i) /\ node[t] = i
  BY <1>1, AtChunk
<1>8. i \in 1..Len(plan.graph) /\ plan.graph[i] = "mulmat"
  BY <1>7 DEF ChunkStretch
<1>9. PICK c \in 0..(ChunksFor(plan.n) - 1) : c = chunk[t]
  <2>1. plan.n \in Nat \ {0} /\ chunk[t] \in Nat
    BY PlanFacts, PoolAssumption DEF IInv, Types
  <2>2. ChunksFor(plan.n) \in Nat
    BY <2>1, ChunksForFacts
  <2>3. chunk[t] < ChunksFor(plan.n)
    BY <1>1, <1>3, <1>6 DEF Placed
  <2> QED
    BY <2>1, <2>2, <2>3
<1>10. <<i, "chunk", c>> \in SecondPhase(plan, i)
  BY <1>3, <1>8, TasksOf
<1>11. <<i, "chunk", c>> \notin done /\ nGraph.n <= currentChunk
  BY <1>1, <1>3, <1>7, <1>9 DEF ChunkStretch, ChunksGiven
<1>12. \A j, d : Given(j, d) => Given(j, d)'
  <2>1. \A j, d : Holds(t, j, d) => <<j, "chunk", d>> \in done'
    BY <1>1 DEF Holds, Opening, Released
  <2>2. \A u \in Active : u # t => \A j, d : Holds(u, j, d) => Holds(u, j, d)'
    BY <1>1, <1>5 DEF Alone, Holds, Opening, Released
  <2> QED
    BY <1>1, <1>5, <2>1, <2>2 DEF Given
<1>13. \A j : Behind(t, j)' <=> Behind(t, j)
  BY <1>1, <1>2 DEF Behind
<1>14. OwnPart(t)'
  <2>1. \A j : /\ <<j, "share", t>> \in done' <=> <<j, "share", t>> \in done
               /\ <<j, "wdata", t>> \in done' <=> <<j, "wdata", t>> \in done
    BY <1>1
  <2> QED
    BY <1>3, <1>4, <1>5, <1>6, <1>13, <2>1 DEF OwnPart
<1>15. Placed(t)'
  BY <1>1, <1>2, <1>3, <1>5, <1>6 DEF Placed
<1>16. HandedOut(t)'
  <2>1. \A j : At(t, j)' => At(t, j)
    BY <1>1, <1>3 DEF At, InProduct
  <2>2. ASSUME NEW j, Left(t, j)', ~Left(t, j)
        PROVE  At(t, j) /\ ChunksFor(plan.n) <= plan.n
    <3>1. pc'[t] = "after" /\ j = node[t]
      BY <1>1, <1>3, <2>2 DEF Left
    <3>2. ~(plan.n >= ChunksFor(plan.n)) => pc'[t] = "fetchChunk"
      BY <1>1, <1>6
    <3>3. plan.n \in Nat \ {0}
      BY PlanFacts, PoolAssumption DEF IInv, Types
    <3>4. ChunksFor(plan.n) \in Nat
      BY <3>3, ChunksForFacts
    <3> QED
      BY <1>1, <1>3, <3>1, <3>2, <3>3, <3>4 DEF At, InProduct
  <2>3. ASSUME NEW j \in 1..Len(plan.graph), NEW d \in 0..(ChunksFor(plan.n) - 1),
               plan.graph[j] = "mulmat", Left(t, j)'
        PROVE  Given(j, d)'
    <3>1. CASE Left(t, j)
      BY <1>6, <1>12, <2>3, <3>1 DEF HandedOut
    <3>2. CASE ~Left(t, j)
      <4>1. At(t, j) /\ ChunksFor(plan.n) <= plan.n
        BY <2>2, <2>3, <3>2
      <4>2. plan.n \in Nat \ {0} /\ currentChunk \in Nat /\ plan.n <= currentChunk
        BY <1>6, <1>11, PlanFacts, PoolAssumption DEF IInv, Types
      <4>3. d < currentChunk
        <5>1. ChunksFor(plan.n) \in Nat
          BY <4>2, ChunksForFacts
        <5> QED
          BY <4>1, <4>2, <5>1
      <4>4. Given(j, d)
        BY <1>6, <2>3, <4>1, <4>3 DEF HandedOut
      <4> QED
        BY <1>12, <4>4
    <3> QED
      BY <3>1, <3>2
  <2>4. ASSUME NEW j \in 1..Len(plan.graph), NEW d \in 0..(ChunksFor(plan.n) - 1),
               plan.graph[j] = "mulmat", At(t, j)', d < currentChunk
        PROVE  Given(j, d)'
    <3>1. Given(j, d)
      BY <1>6, <2>1, <2>4 DEF HandedOut
    <3> QED
      BY <1>12, <3>1
  <2> QED
    BY <1>1, <1>5, <2>3, <2>4 DEF HandedOut
<1>17. ASSUME NEW u \in Active, u # t PROVE Placed(u)' /\ OwnPart(u)' /\ HandedOut(u)'
  <2>1. \A j : /\ <<j, "share", u>> \in done' <=> <<j, "share", u>> \in done
               /\ <<j, "wdata", u>> \in done' <=> <<j, "wdata", u>> \in done
    BY <1>1
  <2> QED
    BY <1>1, <1>3, <1>12, <1>17, <2>1, OthersTracked
<1>18. OnlyTasks'
  <2>1. \A x \in done' : x \in done \/ x = <<i, "chunk", c>>
    BY <1>1, <1>7, <1>9
  <2> QED
    BY <1>5, <1>6, <1>8, <1>10, <2>1 DEF OnlyTasks
<1>19. Tracked'
  BY <1>4, <1>5, <1>6, <1>14, <1>15, <1>16, <1>17, <1>18 DEF Tracked, WholePhases
<1>20. Abstract!Compute
  <2>1. /\ 2 * i \in 1..Len(PhasesOf(plan)) /\ 2 * i \in 1..(2 * Len(plan.graph))
        /\ (2 * i) % 2 # 1 /\ (2 * i) \div 2 = i
    BY <1>5, <1>8, PhasesLen
  <2>2. PICK p \in 1..Len(PhasesOf(plan)) : p = 2 * i
    BY <2>1
  <2>3. <<i, "chunk", c>> \in PhasesOf(plan)[p]
    BY <1>10, <2>1, <2>2 DEF PhasesOf
  <2>4. Abstract!Upto(p - 1) \subseteq done
    BY <1>3, <1>7, <2>2, BeforeChunks
  <2>5. done' = done \cup {<<i, "chunk", c>>}
    BY <1>1, <1>7, <1>9
  <2>6. pc'[0] \notin Outside
    BY <1>1, <1>2, <1>3, GraphFacts DEF Alone, Outside
  <2> QED
    BY <1>1, <1>3, <1>5, <1>11, <2>2, <2>3, <2>4, <2>5, <2>6 DEF Abstract!Compute, Outside
<1> QED
  BY <1>19, <1>20

\* The next chunk is taken.
LEMMA FetchChunkTracked ==
  ASSUME IInv, Tracked, NEW t \in Threads, FetchChunk(t)
  PROVE  Tracked'
<1> USE DEF FetchChunk, Chunk, Goto, barrier, control, local
<1>1. /\ pc[t] = "fetchChunk" /\ chunk'[t] = currentChunk
      /\ pc'[t] = (IF currentChunk < ChunksFor(nGraph.n) THEN "chunk" ELSE "after")
      /\ currentChunk \in Nat /\ currentChunk' = currentChunk + 1
      /\ Alone(t) /\ UNCHANGED <<node, lastGraph, done, abort>>
  BY DEF Alone, IInv, Types
<1>2. ~Gone(t) /\ pc[t] \in GraphLabels /\ pc'[t] \in {"chunk", "after"}
  BY <1>1 DEF Gone, PoolLabels, GraphLabels, Released
<1>3. t \in Active /\ Entered(t) /\ pc[0] \notin Outside /\ ~Gone(0)
  BY <1>2, AtWork
<1>4. Entered(t)' /\ ~Gone(0)'
  BY <1>1, <1>2, StaysAtWork DEF PoolLabels
<1>5. plan' = plan /\ nGraph' = nGraph /\ Active' = Active /\ Active \subseteq Threads
      /\ Len(plan.graph) \in Nat
  BY <1>1, GraphFacts DEF Alone, Active
<1>6. OwnPart(t) /\ Placed(t) /\ HandedOut(t) /\ OnlyTasks /\ plan.n = nGraph.n
  BY <1>3 DEF Tracked
<1>7. PICK i \in Nat : ChunkStretch(i) /\ node[t] = i
  BY <1>1, AtChunk
<1>8. ChunksFor(plan.n) \in Nat
  <2>1. plan.n \in Nat \ {0}
    BY PlanFacts, PoolAssumption DEF IInv, Types
  <2> QED
    BY <2>1, ChunksForFacts
<1>9. \A j, d : Given(j, d) => Given(j, d)'
  <2>1. \A j, d : ~Holds(t, j, d)
    BY <1>1 DEF Holds, Opening, Released
  <2>2. \A u \in Active : u # t => \A j, d : Holds(u, j, d) => Holds(u, j, d)'
    BY <1>1, <1>5 DEF Alone, Holds, Opening, Released
  <2> QED
    BY <1>1, <1>5, <2>1, <2>2 DEF Given
<1>10. PICK q \in Nat : q = currentChunk
  BY <1>1
<1>11. q < ChunksFor(plan.n) => Given(i, q)'
  <2>1. q < ChunksFor(plan.n) => Holds(t, i, q)'
    BY <1>1, <1>6, <1>7, <1>10 DEF Holds
  <2>2. ASSUME q < ChunksFor(plan.n)
        PROVE  \E u \in Active' : Holds(u, i, q)'
    BY <1>3, <1>5, <2>1, <2>2
  <2> QED
    BY <2>2 DEF Given
<1>12. \A u \in Active : \A j : At(u, j) => j = i
  BY <1>7, AllInProduct DEF At
<1>13. ASSUME NEW u \in Active, NEW j, At(u, j), NEW d \in 0..(ChunksFor(plan.n) - 1),
              d < currentChunk'
       PROVE  d < currentChunk \/ Given(j, d)'
  <2>1. d < currentChunk \/ d = currentChunk
    BY <1>1, <1>8, <1>13
  <2>2. CASE d = currentChunk
    <3>1. j = i /\ q < ChunksFor(plan.n) /\ d = q
      BY <1>8, <1>10, <1>12, <1>13, <2>2
    <3> QED
      BY <1>11, <3>1
  <2> QED
    BY <2>1, <2>2
<1>14. OwnPart(t)'
  <2>1. \A j : Behind(t, j)' <=> Behind(t, j)
    BY <1>1, <1>2 DEF Behind
  <2> QED
    BY <1>1, <1>3, <1>4, <1>5, <1>6, <2>1 DEF OwnPart
<1>15. Placed(t)'
  BY <1>1, <1>2, <1>3, <1>5, <1>6 DEF Placed
<1>16. HandedOut(t)'
  <2>1. \A j : At(t, j)' => At(t, j)
    BY <1>1, <1>3 DEF At, InProduct, Opening, Released
  <2>2. ASSUME NEW j, Left(t, j)', ~Left(t, j)
        PROVE  At(t, j) /\ ChunksFor(plan.n) <= currentChunk
    <3>1. pc'[t] = "after" /\ j = node[t]
      BY <1>1, <1>3, <2>2 DEF Left
    <3> QED
      BY <1>1, <1>3, <1>6, <1>8, <3>1 DEF At, InProduct
  <2>3. ASSUME NEW j \in 1..Len(plan.graph), NEW d \in 0..(ChunksFor(plan.n) - 1),
               plan.graph[j] = "mulmat", Left(t, j)'
        PROVE  Given(j, d)'
    <3>1. CASE Left(t, j)
      BY <1>6, <1>9, <2>3, <3>1 DEF HandedOut
    <3>2. CASE ~Left(t, j)
      <4>1. At(t, j) /\ ChunksFor(plan.n) <= currentChunk
        BY <2>2, <2>3, <3>2
      <4>2. d < currentChunk
        BY <1>1, <1>8, <4>1
      <4>3. Given(j, d)
        BY <1>6, <2>3, <4>1, <4>2 DEF HandedOut
      <4> QED
        BY <1>9, <4>3
    <3> QED
      BY <3>1, <3>2
  <2>4. ASSUME NEW j \in 1..Len(plan.graph), NEW d \in 0..(ChunksFor(plan.n) - 1),
               plan.graph[j] = "mulmat", At(t, j)', d < currentChunk'
        PROVE  Given(j, d)'
    <3>1. At(t, j)
      BY <2>1, <2>4
    <3>2. d < currentChunk \/ Given(j, d)'
      BY <1>3, <1>13, <2>4, <3>1
    <3>3. d < currentChunk => Given(j, d)
      BY <1>6, <2>4, <3>1 DEF HandedOut
    <3> QED
      BY <1>9, <3>2, <3>3
  <2> QED
    BY <1>5, <2>3, <2>4 DEF HandedOut
<1>17. ASSUME NEW u \in Active, u # t PROVE Placed(u)' /\ OwnPart(u)' /\ HandedOut(u)'
  BY <1>1, <1>3, <1>9, <1>13, <1>17, OthersTracked
<1>18. OnlyTasks'
  BY <1>1, <1>5, <1>6 DEF OnlyTasks
<1> QED
  BY <1>4, <1>5, <1>6, <1>14, <1>15, <1>16, <1>17, <1>18 DEF Tracked, WholePhases

-----------------------------------------------------------------------------
(* The release of the barrier.                                             *)

\* All threads of the graph are at the barrier, on the way out of a stretch.
LEMMA AllAtBarrier ==
  ASSUME IInv, NEW t \in Threads, pc[t] = "release"
  PROVE  /\ t \in Active /\ pc[0] \notin Outside
         /\ \A u \in Active \ {t} : Waits(u)
         /\ \A u \in Active : Entered(u) /\ ~Opening(u) /\ ~InProduct(u)
         /\ \/ \E i \in Nat : LoopStretch(i) /\ \A u \in Active : LoopExit(u, i)
            \/ \E i \in Nat : ChunkStretch(i) /\ \A u \in Active : ChunkExit(u, i)
<1>1. ~Gone(t) /\ pc[t] \in GraphLabels
  BY DEF Gone, PoolLabels, GraphLabels, Released
<1>2. /\ t \in Active /\ pc[0] \notin Outside
      /\ \/ \E i \in Nat : LoopStretch(i) /\ LoopPlace(t, i)
         \/ \E i \in Nat : ChunkStretch(i) /\ ChunkPlace(t, i)
  BY <1>1, InAStretch
<1>3. \A u \in Active \ {t} : Waits(u)
  BY DEF IInv, Gathered
<1>4. Active \subseteq Threads
  BY DEF Active
<1>5. \A u \in Active : AtBarrier(u) /\ ~Released(u) /\ ~Gone(u) /\ pc[u] \in {"release", "spin"}
  BY <1>1, <1>3, <1>4 DEF AtBarrier, Waits, Released, Gone, PoolLabels, IInv, Types
<1>6. \A u \in Active : Entered(u)
  BY <1>4, <1>5, AtWork DEF GraphLabels
<1>7. \A u \in Active : ~Opening(u) /\ ~InProduct(u)
  BY <1>5 DEF Opening, InProduct
<1>8. ASSUME NEW i \in Nat, LoopStretch(i), NEW u \in Active PROVE LoopExit(u, i)
  <2>1. LoopPlace(u, i)
    BY <1>8 DEF LoopStretch
  <2> QED
    BY <1>5, <2>1 DEF LoopPlace
<1>9. ASSUME NEW i \in Nat, ChunkStretch(i), NEW u \in Active PROVE ChunkExit(u, i)
  <2>1. ChunkPlace(u, i)
    BY <1>9 DEF ChunkStretch
  <2> QED
    BY <1>5, <2>1 DEF ChunkPlace
<1> QED
  BY <1>2, <1>3, <1>6, <1>7, <1>8, <1>9

\* When the barrier lets all go to their first chunk, each is given its own.
LEMMA FirstChunksGiven ==
  ASSUME IInv, Tracked, NEW t \in Threads, Release(t), NEW u \in Active, NEW j, At(u, j)',
         NEW c \in Nat, c < currentChunk
  PROVE  Given(j, c)'
<1> USE DEF Release, Goto, barrier, control, local
<1>1. /\ t \in Active /\ \A v \in Active \ {t} : Waits(v)
      /\ \/ \E i \in Nat : LoopStretch(i) /\ \A v \in Active : LoopExit(v, i)
         \/ \E i \in Nat : ChunkStretch(i) /\ \A v \in Active : ChunkExit(v, i)
  BY AllAtBarrier
<1>2. /\ Active' = Active /\ Active \subseteq Threads /\ 0 \in Active
      /\ node' = node /\ ret' = ret /\ pc' = [pc EXCEPT ![t] = ret[t]]
      /\ pc'[t] = ret[t] /\ \A v \in Threads : v # t => pc'[v] = pc[v]
  BY GraphFacts DEF Active, IInv, Types
<1>3. \A v \in Active \ {t} : Released(v)' /\ pc'[v] = "spin"
  BY <1>1, <1>2 DEF Waits, Released, IInv, Types
<1>4. ret[u] = "firstChunk" /\ node[u] = j
  <2>1. node[u] = j /\ InProduct(u)'
    BY <1>2 DEF At
  <2>2. CASE u = t
    BY <1>2, <2>1, <2>2 DEF InProduct, Opening, Released, IInv, Types
  <2>3. CASE u # t
    BY <1>2, <1>3, <2>1, <2>3 DEF InProduct, Opening
  <2> QED
    BY <2>1, <2>2, <2>3
<1>5. PICK i \in Nat : LoopStretch(i) /\ \A v \in Active : LoopExit(v, i)
  <2>1. \A i \in Nat : ~ChunkExit(u, i)
    BY <1>4 DEF ChunkExit
  <2> QED
    BY <1>1, <2>1
<1>6. \A v \in Active : ret[v] = "firstChunk" /\ node[v] = j
  <2>1. \A v \in Active : ret[v] = ret[u] /\ (ret[u] # "finished" => node[v] = node[u])
    BY <1>2, <1>5, LoopExitsAgree
  <2> QED
    BY <1>4, <2>1
<1>7. currentChunk = nGraph.n
  BY <1>2, <1>5, <1>6 DEF LoopExit
<1>8. c \in Active
  <2>1. nGraph.n \in 0..N /\ c < nGraph.n
    BY <1>7 DEF IInv, Types, Graphs
  <2> QED
    BY <2>1, PoolAssumption DEF Active, Threads
<1>9. Opening(c)'
  BY <1>2, <1>3, <1>6, <1>8 DEF Opening
<1>10. Holds(c, j, c)'
  BY <1>2, <1>6, <1>8, <1>9 DEF Holds
<1> QED
  BY <1>2, <1>8, <1>10 DEF Given

\* When it lets all go back to the pool, a whole number of phases is done.
LEMMA LeftByRelease ==
  ASSUME IInv, Tracked, NEW t \in Threads, Release(t), Gone(0)'
  PROVE  WholePhases'
<1> USE DEF Release, Goto, barrier, control, local
<1>1. /\ t \in Active /\ pc[0] \notin Outside /\ \A u \in Active \ {t} : Waits(u)
      /\ \A u \in Active : Entered(u) /\ ~Opening(u)
      /\ \/ \E i \in Nat : LoopStretch(i) /\ \A u \in Active : LoopExit(u, i)
         \/ \E i \in Nat : ChunkStretch(i) /\ \A u \in Active : ChunkExit(u, i)
  BY AllAtBarrier
<1>2. /\ Active \subseteq Threads /\ 0 \in Active /\ Len(plan.graph) \in Nat /\ abort \in Int
      /\ \A u \in Active : node[u] \in Nat
      /\ UNCHANGED <<done, plan, abort>>
  BY GraphFacts DEF Active
<1>3. ret[0] = "finished"
  <2>1. CASE t = 0
    <3>1. pc'[0] = ret[0] /\ ret[0] \in {"none", "loop", "firstChunk", "finished"}
      BY <1>2, <2>1 DEF IInv, Types
    <3> QED
      BY <3>1 DEF Gone, PoolLabels, Released
  <2>2. CASE t # 0
    <3>1. pc'[0] = "spin" /\ ret'[0] = ret[0]
      BY <1>1, <1>2, <2>2 DEF Waits, IInv, Types
    <3> QED
      BY <3>1 DEF Gone, PoolLabels
  <2> QED
    BY <2>1, <2>2
<1>4. \A u \in Active : pc[u] \in {"release", "spin"}
  BY <1>1 DEF Waits
<1>5. ASSUME NEW u \in Active, ret[u] = "finished", NEW j, Behind(u, j)
      PROVE  j < node[u]
  BY <1>4, <1>5 DEF Behind
<1>6. ASSUME NEW i \in Nat, LoopStretch(i), \A u \in Active : LoopExit(u, i)
      PROVE  WholePhases'
  <2>1. \A u \in Active : ret[u] = "finished"
    BY <1>2, <1>3, <1>6, LoopExitsAgree
  <2>2. /\ i \in 1..Len(plan.graph)
        /\ \A j, c \in Nat : <<j, "chunk", c>> \in done => j < i
    BY <1>6 DEF LoopStretch
  <2>3. CASE abort = i - 1
    <3>1. \A u \in Active : node[u] = i
      BY <1>6, <2>1, <2>3 DEF LoopExit
    <3>2. PICK m \in 1..(Len(plan.graph) + 1) : m = i
      BY <1>2, <2>2
    <3>3. \A u \in Active :
            /\ Entered(u)
            /\ node[u] = m \/ (m = Len(plan.graph) + 1 /\ node[u] > Len(plan.graph))
            /\ \A j \in 1..Len(plan.graph) : Behind(u, j) => j < node[u]
      BY <1>1, <1>5, <2>1, <3>1, <3>2
    <3>4. m <= Len(plan.graph) => abort = m - 1
      BY <2>3, <3>2
    <3>5. \A j, c \in Nat : <<j, "chunk", c>> \in done => j < m
      BY <2>2, <3>2
    <3> QED
      BY <1>1, <1>2, <3>3, <3>4, <3>5, LeftTogether
  <2>4. CASE abort # i - 1
    <3>1. \A u \in Active : node[u] > Len(plan.graph)
      BY <1>6, <2>1, <2>4 DEF LoopExit
    <3>2. PICK m \in 1..(Len(plan.graph) + 1) : m = Len(plan.graph) + 1
      BY <1>2
    <3>3. \A u \in Active :
            /\ Entered(u)
            /\ node[u] = m \/ (m = Len(plan.graph) + 1 /\ node[u] > Len(plan.graph))
            /\ \A j \in 1..Len(plan.graph) : Behind(u, j) => j < node[u]
      BY <1>1, <1>5, <2>1, <3>1, <3>2
    <3>4. ~(m <= Len(plan.graph)) /\ i < m
      BY <1>2, <2>2, <3>2
    <3>5. \A j, c \in Nat : <<j, "chunk", c>> \in done => j < m
      BY <1>2, <2>2, <3>4
    <3> QED
      BY <1>1, <1>2, <3>3, <3>4, <3>5, LeftTogether
  <2> QED
    BY <2>3, <2>4
<1>7. ASSUME NEW i \in Nat, ChunkStretch(i), \A u \in Active : ChunkExit(u, i)
      PROVE  WholePhases'
  <2>1. i = Len(plan.graph)
    BY <1>2, <1>3, <1>7 DEF ChunkExit
  <2>2. \A u \in Active : ret[u] = "finished" /\ node[u] = i + 1
    BY <1>2, <1>7, <2>1 DEF ChunkExit
  <2>3. PICK m \in 1..(Len(plan.graph) + 1) : m = Len(plan.graph) + 1
    BY <1>2
  <2>4. \A u \in Active :
          /\ Entered(u)
          /\ node[u] = m \/ (m = Len(plan.graph) + 1 /\ node[u] > Len(plan.graph))
          /\ \A j \in 1..Len(plan.graph) : Behind(u, j) => j < node[u]
    BY <1>1, <1>5, <2>1, <2>2, <2>3
  <2>5. ~(m <= Len(plan.graph))
    BY <1>2, <2>3
  <2>6. \A j, c \in Nat : <<j, "chunk", c>> \in done => j < m
    <3>1. \A j, c \in Nat : <<j, "chunk", c>> \in done => j <= i
      BY <1>7 DEF ChunkStretch, ChunksGiven
    <3> QED
      BY <1>2, <2>1, <2>3, <3>1
  <2> QED
    BY <1>1, <1>2, <2>4, <2>5, <2>6, LeftTogether
<1> QED
  BY <1>1, <1>6, <1>7

\* All threads of the graph are let go.
LEMMA ReleaseTracked ==
  ASSUME IInv, Tracked, NEW t \in Threads, Release(t)
  PROVE  Tracked'
<1> USE DEF Release, Goto, barrier, control, local
<1>1. /\ t \in Active /\ pc[0] \notin Outside /\ \A u \in Active \ {t} : Waits(u)
      /\ \A u \in Active : Entered(u) /\ ~Opening(u) /\ ~InProduct(u)
      /\ \/ \E i \in Nat : LoopStretch(i) /\ \A u \in Active : LoopExit(u, i)
         \/ \E i \in Nat : ChunkStretch(i) /\ \A u \in Active : ChunkExit(u, i)
  BY AllAtBarrier
<1>2. /\ Active' = Active /\ Active \subseteq Threads
      /\ UNCHANGED <<node, ret, lastGraph, nGraph, plan, done, currentChunk, abort>>
      /\ pc[t] = "release" /\ pc'[t] = ret[t] /\ \A u \in Threads : u # t => pc'[u] = pc[u]
  BY DEF Active, IInv, Types
<1>3. ret[t] \in {"loop", "firstChunk", "finished"}
  BY <1>1 DEF LoopExit, ChunkExit
<1>4. \A u \in Active : u # t => pc[u] = "spin"
  BY <1>1 DEF Waits
<1>5. \A u \in Active : Entered(u)' /\ pc'[u] \notin {"chunk", "after"}
  BY <1>1, <1>2, <1>3, <1>4 DEF Entered, Here
<1>6. ASSUME NEW u \in Active, NEW j PROVE Behind(u, j)' <=> Behind(u, j)
  <2>1. CASE u = t
    BY <1>2, <1>3, <2>1 DEF Behind, BarrierLabels
  <2>2. CASE u # t
    BY <1>2, <1>4, <2>2 DEF Behind, BarrierLabels
  <2> QED
    BY <2>1, <2>2
<1>7. \A j, c : Given(j, c) => Given(j, c)'
  <2>1. \A u \in Active : \A j, c : ~Holds(u, j, c)
    BY <1>1 DEF Holds, InProduct
  <2> QED
    BY <1>2, <2>1 DEF Given
<1>8. ChunksFor(plan.n) \in Nat
  <2>1. plan.n \in Nat \ {0}
    BY PlanFacts, PoolAssumption DEF IInv, Types
  <2> QED
    BY <2>1, ChunksForFacts
<1>9. ASSUME NEW u \in Active PROVE Placed(u)' /\ OwnPart(u)' /\ HandedOut(u)'
  <2>1. Placed(u) /\ OwnPart(u) /\ HandedOut(u)
    BY <1>1 DEF Tracked
  <2>2. Placed(u)'
    BY <1>1, <1>2, <1>5, <2>1 DEF Placed
  <2>3. OwnPart(u)'
    BY <1>1, <1>2, <1>5, <1>6, <2>1 DEF OwnPart
  <2>4. \A j : Left(u, j)' => Left(u, j)
    BY <1>1, <1>2, <1>5 DEF Left
  <2>5. \A j, c \in Nat : At(u, j)' /\ c < currentChunk => Given(j, c)'
    BY FirstChunksGiven
  <2>6. ASSUME NEW j \in 1..Len(plan.graph), NEW c \in 0..(ChunksFor(plan.n) - 1),
               plan.graph[j] = "mulmat"
        PROVE  /\ Left(u, j)' => Given(j, c)'
               /\ At(u, j)' /\ c < currentChunk => Given(j, c)'
    <3>1. Left(u, j) => Given(j, c)
      BY <2>1, <2>6 DEF HandedOut
    <3> QED
      BY <1>7, <1>8, <2>4, <2>5, <3>1
  <2>7. HandedOut(u)'
    BY <1>2, <2>6 DEF HandedOut
  <2> QED
    BY <2>2, <2>3, <2>7
<1>10. OnlyTasks' /\ plan'.n = nGraph'.n
  BY <1>1, <1>2 DEF Tracked, OnlyTasks
<1>11. WholePhases'
  <2>1. CASE Gone(0)'
    BY <2>1, LeftByRelease
  <2>2. CASE ~Gone(0)'
    BY <2>2 DEF WholePhases
  <2> QED
    BY <2>1, <2>2
<1> QED
  BY <1>2, <1>9, <1>10, <1>11 DEF Tracked

-----------------------------------------------------------------------------
(* The caller, and all together.                                           *)

\* A graph is published: nobody but the caller has begun with it.
LEMMA KickoffTracked ==
  ASSUME IInv, Kickoff
  PROVE  Tracked'
<1> USE DEF Kickoff
<1>1. /\ plan.n \in 1..N /\ nGraph.count \in Nat /\ abort = -1 /\ done = {}
      /\ \A t \in Threads : lastGraph[t].count <= nGraph.count /\ lastGraph[t].count \in Nat
  BY PlanFacts DEF IInv, Types, Threading, Graphs
<1>2. /\ nGraph'.count = nGraph.count + 1 /\ nGraph'.n = plan.n
      /\ UNCHANGED <<lastGraph, plan, done, abort>>
  BY DEF local
<1>3. 0 \in Threads /\ pc'[0] = "loop" /\ node'[0] = 1
  BY WokenTypes, GraphFacts DEF IInv, Types
<1>4. \A t \in Threads : lastGraph[t] # nGraph'
  BY <1>1, <1>2
<1>5. \A t \in Active' : t \in Threads /\ (Entered(t)' => t = 0)
  BY <1>2, <1>4 DEF Active, Entered, Here
<1>6. ~InProduct(0)' /\ ~Gone(0)'
  BY <1>3 DEF InProduct, Opening, Released, Gone, PoolLabels
<1>7. \A j \in 1..Len(plan.graph) : ~Behind(0, j)' /\ ~Left(0, j)' /\ ~At(0, j)'
  BY <1>3, <1>6 DEF Behind, Left, At, BarrierLabels
<1>8. \A t \in Active' : Placed(t)'
  BY <1>3, <1>5 DEF Placed, Covered
<1>9. \A t \in Active' : OwnPart(t)'
  BY <1>1, <1>2, <1>5, <1>7 DEF OwnPart
<1>10. \A t \in Active' : HandedOut(t)'
  BY <1>2, <1>5, <1>7 DEF HandedOut, Left, At
<1>11. OnlyTasks' /\ WholePhases'
  BY <1>1, <1>2, <1>6 DEF OnlyTasks, WholePhases
<1> QED
  BY <1>2, <1>8, <1>9, <1>10, <1>11 DEF Tracked

\* Between two graphs nothing is tracked.
LEMMA CallerTracked ==
  ASSUME IInv, SetPlan \/ Returned \/ Joined \/ Free \/ (\E b \in BOOLEAN : SetPause(b))
  PROVE  pc'[0] \in Outside
<1>1. 0 \in Threads /\ pc \in [Threads -> Outside \cup PoolLabels \cup GraphLabels \cup {"start"}]
      /\ Woken(pc) \in [Threads -> Outside \cup PoolLabels \cup GraphLabels \cup {"start"}]
  BY GraphFacts, WokenTypes DEF IInv, Types
<1>2. ASSUME NEW b \in BOOLEAN, SetPause(b) PROVE pc'[0] \in Outside
  <2>1. pc[0] = "idle" /\ pc' = Woken(pc)
    BY <1>2 DEF SetPause
  <2>2. Woken(pc)[0] = "idle"
    BY <1>1, <2>1, WokenFacts DEF PoolLabels
  <2> QED
    BY <2>1, <2>2 DEF Outside
<1>3. CASE SetPlan \/ Returned \/ Joined \/ Free
  BY <1>1, <1>3 DEF SetPlan, Returned, Joined, Free, Goto, Outside
<1> QED
  BY <1>2, <1>3

\* What is tracked stays true.
LEMMA NextTracked == IInv /\ Tracked /\ [Next]_vars => Tracked'
<1> SUFFICES ASSUME IInv, Tracked, [Next]_vars PROVE Tracked'
  OBVIOUS
<1>1. ASSUME NEW t \in Threads, InGraph(t) PROVE Tracked'
  BY <1>1, NextNodeTracked, ComputeShareTracked, FirstChunkTracked, ComputeChunkTracked,
     FetchChunkTracked, AfterNodeTracked, InBarrierTracked, ReleaseTracked,
     SpinTracked DEF InGraph
<1>2. ASSUME NEW t \in Workers, InPool(t) \/ WakesByItself(t) PROVE Tracked'
  BY <1>2, InPoolTracked
<1>3. CASE Kickoff \/ ResetChunk
  BY <1>3, KickoffTracked, ResetChunkTracked
<1>4. CASE Returned \/ Joined \/ Demand
  <2>1. pc'[0] \in Outside
    BY <1>4, CallerTracked DEF Demand
  <2> QED
    BY <2>1 DEF Tracked
<1>5. CASE UNCHANGED vars
  <2>1. UNCHANGED <<pc, ret, node, chunk, passed, lastGraph, nGraph, nPassed, currentChunk,
                    abort, plan, done>>
    BY <1>5 DEF vars, local, barrier, control
  <2>2. Active' = Active
    BY <2>1 DEF Active
  <2>3. \A t : (Released(t)' <=> Released(t)) /\ (Entered(t)' <=> Entered(t))
    BY <2>1, <2>2 DEF Released, Entered, Here
  <2>4. \A t : /\ InProduct(t)' <=> InProduct(t)
               /\ \A j : Behind(t, j)' <=> Behind(t, j)
               /\ \A j, c : Holds(t, j, c)' <=> Holds(t, j, c)
    BY <2>1, <2>3 DEF InProduct, Opening, Behind, Holds
  <2>5. \A j, c : Given(j, c)' <=> Given(j, c)
    BY <2>1, <2>2, <2>4 DEF Given
  <2>6. \A t, j : (Left(t, j)' <=> Left(t, j)) /\ (At(t, j)' <=> At(t, j))
    BY <2>1, <2>3, <2>4 DEF Left, At
  <2>7. \A t : Placed(t) => Placed(t)'
    BY <2>1, <2>3 DEF Placed
  <2>8. \A t : OwnPart(t) => OwnPart(t)'
    BY <2>1, <2>3, <2>4 DEF OwnPart
  <2>9. \A t : HandedOut(t) => HandedOut(t)'
    BY <2>1, <2>5, <2>6 DEF HandedOut
  <2>10. OnlyTasks => OnlyTasks'
    BY <2>1 DEF OnlyTasks
  <2>11. WholePhases => WholePhases'
    <3>1. Gone(0)' <=> Gone(0)
      BY <2>1, <2>3 DEF Gone
    <3>2. \A k : Abstract!Upto(k)' = Abstract!Upto(k)
      BY <2>1 DEF Abstract!Upto
    <3> QED
      BY <2>1, <3>1, <3>2 DEF WholePhases
  <2> QED
    BY <2>1, <2>2, <2>7, <2>8, <2>9, <2>10, <2>11 DEF Tracked
<1> QED
  BY <1>1, <1>2, <1>3, <1>4, <1>5 DEF Next, Caller

\* A step that the abstract specification does not see.
LEMMA UnseenStep ==
  ASSUME UNCHANGED <<plan, done, abort>>,
         pc[0] \in {"idle", "joining", "freed"} <=> pc'[0] \in {"idle", "joining", "freed"}
  PROVE  UNCHANGED Abstract!graphVars
BY DEF Abstract!graphVars

\* A thread in the graph leaves the caller in it.
LEMMA CallerInGraph ==
  ASSUME IInv, NEW t \in Threads, InGraph(t) \/ (t = 0 /\ ResetChunk)
  PROVE  /\ pc[0] \in {"idle", "joining", "freed"} <=> pc'[0] \in {"idle", "joining", "freed"}
         /\ t = 0 => pc[0] \notin {"idle", "joining", "freed"}
<1> USE DEF Goto
<1>1. pc[t] \notin {"idle", "joining", "freed"}
  BY DEF InGraph, NextNode, ComputeShare, Convert, FirstChunk, ComputeChunk, FetchChunk,
     AfterNode, EnterBarrier, Arrive, ResetBarrier, Release, Spin, ResetChunk
<1>2. \A u \in Threads : u # t => pc'[u] = pc[u]
  BY BarrierGoes DEF InGraph, NextNode, ComputeShare, Convert, FirstChunk, ComputeChunk,
     FetchChunk, Chunk, AfterNode, EnterBarrier, Arrive, ResetBarrier, Release, Spin,
     ResetChunk, IInv, Types
<1>3. pc'[t] \notin {"idle", "joining", "freed"}
  BY <1>1, BarrierGoes DEF InGraph, NextNode, ComputeShare, Convert, FirstChunk, ComputeChunk,
     FetchChunk, Chunk, AfterNode, EnterBarrier, Arrive, ResetBarrier, Release, Spin,
     ResetChunk, IInv, Types
<1> QED
  BY <1>1, <1>2, <1>3, GraphFacts

\* The end of a node, where the caller may ask to stop.
LEMMA AfterNodeStep ==
  ASSUME IInv, NEW t \in Threads, AfterNode(t)
  PROVE  Abstract!AskToStop \/ UNCHANGED Abstract!graphVars
<1>1. /\ pc[0] \in {"idle", "joining", "freed"} <=> pc'[0] \in {"idle", "joining", "freed"}
      /\ t = 0 => pc[0] \notin {"idle", "joining", "freed"}
  BY CallerInGraph DEF InGraph
<1>2. UNCHANGED <<plan, done>>
  BY DEF AfterNode, control
<1>3. CASE abort' = abort
  BY <1>1, <1>2, <1>3, UnseenStep
<1>4. CASE abort' # abort
  <2>1. t = 0 /\ abort' # -1
    <3>1. PICK n : n = node[t] + (IF Kind(t) = "fused" THEN 2 ELSE 1)
      OBVIOUS
    <3>2. t = 0 /\ abort' = n - 1
      BY <1>4, <3>1 DEF AfterNode
    <3>3. node[t] \in Nat
      BY GraphFacts
    <3>4. n = node[t] + 2 \/ n = node[t] + 1
      BY <3>1
    <3> QED
      BY <3>2, <3>3, <3>4
  <2> QED
    BY <1>1, <1>2, <2>1 DEF Abstract!AskToStop
<1> QED
  BY <1>3, <1>4

\* The caller returns with a whole number of phases done.
LEMMA ReturnStep ==
  ASSUME IInv, Tracked, Returned
  PROVE  Abstract!Return
<1> USE DEF Returned, Goto, control
<1>1. 0 \in Threads /\ pc[0] = "finished" /\ pc'[0] = "idle" /\ UNCHANGED <<plan, done, abort>>
  BY GraphFacts DEF IInv, Types
<1>2. PICK k \in 0..(2 * Len(plan.graph)) :
        done = Abstract!Upto(k) /\ (abort = -1 => k = 2 * Len(plan.graph))
  BY <1>1 DEF Tracked, WholePhases, Gone, Outside
<1>3. Len(PhasesOf(plan)) = 2 * Len(plan.graph)
  BY PhasesLen, GraphFacts
<1> QED
  BY <1>1, <1>2, <1>3 DEF Abstract!Return

\* A step of the pool is one of the abstract specification, or unseen there.
LEMMA PoolStep == IInv /\ Tracked /\ [Next]_vars => [Abstract!GraphNext]_Abstract!graphVars
<1> SUFFICES ASSUME IInv, Tracked, [Next]_vars
             PROVE  Abstract!GraphNext \/ UNCHANGED Abstract!graphVars
  OBVIOUS
<1> USE DEF Goto, local, barrier, control
<1>1. ASSUME NEW t \in Threads, ComputeShare(t) \/ Convert(t) \/ ComputeChunk(t)
      PROVE  Abstract!Compute
  BY <1>1, ComputeShareTracked, ComputeChunkTracked
<1>2. ASSUME NEW t \in Threads, AfterNode(t)
      PROVE  Abstract!AskToStop \/ UNCHANGED Abstract!graphVars
  BY <1>2, AfterNodeStep
<1>3. ASSUME NEW t \in Threads,
             NextNode(t) \/ FirstChunk(t) \/ FetchChunk(t) \/ EnterBarrier(t)
               \/ Arrive(t) \/ ResetBarrier(t) \/ Release(t) \/ Spin(t)
      PROVE  UNCHANGED Abstract!graphVars
  <2>1. pc[0] \in {"idle", "joining", "freed"} <=> pc'[0] \in {"idle", "joining", "freed"}
    BY <1>3, CallerInGraph DEF InGraph
  <2>2. UNCHANGED <<plan, done, abort>>
    BY <1>3 DEF NextNode, FirstChunk, FetchChunk, EnterBarrier, Arrive, ResetBarrier, Release, Spin
  <2> QED
    BY <2>1, <2>2, UnseenStep
<1>4. ASSUME NEW t \in Workers, InPool(t) \/ WakesByItself(t)
      PROVE  UNCHANGED Abstract!graphVars
  <2>1. t # 0
    BY DEF Workers
  <2>2. pc'[0] = pc[0] /\ UNCHANGED <<plan, done, abort>>
    BY <1>4, <2>1, GraphFacts DEF InPool, CheckPause, PauseLock, CheckStop, PollFinds,
       PollGivesUp, CheckForWork, StartGraph, BackToPool, WakesByItself, IInv, Types
  <2> QED
    BY <2>2, UnseenStep
<1>5. 0 \in Threads /\ pc \in [Threads -> Outside \cup PoolLabels \cup GraphLabels \cup {"start"}]
      /\ Woken(pc) \in [Threads -> Outside \cup PoolLabels \cup GraphLabels \cup {"start"}]
  BY GraphFacts, WokenTypes DEF IInv, Types
<1>6. CASE ResetChunk
  <2>1. pc[0] \in {"idle", "joining", "freed"} <=> pc'[0] \in {"idle", "joining", "freed"}
    BY <1>5, <1>6, CallerInGraph
  <2> QED
    BY <1>6, <2>1, UnseenStep DEF ResetChunk
<1>7. CASE Kickoff \/ Joined \/ Free
  BY <1>5, <1>7, UnseenStep DEF Kickoff, Joined, Free
<1>8. ASSUME NEW b \in BOOLEAN, SetPause(b) PROVE UNCHANGED Abstract!graphVars
  <2>1. pc'[0] = pc[0]
    BY <1>5, <1>8, WokenFacts DEF SetPause, PoolLabels
  <2> QED
    BY <1>8, <2>1, UnseenStep DEF SetPause
<1>9. CASE Returned
  BY <1>9, ReturnStep DEF Abstract!GraphNext
<1>10. CASE SetPlan
  <2>1. /\ pc[0] = "idle" /\ pc'[0] = "kickoff" /\ plan' \in Plans /\ done' = {} /\ abort' = -1
    BY <1>5, <1>10 DEF SetPlan
  <2> QED
    BY <2>1 DEF Abstract!GraphNext, Abstract!Submit
<1>11. CASE UNCHANGED vars
  BY <1>11, UnseenStep DEF vars
<1> QED
  BY <1>1, <1>2, <1>3, <1>4, <1>6, <1>7, <1>8, <1>9, <1>10, <1>11
     DEF Next, InGraph, Caller, Demand, Abstract!GraphNext

\* The pool implements GraphCompute, but for its fairness: a task is computed
\* once, and when all of the phases before its own are complete; the call returns
\* after a whole number of phases, all of them unless the callback asked to stop.
THEOREM PoolImplementsGraphCompute ==
  Spec => Abstract!GraphInit /\ [][Abstract!GraphNext]_Abstract!graphVars
<1>1. Init => Abstract!GraphInit
  BY PoolAssumption DEF Init, Threads, Abstract!GraphInit
<1>2. Init => Tracked
  BY PoolAssumption DEF Init, Threads, Tracked, Outside
<1>3. IInv /\ Tracked /\ [Next]_vars => Tracked'
  BY NextTracked
<1>4. IInv /\ Tracked /\ [Next]_vars => [Abstract!GraphNext]_Abstract!graphVars
  BY PoolStep
<1> QED
  BY <1>1, <1>2, <1>3, <1>4, Invariance, PTL DEF Spec
=============================================================================
