---------------------------- MODULE GraphCompute ----------------------------
(***************************************************************************)
(* What ggml_graph_compute promises to whisper.cpp, whoever executes it: a *)
(* graph submitted is worked off phase by phase.  Every task of a phase is *)
(* computed once, no task starts before the phases before it are complete, *)
(* and the call returns when nothing is left, or after a whole number of   *)
(* phases when the caller's abort callback asked for that.                 *)
(***************************************************************************)
EXTENDS Naturals, Sequences

CONSTANTS Plans,      \* a plan is a graph with a number of threads
          Phases(_)   \* the phases of a plan: a sequence of sets of tasks

VARIABLES plan,       \* the plan submitted last
          done,       \* its tasks computed so far
          status,     \* of the caller: "idle", "running"
          asked       \* whether the abort callback has asked to stop

graphVars == <<plan, done, status, asked>>

\* All tasks of the first k phases.
Upto(k) == UNION {Phases(plan)[p] : p \in 1..k}

GraphInit ==
  /\ plan \in Plans
  /\ done = {}
  /\ status = "idle"
  /\ asked = FALSE

Submit ==
  /\ status = "idle"
  /\ status' = "running"
  /\ plan' \in Plans
  /\ done' = {}
  /\ asked' = FALSE

AskToStop ==
  /\ status = "running"
  /\ asked' = TRUE
  /\ UNCHANGED <<plan, done, status>>

Compute ==
  /\ status = "running"
  /\ \E p \in 1..Len(Phases(plan)) :
       \E task \in Phases(plan)[p] \ done :
         /\ Upto(p - 1) \subseteq done
         /\ done' = done \cup {task}
  /\ UNCHANGED <<plan, status, asked>>

Return ==
  /\ status = "running"
  /\ \E k \in 0..Len(Phases(plan)) :
       done = Upto(k) /\ (~asked => k = Len(Phases(plan)))
  /\ status' = "idle"
  /\ UNCHANGED <<plan, done, asked>>

GraphNext == Submit \/ AskToStop \/ Compute \/ Return

GraphSpec ==
  /\ GraphInit
  /\ [][GraphNext]_graphVars
  /\ WF_graphVars(Compute \/ Return)
=============================================================================
