------------------------------ MODULE Executor ------------------------------
(***************************************************************************)
(* One blueprint run of boitata-orchestrator's Executor (lib.rs run_graph, *)
(* run_frontier, execute, resume_with_cancel) with its row in the          *)
(* checkpoint store, across process crashes, cancellation, node panics,    *)
(* retries, failing store writes and resumes.                              *)
(*                                                                         *)
(* At any time at most one process drives the run.  Between two awaits the *)
(* code runs to completion, so each action is the code from one await to   *)
(* the next; cancellation and crashes interleave at every await.           *)
(***************************************************************************)
EXTENDS Blueprint, SequencesExt

CONSTANTS
  Graphs,        \* blueprints that may be run
  MaxSteps,      \* Executor::max_steps
  MaxRetries,    \* Executor::max_retries
  Patient,       \* nodes that may wait for ever unless cancelled (human input)
  MaxDrives,     \* model bound: how many times the run is started or resumed
  Nobody         \* neither a node nor a checkpoint row

ASSUME ExecutorAssumption ==
  /\ \A g \in Graphs : g \in Graph /\ Buildable(g)
  /\ MaxSteps \in Nat \ {0}
  /\ MaxRetries \in Nat
  /\ MaxDrives \in Nat
  /\ Nobody \notin Name

VARIABLES
  row,        \* the checkpoints row of the run, or Nobody
  pc,         \* where the driving process is
  graph,      \* the blueprint the last driver loaded, or Nobody
  step,       \* loop variable of run_graph: completed super-steps
  frontier,   \* the active node set
  state,      \* the merged State, as a Transcript
  attempt,    \* retries spent on this super-step
  node,       \* what each node of the frontier is doing
  failure,    \* first_error of run_frontier
  cancelled,  \* the run-wide CancellationToken
  verdict,    \* how run_graph is about to return
  reported,   \* reason of the BlueprintCompleted event this driver emitted
  drives,     \* starts and resumes so far
  faulted,    \* history: a store write of this run has failed
  late        \* history: attempts begun after the token was cancelled

store   == <<row, faulted>>
loop    == <<step, frontier, state, attempt>>
attempts == <<node, failure, late>>
vars == <<row, pc, graph, step, frontier, state, attempt, node, failure,
          cancelled, verdict, reported, drives, faulted, late>>

RunState == {"running", "suspended", "completed", "failed"}
Resumable == {"running", "suspended"}
Row == [label : STRING, step : Nat, frontier : SUBSET Name,
        state : Transcript, status : RunState]

ASSUME NobodyAssumption == Nobody \notin Row

Location == {"idle", "top", "attempt", "backoff", "closing", "closed",
             "returned", "crashed"}
Driving == {"top", "attempt", "backoff", "closing", "closed"}

\* A node that is "running" has been polled; the others are ways it returned.
Outcome == {"ok", "failed", "none", "err"}
NodeState == {"idle", "running"} \cup Outcome

\* first_error: the node that failed first, or "unresolved" when the frontier
\* names a node the graph does not have.
Failure == Name \cup {Nobody, "unresolved"}

Verdict == {"none", "completed", "cancelled", "error", "step_limit", "panicked"}

\* Mutant: a run stopped by the step limit is stored as completed.
StoredAs_LimitCompletes(v) ==
  CASE v \in {"completed", "step_limit"} -> "completed"
    [] v = "cancelled"                   -> "suspended"
    [] OTHER                             -> "failed"

\* The status run_graph stores before it returns with a verdict.
StoredAs(v) == CASE v = "completed" -> "completed"
                 [] v = "cancelled" -> "suspended"
                 [] OTHER           -> "failed"

Idle == [n \in Name |-> "idle"]

TypeOK ==
  /\ row \in Row \cup {Nobody}
  /\ pc \in Location
  /\ graph \in Graphs \cup {Nobody}
  /\ pc # "idle" => graph \in Graphs
  /\ step \in Nat
  /\ frontier \in SUBSET Name
  /\ state \in Transcript
  /\ attempt \in 0..MaxRetries
  /\ node \in [Name -> NodeState]
  /\ failure \in Failure
  /\ cancelled \in BOOLEAN
  /\ verdict \in Verdict
  /\ reported \in Verdict
  /\ drives \in 0..MaxDrives
  /\ faulted \in BOOLEAN
  /\ late \in Nat

Init ==
  /\ row = Nobody
  /\ pc = "idle"
  /\ graph = Nobody
  /\ step = 0
  /\ frontier = {}
  /\ state = <<>>
  /\ attempt = 0
  /\ node = Idle
  /\ failure = Nobody
  /\ cancelled = FALSE
  /\ verdict = "none"
  /\ reported = "none"
  /\ drives = 0
  /\ faulted = FALSE
  /\ late = 0

-----------------------------------------------------------------------------
(* Entering run_graph.                                                     *)

\* A driver begins with a new token; BlueprintStarted or BlueprintResumed is
\* emitted and the loop is entered.
Drive(g, k, f, s) ==
  /\ drives < MaxDrives
  /\ drives' = drives + 1
  /\ pc' = "top"
  /\ graph' = g
  /\ step' = k
  /\ frontier' = f
  /\ state' = s
  /\ attempt' = 0
  /\ node' = Idle
  /\ failure' = Nobody
  /\ cancelled' = FALSE
  /\ verdict' = "none"
  /\ reported' = "none"
  /\ late' = 0
  /\ UNCHANGED store

Start(g) ==
  /\ pc = "idle"
  /\ Drive(g, 0, {g.entry}, <<>>)

\* Mutant: the resumable flag of the loaded checkpoint is ignored.
MayResume_Always == row # Nobody

\* LoadedCheckpoint::resumable: the run was neither completed nor failed.
MayResume == row # Nobody /\ row.status \in Resumable

\* Mutant: a resume replays the blueprint from its entry.
ResumePoint_Entry == [step |-> 0, frontier |-> {graph.entry}, state |-> <<>>]

\* RunStart::Resume takes over where the checkpoint was taken.
ResumePoint == [step |-> row.step, frontier |-> row.frontier, state |-> row.state]

\* resume_with_cancel: the row must exist, be resumable, and carry the label
\* of the graph handed in.  Everything else comes from the row.
Resume(g) ==
  /\ pc \in {"returned", "crashed"}
  /\ MayResume
  /\ row.label = g.label
  /\ Drive(g, ResumePoint.step, ResumePoint.frontier, ResumePoint.state)

-----------------------------------------------------------------------------
(* The super-step loop.                                                    *)

\* Mutant: BlueprintCompleted is emitted before the status is stored.
Conclude_TellFirst(v) == pc' = "closing" /\ verdict' = v /\ reported' = v

\* run_graph is going to store the status of verdict v, report it and return.
Conclude(v) == pc' = "closing" /\ verdict' = v /\ reported' = reported

\* Mutant: neither loop looks at the token.
Interrupted_Never == FALSE

\* The looks run_graph takes at the token when a super-step is over.
Interrupted == cancelled

\* The first poll of run_frontier: every node is resolved, then all start.
BeginAttempt ==
  /\ pc' = "attempt"
  /\ IF frontier \subseteq graph.nodes
       THEN /\ node' = [n \in Name |-> IF n \in frontier THEN "running" ELSE "idle"]
            /\ failure' = Nobody
       ELSE node' = Idle /\ failure' = "unresolved"
  /\ late' = IF cancelled THEN late + 1 ELSE late

\* The range of the for loop is exhausted.
StepLimit ==
  /\ pc = "top"
  /\ step >= MaxSteps
  /\ Conclude("step_limit")
  /\ UNCHANGED <<store, graph, loop, attempts, cancelled, drives>>

AllPathsEnded ==
  /\ pc = "top"
  /\ step < MaxSteps
  /\ frontier = {}
  /\ Conclude("completed")
  /\ UNCHANGED <<store, graph, loop, attempts, cancelled, drives>>

\* Mutant: the index of the next super-step is saved with this one's frontier.
Snapshot_StepAhead ==
  [label |-> graph.label, step |-> step + 1, frontier |-> frontier,
   state |-> state, status |-> "running"]

\* The pre-super-step snapshot save_checkpoint hands to the store.
Snapshot ==
  [label |-> graph.label, step |-> step, frontier |-> frontier,
   state |-> state, status |-> "running"]

\* save_checkpoint: replace the row, or log the store error and go on.
SaveCheckpoint(ok) ==
  /\ row' = IF ok THEN Snapshot ELSE row
  /\ faulted' = (faulted \/ ~ok)

BeginSuperStep ==
  /\ pc = "top"
  /\ step < MaxSteps
  /\ frontier # {}
  /\ \E ok \in BOOLEAN : SaveCheckpoint(ok)
  /\ attempt' = 0
  /\ BeginAttempt
  /\ UNCHANGED <<graph, step, frontier, state, cancelled, verdict, reported, drives>>

\* One future of join_all resolves; the first error cancels the child token.
NodeEnds(n) ==
  /\ pc = "attempt"
  /\ node[n] = "running"
  /\ \E o \in Outcome :
       /\ node' = [node EXCEPT ![n] = o]
       /\ failure' = IF o = "err" /\ failure = Nobody THEN n ELSE failure
  /\ UNCHANGED <<store, pc, graph, loop, cancelled, verdict, reported, drives, late>>

\* Mutants: the child token follows only one of its two causes.
ChildCancelled_FailureOnly == failure # Nobody
ChildCancelled_RunOnly == cancelled

\* The child token of the super-step: cancelled with the run or by a failure.
ChildCancelled == cancelled \/ failure # Nobody

\* Mutant: the attempt ends at the first error, as try_join_all would.
Joined_FirstError ==
  pc = "attempt" /\ (failure # Nobody \/ \A n \in Name : node[n] # "running")

\* join_all has collected every future of the frontier.
Joined == pc = "attempt" /\ \A n \in Name : node[n] # "running"

\* The status of the merged super-step: a failure dominates, and the previous
\* status stays when nobody reported one.
MergedStatus ==
  IF \E n \in frontier : node[n] = "failed" THEN "failed"
  ELSE IF \E n \in frontier : node[n] = "ok" THEN "ok"
  ELSE StatusOf(state)

\* join_all has consumed the futures that resolved.
Consumed == [n \in Name |-> IF node[n] = "running" THEN "running" ELSE "idle"]

\* Mutant: updates of nodes that report a failure are dropped.
Merged_OnlyOk ==
  Append(state, [nodes |-> {n \in frontier : node[n] # "failed"},
                 status |-> MergedStatus])

Merged == Append(state, [nodes |-> frontier, status |-> MergedStatus])

\* Every node returned an update: merge them all, then stop if cancelled,
\* route to the next frontier, or abort on a target that does not exist.
SuperStepDone ==
  /\ Joined
  /\ failure = Nobody
  /\ state' = Merged
  /\ node' = Consumed
  /\ LET next == Targets(graph, Merged[Len(Merged)]) \ {END}
     IN  \/ /\ Interrupted
            /\ Conclude("cancelled")
            /\ UNCHANGED <<step, frontier>>
         \/ /\ ~Interrupted
            /\ ~(next \subseteq graph.nodes)
            /\ Conclude("error")
            /\ UNCHANGED <<step, frontier>>
         \/ /\ ~Interrupted
            /\ next \subseteq graph.nodes
            /\ frontier' = next
            /\ step' = step + 1
            /\ pc' = "top"
            /\ UNCHANGED <<verdict, reported>>
  /\ UNCHANGED <<store, graph, attempt, failure, cancelled, drives, late>>

\* Mutant: a retry that is not counted.
NextAttempt_Uncounted == attempt

MayRetry == attempt < MaxRetries
NextAttempt == attempt + 1

\* Some node failed hard, nothing is merged: suspend if cancelled, back off
\* for a retry, or give up.
SuperStepFailed ==
  /\ Joined
  /\ failure # Nobody
  /\ node' = Consumed
  /\ \/ /\ Interrupted
        /\ Conclude("cancelled")
        /\ UNCHANGED attempt
     \/ /\ ~Interrupted
        /\ MayRetry
        /\ attempt' = NextAttempt
        /\ pc' = "backoff"
        /\ UNCHANGED <<verdict, reported>>
     \/ /\ ~Interrupted
        /\ ~MayRetry
        /\ Conclude("error")
        /\ UNCHANGED attempt
  /\ UNCHANGED <<store, graph, step, frontier, state, failure, cancelled,
                 drives, late>>

\* The two branches of the select! around the backoff sleep.
BackoffElapsed ==
  /\ pc = "backoff"
  /\ BeginAttempt
  /\ UNCHANGED <<store, graph, loop, cancelled, verdict, reported, drives>>

BackoffCancelled ==
  /\ pc = "backoff"
  /\ cancelled
  /\ Conclude("cancelled")
  /\ UNCHANGED <<store, graph, loop, attempts, cancelled, drives>>

-----------------------------------------------------------------------------
(* Leaving run_graph.                                                      *)

\* set_checkpoint_status: an UPDATE that touches nothing when there is no row,
\* and that may fail without consequence.
SetStatus ==
  /\ pc = "closing"
  /\ pc' = "closed"
  /\ \E ok \in BOOLEAN :
       /\ row' = IF ok /\ row # Nobody
                   THEN [row EXCEPT !.status = StoredAs(verdict)] ELSE row
       /\ faulted' = (faulted \/ ~ok)
  /\ UNCHANGED <<graph, loop, attempts, cancelled, verdict, reported, drives>>

\* BlueprintCompleted is emitted and the driver returns.
Report ==
  /\ pc = "closed"
  /\ pc' = "returned"
  /\ reported' = verdict
  /\ UNCHANGED <<store, graph, loop, attempts, cancelled, verdict, drives>>

\* A node panics: join_all is dropped with every sibling, execute cleans up
\* and re-raises.  No status is stored and no event is emitted.
Panic(n) ==
  /\ pc = "attempt"
  /\ node[n] = "running"
  /\ pc' = "returned"
  /\ node' = Idle
  /\ verdict' = "panicked"
  /\ UNCHANGED <<store, graph, loop, failure, late, cancelled, reported, drives>>

-----------------------------------------------------------------------------
(* The environment.                                                        *)

Cancel ==
  /\ pc \in Driving
  /\ ~cancelled
  /\ cancelled' = TRUE
  /\ UNCHANGED <<store, pc, graph, loop, attempts, verdict, reported, drives>>

\* The driving process dies; only the row survives.
Crash ==
  /\ pc \in Driving
  /\ pc' = "crashed"
  /\ step' = 0
  /\ frontier' = {}
  /\ state' = <<>>
  /\ attempt' = 0
  /\ node' = Idle
  /\ failure' = Nobody
  /\ cancelled' = FALSE
  /\ verdict' = "none"
  /\ reported' = "none"
  /\ late' = 0
  /\ UNCHANGED <<store, graph, drives>>

-----------------------------------------------------------------------------
RunGraph ==
  \/ StepLimit \/ AllPathsEnded \/ BeginSuperStep
  \/ SuperStepDone \/ SuperStepFailed
  \/ BackoffElapsed \/ BackoffCancelled
  \/ SetStatus \/ Report

Next ==
  \/ \E g \in Graphs : Start(g) \/ Resume(g)
  \/ RunGraph
  \/ \E n \in Name : NodeEnds(n) \/ Panic(n)
  \/ Cancel
  \/ Crash

Spec == Init /\ [][Next]_vars

\* The runtime keeps polling the driver, and a node returns by itself unless it
\* waits for a person, whom only a cancelled token interrupts.
NodeReturns(n) == (n \notin Patient \/ ChildCancelled) /\ NodeEnds(n)

Fairness == WF_vars(RunGraph) /\ \A n \in Name : WF_vars(NodeReturns(n))

FairSpec == Spec /\ Fairness

-----------------------------------------------------------------------------
(* Safety.                                                                 *)

\* Labels identify blueprints: nobody edits a blueprint under its old name
\* while one of its runs is interrupted.
UniqueLabels == \A g, h \in Graphs : g.label = h.label => g = h

\* (step, frontier, state) is a super-step boundary of graph g.
Boundary(g, k, f, s) ==
  /\ IsPath(g, s)
  /\ k = Len(s)
  /\ f = FrontierAfter(g, s)

\* What the row holds is always a genuine super-step boundary of the blueprint:
\* however crashes, cancellations, retries, store errors and resumes interleave
\* (checkpoint.rs save/load, run_graph), no super-step is skipped, merged twice
\* or merged in part in what a later resume will start from.
CheckpointExact ==
  row # Nobody => Boundary(graph, row.step, row.frontier, row.state)

\* The state a driver works on, and the one it returns, is a path of the graph
\* from its entry: retries leave no residue of the attempts that failed.
StateIsPath == pc # "idle" => IsPath(graph, state)

\* While a super-step runs or waits for a retry the row is that very boundary,
\* so that "a crash or cancellation during the step resumes from exactly here"
\* (comment in run_graph), unless a store write failed.
ResumesExactlyHere ==
  ~faulted /\ pc \in {"attempt", "backoff"} =>
    row = [label |-> graph.label, step |-> step, frontier |-> frontier,
           state |-> state, status |-> "running"]

\* The row never runs ahead of a live driver: what is durable is a prefix of
\* what the driver has merged, even after saves have failed.
DurableIsPrefix ==
  pc \in Driving /\ row # Nobody => IsPrefix(row.state, state)

\* No node of an attempt outlives it: a retry, a resume or the final status
\* never overlaps with a sibling of the node that failed (run_frontier joins
\* every future rather than returning at the first error).
NoOrphanNode == pc # "attempt" => \A n \in Name : node[n] # "running"

\* After the token is cancelled at most one more attempt is begun: the step
\* loop and the retry loop both stop at their next look at the token.
CancelStopsSoon == late <= 1

\* The reason a client reads in BlueprintCompleted is already what the store
\* says: the status is written before the event is emitted.
ReportedIsStored ==
  reported # "none" /\ ~faulted => row # Nobody /\ row.status = StoredAs(reported)

\* A row turns completed only when no path of the run is still alive.
CompletedMeansDone ==
  [][ row # row' /\ row'.status = "completed" => FrontierAfter(graph, state) = {} ]_vars

\* From outside, the row is a record that only grows along the graph and that
\* is final once completed or failed (checkpoint.rs: "Completed/Failed are
\* terminal"; the invariant stated at save_checkpoint).
Life == IF row = Nobody THEN "absent"
        ELSE IF row.status \in Resumable THEN "open" ELSE row.status

Record == INSTANCE RunRecord WITH
            blueprint <- IF row = Nobody THEN Nobody ELSE graph,
            progress  <- IF row = Nobody THEN <<>> ELSE row.state,
            life      <- Life

ImplementsRecord == Record!Spec

-----------------------------------------------------------------------------
(* Liveness, under FairSpec.                                               *)

WaitingForPerson == \E n \in Patient : node[n] = "running"

\* Every driver ends, or waits for a person: retries and cycles are bounded.
DriverEnds == pc \in Driving ~> (pc \notin Driving \/ WaitingForPerson)

\* Cancellation always gets through, whatever the nodes are waiting for.
CancelEnds == (pc \in Driving /\ cancelled) ~> pc \notin Driving

\* A node that failed hard ends the attempt: siblings that would wait for ever
\* are stopped through the child token of the super-step.
FailureEndsAttempt == (pc = "attempt" /\ failure # Nobody) ~> pc # "attempt"

-----------------------------------------------------------------------------
(* Statements of the repository the code does not keep.                    *)

\* "Verifies the checkpoint was taken against this same blueprint before
\* continuing, so a resume can't run a mismatched graph over stale state"
\* (resume_with_cancel): the transcript a super-step runs on is a path of the
\* graph that runs it.
NoMismatchedResume == pc = "attempt" => IsPath(graph, state) /\ frontier \subseteq graph.nodes

\* "blueprint exceeded its step limit" (BlueprintError::StepLimit): the run is
\* aborted for its length only when there was more to run.
LimitMeansExceeded == verdict = "step_limit" => FrontierAfter(graph, state) # {}
=============================================================================
