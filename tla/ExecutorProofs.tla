--------------------------- MODULE ExecutorProofs ---------------------------
(***************************************************************************)
(* Proofs about Executor for every set of blueprints, every step and retry *)
(* budget and every number of crashes, cancellations and resumes, and      *)
(* about Loader for every document.  Only what an edited blueprint could   *)
(* break needs labels to identify blueprints.  The last part is about      *)
(* Nodes: what a template becomes, and what sh reads of it, whatever the   *)
(* values are.                                                             *)
(***************************************************************************)
EXTENDS Meaning, Recursion, SequenceTheorems, TLAPS

-----------------------------------------------------------------------------
(* Lemmas about graphs and transcripts.                                    *)

\* A graph that may be run has its entry among its nodes, all of them names.
LEMMA GraphFacts ==
  ASSUME NEW g \in Graphs
  PROVE  /\ g.label \in STRING
         /\ g.nodes \subseteq Name
         /\ g.entry \in g.nodes
         /\ g.entry \in Name
<1>1. g \in Graph /\ Buildable(g)
  BY ExecutorAssumption
<1>2. QED
  BY <1>1 DEF Graph, Buildable

\* Merging a super-step extends the transcript by one entry and keeps the rest.
LEMMA MergedFacts ==
  ASSUME TypeOK
  PROVE  /\ Merged \in Transcript
         /\ Len(Merged) = Len(state) + 1
         /\ Merged[Len(Merged)] = [nodes |-> frontier, status |-> MergedStatus]
         /\ \A k \in 1..Len(state) : Merged[k] = state[k]
<1>1. state \in Seq(Entry) /\ frontier \in SUBSET Name
  BY DEF TypeOK, Transcript
<1>2. StatusOf(state) \in Status
  <2>1. CASE state = <<>>
    BY <2>1 DEF StatusOf, Status
  <2>2. CASE state # <<>>
    <3>1. state[Len(state)] \in Entry
      BY <1>1, <2>2
    <3>2. QED
      BY <3>1, <2>2 DEF StatusOf, Entry
  <2>3. QED
    BY <2>1, <2>2
<1>3. MergedStatus \in Status
  BY <1>2 DEF MergedStatus, Status
<1>4. [nodes |-> frontier, status |-> MergedStatus] \in Entry
  BY <1>1, <1>3 DEF Entry
<1>5. QED
  BY <1>1, <1>4 DEF Merged, Transcript

\* The budgets admit a counter that has not moved.
LEMMA Budgets ==
  /\ 0 \in 0..MaxRetries
  /\ 0 \in 0..MaxDrives
  /\ \A d \in 0..MaxDrives : d < MaxDrives => d + 1 \in 0..MaxDrives
<1>1. MaxRetries \in Nat /\ MaxDrives \in Nat
  BY ExecutorAssumption
<1>2. QED
  BY <1>1

-----------------------------------------------------------------------------
(* Type correctness.                                                       *)

\* A run begins with values of the right types.
LEMMA InitType == Init => TypeOK
<1> SUFFICES ASSUME Init PROVE TypeOK
  OBVIOUS
<1>1. Idle \in [Name -> NodeState]
  BY DEF Idle, NodeState
<1>2. <<>> \in Transcript
  BY DEF Transcript
<1>3. node \in [Name -> NodeState] /\ state \in Transcript
  BY <1>1, <1>2 DEF Init
<1>4. attempt \in 0..MaxRetries /\ drives \in 0..MaxDrives
  BY Budgets DEF Init
<1>5. QED
  BY <1>3, <1>4 DEF Init, TypeOK, Location, Failure, Verdict

\* Every step of the executor keeps them.
LEMMA NextType == TypeOK /\ [Next]_vars => TypeOK'
<1> SUFFICES ASSUME TypeOK, [Next]_vars PROVE TypeOK'
  OBVIOUS
<1> USE DEF TypeOK
<1>a. Idle \in [Name -> NodeState]
  BY DEF Idle, NodeState
<1>b. <<>> \in Transcript
  BY DEF Transcript
<1>c. ASSUME BeginAttempt
      PROVE  pc' \in Location /\ node' \in [Name -> NodeState]
             /\ failure' \in Failure /\ late' \in Nat
  BY <1>a, <1>c DEF BeginAttempt, Location, NodeState, Failure
<1>1. ASSUME NEW g \in Graphs, Start(g) PROVE TypeOK'
  <2>1. {g.entry} \in SUBSET Name
    BY GraphFacts
  <2>2. QED
    BY <1>1, <1>a, <1>b, <2>1, Budgets
       DEF Start, Drive, store, Location, Failure, Verdict
<1>2. ASSUME NEW g \in Graphs, Resume(g) PROVE TypeOK'
  <2>1. row \in Row
    BY <1>2 DEF Resume, MayResume
  <2>2. row.step \in Nat /\ row.frontier \in SUBSET Name /\ row.state \in Transcript
    BY <2>1 DEF Row
  <2>3. QED
    BY <1>2, <1>a, <2>2, Budgets
       DEF Resume, MayResume, ResumePoint, Drive, store, Location, Failure, Verdict
<1>3. CASE StepLimit
  BY <1>3 DEF StepLimit, Conclude, store, loop, attempts, Location, Verdict
<1>4. CASE AllPathsEnded
  BY <1>4 DEF AllPathsEnded, Conclude, store, loop, attempts, Location, Verdict
<1>5. CASE BeginSuperStep
  <2>1. PICK ok \in BOOLEAN : SaveCheckpoint(ok)
    BY <1>5 DEF BeginSuperStep
  <2>2. graph \in Graphs
    BY <1>5 DEF BeginSuperStep
  <2>3. row' \in Row \cup {Nobody} /\ faulted' \in BOOLEAN
    BY <2>1, <2>2, GraphFacts DEF SaveCheckpoint, Snapshot, Row, RunState
  <2>4. BeginAttempt
    BY <1>5 DEF BeginSuperStep
  <2>5. 0 \in 0..MaxRetries
    BY ExecutorAssumption
  <2>6. QED
    BY <1>5, <1>c, <2>2, <2>3, <2>4, <2>5 DEF BeginSuperStep
<1>6. CASE SuperStepDone
  <2>1. graph \in Graphs
    BY <1>6 DEF SuperStepDone, Joined
  <2>2. frontier' \in SUBSET Name /\ step' \in Nat
    BY <1>6, <2>1, GraphFacts DEF SuperStepDone
  <2>3. node' \in [Name -> NodeState]
    BY <1>6 DEF SuperStepDone, Consumed, NodeState
  <2>4. state' \in Transcript
    BY <1>6, MergedFacts DEF SuperStepDone
  <2>5. pc' \in Location /\ verdict' \in Verdict /\ reported' \in Verdict
    BY <1>6 DEF SuperStepDone, Conclude, Location, Verdict
  <2>6. QED
    BY <1>6, <2>1, <2>2, <2>3, <2>4, <2>5 DEF SuperStepDone, store
<1>7. CASE SuperStepFailed
  <2>1. node' \in [Name -> NodeState]
    BY <1>7 DEF SuperStepFailed, Consumed, NodeState
  <2>2. graph \in Graphs
    BY <1>7 DEF SuperStepFailed, Joined
  <2>3. attempt' \in 0..MaxRetries
    BY <1>7, ExecutorAssumption DEF SuperStepFailed, MayRetry, NextAttempt
  <2>4. pc' \in Location /\ verdict' \in Verdict /\ reported' \in Verdict
    BY <1>7 DEF SuperStepFailed, Conclude, Location, Verdict
  <2>5. QED
    BY <1>7, <2>1, <2>2, <2>3, <2>4 DEF SuperStepFailed, store
<1>8. CASE BackoffElapsed
  <2>1. BeginAttempt /\ graph \in Graphs
    BY <1>8 DEF BackoffElapsed
  <2>2. QED
    BY <1>8, <1>c, <2>1 DEF BackoffElapsed, store, loop
<1>9. CASE BackoffCancelled
  BY <1>9 DEF BackoffCancelled, Conclude, store, loop, attempts, Location, Verdict
<1>10. CASE SetStatus
  <2>1. PICK ok \in BOOLEAN :
          /\ row' = IF ok /\ row # Nobody
                      THEN [row EXCEPT !.status = StoredAs(verdict)] ELSE row
          /\ faulted' = (faulted \/ ~ok)
    BY <1>10 DEF SetStatus
  <2>2. StoredAs(verdict) \in RunState
    BY DEF StoredAs, RunState
  <2>3. row' \in Row \cup {Nobody}
    BY <2>1, <2>2 DEF Row
  <2>4. QED
    BY <1>10, <2>1, <2>3 DEF SetStatus, loop, attempts, Location
<1>11. CASE Report
  BY <1>11 DEF Report, store, loop, attempts, Location
<1>12. ASSUME NEW n \in Name, NodeEnds(n) PROVE TypeOK'
  BY <1>12 DEF NodeEnds, store, loop, Outcome, NodeState, Failure
<1>13. ASSUME NEW n \in Name, Panic(n) PROVE TypeOK'
  BY <1>13, <1>a DEF Panic, store, loop, Location, Verdict
<1>14. CASE Cancel
  BY <1>14 DEF Cancel, store, loop, attempts, Driving
<1>15. CASE Crash
  BY <1>15, <1>a, <1>b, Budgets
     DEF Crash, store, Location, Driving, Failure, Verdict
<1>16. CASE UNCHANGED vars
  BY <1>16 DEF vars
<1>17. QED
  BY <1>1, <1>2, <1>3, <1>4, <1>5, <1>6, <1>7, <1>8, <1>9, <1>10, <1>11,
     <1>12, <1>13, <1>14, <1>15, <1>16 DEF Next, RunGraph

\* Every variable keeps the values the code can give it.
THEOREM TypeCorrect == Spec => []TypeOK
<1>1. QED
  BY InitType, NextType, PTL DEF Spec

-----------------------------------------------------------------------------
(* Checkpoints are exact.                                                  *)

\* The row was taken against the blueprint of the last driver.
RowKnown == row # Nobody => pc # "idle" /\ row.label = graph.label

\* Wherever the loop may save or resume from, its variables are a boundary.
LoopAtBoundary ==
  pc \in {"top", "attempt", "backoff"} => Boundary(graph, step, frontier, state)

\* The inductive invariant: CheckpointExact alone is not inductive, because
\* what is saved next is what the loop holds now.
IInv == TypeOK /\ RowKnown /\ CheckpointExact /\ StateIsPath /\ LoopAtBoundary

\* Merging the frontier of a boundary extends the path.
LEMMA PathExtends ==
  ASSUME TypeOK, Boundary(graph, step, frontier, state)
  PROVE  /\ IsPath(graph, Merged)
         /\ FrontierAfter(graph, Merged) = Targets(graph, Merged[Len(Merged)]) \ {END}
<1> DEFINE n == Len(state)
<1>1. state \in Seq(Entry) /\ n \in Nat
  BY DEF TypeOK, Transcript
<1>2. /\ Len(Merged) = n + 1
      /\ Merged[n + 1].nodes = frontier
      /\ \A k \in 1..n : Merged[k] = state[k]
  BY <1>1, MergedFacts
<1>3. frontier = IF n = 0 THEN {graph.entry} ELSE Targets(graph, state[n]) \ {END}
  <2>1. n = 0 <=> state = <<>>
    BY <1>1
  <2>2. QED
    BY <2>1 DEF Boundary, FrontierAfter
<1>4. ASSUME NEW k \in 1..(n + 1)
      PROVE  Merged[k].nodes = IF k = 1 THEN {graph.entry}
                               ELSE Targets(graph, Merged[k - 1]) \ {END}
  <2>1. CASE k = n + 1
    <3>1. CASE n = 0
      BY <1>2, <1>3, <2>1, <3>1
    <3>2. CASE n # 0
      <4>1. n \in 1..n /\ k - 1 = n /\ k # 1
        BY <1>1, <2>1, <3>2
      <4>2. Merged[k - 1] = state[n]
        BY <1>2, <4>1
      <4>3. QED
        BY <1>2, <1>3, <2>1, <3>2, <4>1, <4>2
    <3>3. QED
      BY <3>1, <3>2
  <2>2. CASE k # n + 1
    <3>1. k \in 1..n
      BY <1>1, <2>2
    <3>2. state[k].nodes = IF k = 1 THEN {graph.entry}
                           ELSE Targets(graph, state[k - 1]) \ {END}
      BY <3>1 DEF Boundary, IsPath
    <3>3. k # 1 => Merged[k - 1] = state[k - 1]
      <4>1. k # 1 => k - 1 \in 1..n
        BY <1>1, <3>1
      <4>2. QED
        BY <1>2, <4>1
    <3>4. QED
      BY <1>2, <3>1, <3>2, <3>3
  <2>3. QED
    BY <2>1, <2>2
<1>5. IsPath(graph, Merged)
  BY <1>2, <1>4 DEF IsPath
<1>6. Merged # <<>>
  BY <1>1, <1>2
<1>7. QED
  BY <1>5, <1>6 DEF FrontierAfter

\* A run that has merged nothing is at the boundary of its entry node.
LEMMA EntryBoundary ==
  ASSUME NEW g
  PROVE  Boundary(g, 0, {g.entry}, <<>>)
BY DEF Boundary, IsPath, FrontierAfter

\* With nothing stored and nothing in the loop there is nothing to get wrong.
LEMMA InitIInv == Init => IInv
<1>1. Init => TypeOK
  BY InitType
<1>2. Init => RowKnown /\ CheckpointExact /\ StateIsPath /\ LoopAtBoundary
  BY DEF Init, RowKnown, CheckpointExact, StateIsPath, LoopAtBoundary
<1>3. QED
  BY <1>1, <1>2 DEF IInv

\* A step that keeps the row, the graph and the loop variables, and does not
\* enter the loop, keeps the invariant.
LEMMA QuietStep ==
  ASSUME IInv, TypeOK',
         UNCHANGED <<row, graph, step, frontier, state>>,
         pc # "idle", pc' # "idle",
         pc' \in {"top", "attempt", "backoff"} => pc \in {"top", "attempt", "backoff"}
  PROVE  IInv'
BY DEF IInv, RowKnown, CheckpointExact, StateIsPath, LoopAtBoundary

\* Every step keeps the boundaries: what is saved is what the loop holds, and what is
\* resumed is what was saved.
LEMMA NextIInv ==
  ASSUME UniqueLabels
  PROVE  IInv /\ [Next]_vars => IInv'
<1> SUFFICES ASSUME IInv, [Next]_vars PROVE IInv'
  OBVIOUS
<1>t. TypeOK /\ TypeOK'
  BY NextType DEF IInv
<1>1. ASSUME NEW g \in Graphs, Start(g) PROVE IInv'
  <2>1. row = Nobody /\ row' = Nobody
    BY <1>1 DEF Start, Drive, store, IInv, RowKnown
  <2>2. Boundary(g, 0, {g.entry}, <<>>)
    BY EntryBoundary
  <2>3. /\ pc' = "top" /\ graph' = g
        /\ step' = 0 /\ frontier' = {g.entry} /\ state' = <<>>
    BY <1>1 DEF Start, Drive
  <2>4. QED
    BY <1>t, <2>1, <2>2, <2>3
       DEF IInv, RowKnown, CheckpointExact, StateIsPath, LoopAtBoundary, Boundary
<1>2. ASSUME NEW g \in Graphs, Resume(g) PROVE IInv'
  <2>1. row # Nobody /\ pc # "idle" /\ row.label = g.label
    BY <1>2 DEF Resume, MayResume
  <2>2. graph \in Graphs
    BY <1>t, <2>1 DEF TypeOK
  <2>3. graph = g
    BY <2>1, <2>2 DEF IInv, RowKnown, UniqueLabels
  <2>4. /\ pc' = "top" /\ graph' = g /\ row' = row
        /\ step' = row.step /\ frontier' = row.frontier /\ state' = row.state
    BY <1>2 DEF Resume, MayResume, ResumePoint, Drive, store
  <2>5. Boundary(graph, row.step, row.frontier, row.state)
    BY <2>1 DEF IInv, CheckpointExact
  <2>6. QED
    BY <1>t, <2>1, <2>3, <2>4, <2>5
       DEF IInv, RowKnown, CheckpointExact, StateIsPath, LoopAtBoundary, Boundary
<1>3. CASE StepLimit
  BY <1>t, <1>3, QuietStep DEF StepLimit, Conclude, store, loop
<1>4. CASE AllPathsEnded
  BY <1>t, <1>4, QuietStep DEF AllPathsEnded, Conclude, store, loop
<1>5. CASE BeginSuperStep
  <2>1. PICK ok \in BOOLEAN : SaveCheckpoint(ok)
    BY <1>5 DEF BeginSuperStep
  <2>2. /\ pc = "top" /\ pc' = "attempt"
        /\ UNCHANGED <<graph, step, frontier, state>>
    BY <1>5 DEF BeginSuperStep, BeginAttempt
  <2>3. Boundary(graph, step, frontier, state)
    BY <2>2 DEF IInv, LoopAtBoundary
  <2>4. CASE ok
    <3>1. /\ row'.label = graph.label /\ row'.step = step
          /\ row'.frontier = frontier /\ row'.state = state
      BY <2>1, <2>4 DEF SaveCheckpoint, Snapshot
    <3>2. QED
      BY <1>t, <2>2, <2>3, <3>1
         DEF IInv, RowKnown, CheckpointExact, StateIsPath, LoopAtBoundary
  <2>5. CASE ~ok
    <3>1. row' = row
      BY <2>1, <2>5 DEF SaveCheckpoint
    <3>2. QED
      BY <1>t, <2>2, <3>1, QuietStep
  <2>6. QED
    BY <2>4, <2>5
<1>6. CASE SuperStepDone
  <2>1. /\ pc = "attempt" /\ state' = Merged /\ UNCHANGED <<row, graph>>
    BY <1>6 DEF SuperStepDone, Joined, store
  <2>2. /\ IsPath(graph, Merged)
        /\ FrontierAfter(graph, Merged) = Targets(graph, Merged[Len(Merged)]) \ {END}
    BY <1>t, <2>1, PathExtends DEF IInv, LoopAtBoundary
  <2>3. RowKnown' /\ CheckpointExact' /\ StateIsPath'
    <3>1. pc' # "idle"
      BY <1>6, <2>1 DEF SuperStepDone, Conclude
    <3>2. QED
      BY <2>1, <2>2, <3>1 DEF IInv, RowKnown, CheckpointExact, StateIsPath
  <2>4. LoopAtBoundary'
    <3>1. CASE pc' = "closing"
      BY <3>1 DEF LoopAtBoundary
    <3>2. CASE pc' # "closing"
      <4>1. /\ frontier' = Targets(graph, Merged[Len(Merged)]) \ {END}
            /\ step' = step + 1
        BY <1>6, <3>2 DEF SuperStepDone, Conclude
      <4>2. step = Len(state) /\ Len(Merged) = Len(state) + 1
        BY <1>t, <2>1, MergedFacts DEF IInv, LoopAtBoundary, Boundary
      <4>3. QED
        BY <2>1, <2>2, <4>1, <4>2 DEF LoopAtBoundary, Boundary
    <3>3. QED
      BY <3>1, <3>2
  <2>5. QED
    BY <1>t, <2>3, <2>4 DEF IInv
<1>7. CASE SuperStepFailed
  BY <1>t, <1>7, QuietStep DEF SuperStepFailed, Joined, Conclude, store
<1>8. CASE BackoffElapsed
  BY <1>t, <1>8, QuietStep DEF BackoffElapsed, BeginAttempt, store, loop
<1>9. CASE BackoffCancelled
  BY <1>t, <1>9, QuietStep DEF BackoffCancelled, Conclude, store, loop
<1>10. CASE SetStatus
  <2>1. /\ pc = "closing" /\ pc' = "closed"
        /\ UNCHANGED <<graph, step, frontier, state>>
    BY <1>10 DEF SetStatus, loop
  <2>2. CASE row' = row
    BY <1>t, <2>1, <2>2, QuietStep
  <2>3. CASE row # Nobody /\ row' = [row EXCEPT !.status = StoredAs(verdict)]
    <3>1. row \in Row
      BY <1>t, <2>3 DEF TypeOK
    <3>2. /\ row'.label = row.label /\ row'.step = row.step
          /\ row'.frontier = row.frontier /\ row'.state = row.state
      BY <2>3, <3>1 DEF Row
    <3>3. QED
      BY <1>t, <2>1, <2>3, <3>2
         DEF IInv, RowKnown, CheckpointExact, StateIsPath, LoopAtBoundary
  <2>4. QED
    BY <1>10, <2>2, <2>3 DEF SetStatus
<1>11. CASE Report
  BY <1>t, <1>11, QuietStep DEF Report, store, loop
<1>12. ASSUME NEW n \in Name, NodeEnds(n) PROVE IInv'
  BY <1>t, <1>12, QuietStep DEF NodeEnds, store, loop
<1>13. ASSUME NEW n \in Name, Panic(n) PROVE IInv'
  BY <1>t, <1>13, QuietStep DEF Panic, store, loop
<1>14. CASE Cancel
  BY <1>t, <1>14, QuietStep DEF Cancel, Driving, store, loop
<1>15. CASE Crash
  <2>1. /\ pc # "idle" /\ pc' = "crashed" /\ state' = <<>>
        /\ UNCHANGED <<row, graph>>
    BY <1>15 DEF Crash, Driving, store
  <2>2. IsPath(graph, <<>>)
    BY EntryBoundary DEF Boundary
  <2>3. QED
    BY <1>t, <2>1, <2>2
       DEF IInv, RowKnown, CheckpointExact, StateIsPath, LoopAtBoundary
<1>16. CASE UNCHANGED vars
  BY <1>t, <1>16
     DEF vars, IInv, RowKnown, CheckpointExact, StateIsPath, LoopAtBoundary
<1>17. QED
  BY <1>1, <1>2, <1>3, <1>4, <1>5, <1>6, <1>7, <1>8, <1>9, <1>10, <1>11,
     <1>12, <1>13, <1>14, <1>15, <1>16 DEF Next, RunGraph

\* Whatever crashes, cancels, retries and store errors happen, a stored row is
\* a genuine super-step boundary of its blueprint (checkpoint.rs), provided
\* labels identify blueprints.
THEOREM CheckpointCorrect ==
  ASSUME UniqueLabels
  PROVE  Spec => []CheckpointExact
<1>1. IInv /\ [Next]_vars => IInv'
  BY NextIInv
<1>2. IInv => CheckpointExact
  BY DEF IInv
<1>3. QED
  BY InitIInv, <1>1, <1>2, PTL DEF Spec

\* What a driver works on and returns is a path of the graph (run_graph).
THEOREM TranscriptCorrect ==
  ASSUME UniqueLabels
  PROVE  Spec => []StateIsPath
<1>1. IInv /\ [Next]_vars => IInv'
  BY NextIInv
<1>2. IInv => StateIsPath
  BY DEF IInv
<1>3. QED
  BY InitIInv, <1>1, <1>2, PTL DEF Spec


-----------------------------------------------------------------------------
(* Attempts.                                                               *)

\* An attempt begun in spite of the token is the last one: it can only be left
\* for the end of the run.
LateIsLast ==
  /\ late = 1 => cancelled
  /\ pc \in {"top", "backoff"} => late = 0

\* CancelStopsSoon is not inductive: it needs to know that a late attempt is
\* never followed by another one.
AttemptInv == NoOrphanNode /\ late \in {0, 1} /\ LateIsLast

\* No attempt, no node.
LEMMA InitAttemptInv == Init => AttemptInv
BY DEF Init, AttemptInv, NoOrphanNode, LateIsLast, Idle

\* A step that begins no attempt, moves neither token nor nodes and does not
\* enter the loop keeps the invariant.
LEMMA QuietAttempt ==
  ASSUME AttemptInv, pc # "attempt", UNCHANGED <<node, late, cancelled>>,
         pc' \notin {"top", "backoff"}
  PROVE  AttemptInv'
BY DEF AttemptInv, NoOrphanNode, LateIsLast

\* Beginning an attempt from the loop or the backoff spends the one late attempt.
LEMMA BeginAttemptInv ==
  ASSUME AttemptInv, BeginAttempt, pc \in {"top", "backoff"}, UNCHANGED cancelled
  PROVE  AttemptInv'
<1>1. late = 0 /\ pc' = "attempt"
  BY DEF AttemptInv, LateIsLast, BeginAttempt
<1>2. late' = IF cancelled THEN 1 ELSE 0
  BY <1>1 DEF BeginAttempt
<1>3. QED
  BY <1>1, <1>2 DEF AttemptInv, NoOrphanNode, LateIsLast

\* A fresh driver or a dead one has no node running and no late attempt.
LEMMA FreshAttemptInv ==
  ASSUME node' = Idle, late' = 0
  PROVE  AttemptInv'
BY DEF AttemptInv, NoOrphanNode, LateIsLast, Idle

\* Every step keeps nodes within their attempt and late attempts from following one
\* another.
LEMMA NextAttemptInv == AttemptInv /\ [Next]_vars => AttemptInv'
<1> SUFFICES ASSUME AttemptInv, [Next]_vars PROVE AttemptInv'
  OBVIOUS
<1>1. ASSUME NEW g \in Graphs, Start(g) \/ Resume(g) PROVE AttemptInv'
  BY <1>1, FreshAttemptInv DEF Start, Resume, Drive
<1>2. CASE StepLimit
  BY <1>2, QuietAttempt DEF StepLimit, Conclude, attempts
<1>3. CASE AllPathsEnded
  BY <1>3, QuietAttempt DEF AllPathsEnded, Conclude, attempts
<1>4. CASE BeginSuperStep
  BY <1>4, BeginAttemptInv DEF BeginSuperStep
<1>5. ASSUME Joined, node' = Consumed, UNCHANGED <<cancelled, late>>,
             \/ pc' = "closing"
             \/ ~cancelled /\ pc' \in {"top", "backoff"}
      PROVE  AttemptInv'
  <2>1. \A n \in Name : node'[n] = "idle"
    BY <1>5 DEF Joined, Consumed
  <2>2. pc' # "closing" => late' = 0
    BY <1>5 DEF AttemptInv, LateIsLast
  <2>3. QED
    BY <1>5, <2>1, <2>2 DEF AttemptInv, NoOrphanNode, LateIsLast
<1>6. CASE SuperStepDone
  BY <1>5, <1>6 DEF SuperStepDone, Conclude, Interrupted
<1>7. CASE SuperStepFailed
  BY <1>5, <1>7 DEF SuperStepFailed, Conclude, Interrupted
<1>8. CASE BackoffElapsed
  BY <1>8, BeginAttemptInv DEF BackoffElapsed
<1>9. CASE BackoffCancelled
  BY <1>9, QuietAttempt DEF BackoffCancelled, Conclude, attempts
<1>10. CASE SetStatus
  BY <1>10, QuietAttempt DEF SetStatus, attempts
<1>11. CASE Report
  BY <1>11, QuietAttempt DEF Report, attempts
<1>12. ASSUME NEW n \in Name, NodeEnds(n) PROVE AttemptInv'
  BY <1>12 DEF NodeEnds, AttemptInv, NoOrphanNode, LateIsLast
<1>13. ASSUME NEW n \in Name, Panic(n) PROVE AttemptInv'
  BY <1>13 DEF Panic, AttemptInv, NoOrphanNode, LateIsLast, Idle
<1>14. CASE Cancel
  BY <1>14 DEF Cancel, attempts, AttemptInv, NoOrphanNode, LateIsLast
<1>15. CASE Crash
  BY <1>15, FreshAttemptInv DEF Crash
<1>16. CASE UNCHANGED vars
  BY <1>16 DEF vars, AttemptInv, NoOrphanNode, LateIsLast
<1>17. QED
  BY <1>1, <1>2, <1>3, <1>4, <1>6, <1>7, <1>8, <1>9, <1>10, <1>11,
     <1>12, <1>13, <1>14, <1>15, <1>16 DEF Next, RunGraph

\* No node outlives its attempt: a retry, a resume or the final status never
\* overlaps with a sibling of the node that failed (run_frontier).
THEOREM NoOrphan == Spec => []NoOrphanNode
<1>1. AttemptInv => NoOrphanNode
  BY DEF AttemptInv
<1>2. QED
  BY InitAttemptInv, NextAttemptInv, <1>1, PTL DEF Spec

\* After a cancellation at most one more attempt is begun, whatever the step
\* and retry budgets (run_graph).
THEOREM CancellationStops == Spec => []CancelStopsSoon
<1>1. AttemptInv => CancelStopsSoon
  BY DEF AttemptInv, CancelStopsSoon
<1>2. QED
  BY InitAttemptInv, NextAttemptInv, <1>1, PTL DEF Spec

-----------------------------------------------------------------------------
(* What is stored, what is durable and what is reported.                   *)

\* There is no row before the first driver.
NoRowYet == pc = "idle" => row = Nobody

\* Once a super-step was begun the run has a row; a driver that has begun none
\* stands at the entry.
RowOnceBegun ==
  ~faulted =>
    /\ pc \in {"attempt", "backoff", "closing"} => row # Nobody
    /\ pc = "top" => row # Nobody \/ (step = 0 /\ frontier # {})

\* Between the write of the status and the report they agree.
ClosedIsStored ==
  ~faulted /\ pc = "closed" => row # Nobody /\ row.status = StoredAs(verdict)

ReportsOnReturn == reported # "none" => pc = "returned"

StoreInv ==
  /\ TypeOK
  /\ NoRowYet /\ ResumesExactlyHere /\ DurableIsPrefix
  /\ RowOnceBegun /\ ClosedIsStored /\ ReportsOnReturn /\ ReportedIsStored

\* A transcript is a prefix of itself and of what extends it.
LEMMA PrefixReflexive ==
  ASSUME NEW s \in Transcript
  PROVE  IsPrefix(s, s)
BY DEF IsPrefix, Transcript

\* What was a prefix of the state is one of the merged state.
LEMMA PrefixOfMerged ==
  ASSUME TypeOK, NEW s \in Transcript, IsPrefix(s, state)
  PROVE  IsPrefix(s, Merged)
<1>1. /\ s \in Seq(Entry) /\ state \in Seq(Entry) /\ Merged \in Seq(Entry)
      /\ Len(Merged) = Len(state) + 1
      /\ \A k \in 1..Len(state) : Merged[k] = state[k]
  BY MergedFacts DEF TypeOK, Transcript
<1>2. Len(s) \in Nat /\ Len(state) \in Nat /\ Len(s) <= Len(state)
  BY <1>1 DEF IsPrefix
<1>3. SubSeq(state, 1, Len(s)) = SubSeq(Merged, 1, Len(s))
  BY <1>1, <1>2
<1>4. QED
  BY <1>1, <1>2, <1>3 DEF IsPrefix

\* Before the first write nothing is stored and nothing reported.
LEMMA InitStoreInv == Init => StoreInv
BY InitType
   DEF Init, StoreInv, NoRowYet, ResumesExactlyHere, DurableIsPrefix, RowOnceBegun,
       ClosedIsStored, ReportsOnReturn, ReportedIsStored, Driving

\* A driver that moves on without touching row and loop keeps the invariant, if
\* it has a row by then.
LEMMA QuietStore ==
  ASSUME StoreInv, TypeOK',
         UNCHANGED <<row, faulted, graph, step, frontier, state, reported>>,
         pc \in Driving,
         pc' \in {"attempt", "backoff", "closing", "returned"},
         pc' \in {"attempt", "backoff"} => pc \in {"attempt", "backoff"},
         ~faulted => row # Nobody
  PROVE  StoreInv'
<1>1. reported = "none" /\ reported' = "none"
  BY DEF StoreInv, ReportsOnReturn, Driving
<1>2. NoRowYet' /\ RowOnceBegun' /\ ClosedIsStored' /\ ReportsOnReturn' /\ ReportedIsStored'
  BY <1>1 DEF NoRowYet, RowOnceBegun, ClosedIsStored, ReportsOnReturn, ReportedIsStored
<1>3. ResumesExactlyHere' /\ DurableIsPrefix'
  BY DEF StoreInv, ResumesExactlyHere, DurableIsPrefix, Driving
<1>4. QED
  BY <1>2, <1>3 DEF StoreInv

\* A driver that enters the loop keeps the invariant, if what it holds extends
\* the row, or there is no row and it stands at the entry.
LEMMA EnterLoop ==
  ASSUME TypeOK', pc' = "top", reported' = "none",
         row' # Nobody => IsPrefix(row'.state, state'),
         ~faulted' => row' # Nobody \/ (step' = 0 /\ frontier' # {})
  PROVE  StoreInv'
BY DEF StoreInv, NoRowYet, ResumesExactlyHere, DurableIsPrefix, RowOnceBegun,
       ClosedIsStored, ReportsOnReturn, ReportedIsStored

\* Every step keeps what the store owes the loop.
LEMMA NextStoreInv == StoreInv /\ [Next]_vars => StoreInv'
<1> SUFFICES ASSUME StoreInv, [Next]_vars PROVE StoreInv'
  OBVIOUS
<1>t. TypeOK /\ TypeOK'
  BY NextType DEF StoreInv
<1>r. ASSUME row # Nobody PROVE row \in Row /\ row.state \in Transcript
  BY <1>t, <1>r DEF TypeOK, Row
<1>b. ASSUME pc \in {"attempt", "backoff"}, ~faulted PROVE row # Nobody
  BY <1>b DEF StoreInv, RowOnceBegun
<1>n. pc \in Driving => reported = "none"
  BY DEF StoreInv, ReportsOnReturn, Driving
<1>1. ASSUME NEW g \in Graphs, Start(g) PROVE StoreInv'
  <2>1. row' = Nobody /\ step' = 0 /\ frontier' # {} /\ pc' = "top" /\ reported' = "none"
    BY <1>1 DEF Start, Drive, store, StoreInv, NoRowYet
  <2>2. QED
    BY <1>t, <2>1, EnterLoop
<1>2. ASSUME NEW g \in Graphs, Resume(g) PROVE StoreInv'
  <2>1. /\ row # Nobody /\ row' = row /\ state' = row.state
        /\ pc' = "top" /\ reported' = "none"
    BY <1>2 DEF Resume, MayResume, ResumePoint, Drive, store
  <2>2. IsPrefix(row'.state, state')
    BY <1>r, <2>1, PrefixReflexive
  <2>3. QED
    BY <1>t, <2>1, <2>2, EnterLoop
<1>3. CASE StepLimit
  <2>1. /\ pc = "top" /\ pc' = "closing" /\ step >= MaxSteps
        /\ UNCHANGED <<row, faulted, graph, step, frontier, state, reported>>
    BY <1>3 DEF StepLimit, Conclude, store, loop
  <2>2. step # 0
    BY <1>t, <2>1, ExecutorAssumption DEF TypeOK
  <2>3. ~faulted => row # Nobody
    BY <2>1, <2>2 DEF StoreInv, RowOnceBegun
  <2>4. QED
    BY <1>t, <2>1, <2>3, QuietStore DEF Driving
<1>4. CASE AllPathsEnded
  <2>1. /\ pc = "top" /\ pc' = "closing" /\ frontier = {}
        /\ UNCHANGED <<row, faulted, graph, step, frontier, state, reported>>
    BY <1>4 DEF AllPathsEnded, Conclude, store, loop
  <2>2. ~faulted => row # Nobody
    BY <2>1 DEF StoreInv, RowOnceBegun
  <2>3. QED
    BY <1>t, <2>1, <2>2, QuietStore DEF Driving
<1>5. CASE BeginSuperStep
  <2>1. PICK ok \in BOOLEAN : SaveCheckpoint(ok)
    BY <1>5 DEF BeginSuperStep
  <2>2. /\ pc = "top" /\ pc' = "attempt"
        /\ UNCHANGED <<graph, step, frontier, state, reported>>
    BY <1>5 DEF BeginSuperStep, BeginAttempt
  <2>3. reported' = "none"
    BY <1>n, <2>2 DEF Driving
  <2>4. CASE ok
    <3>1. row' = Snapshot /\ row'.state = state'
      BY <2>1, <2>2, <2>4 DEF SaveCheckpoint, Snapshot
    <3>2. Snapshot # Nobody
      <4>1. graph \in Graphs
        BY <1>t, <2>2 DEF TypeOK
      <4>2. Snapshot \in Row
        BY <1>t, <4>1, GraphFacts DEF TypeOK, Snapshot, Row, RunState
      <4>3. QED
        BY <4>2, NobodyAssumption
    <3>3. DurableIsPrefix' /\ ResumesExactlyHere'
      <4>1. state \in Transcript
        BY <1>t DEF TypeOK
      <4>2. IsPrefix(state, state)
        BY <4>1, PrefixReflexive
      <4>3. QED
        BY <2>2, <3>1, <4>2 DEF DurableIsPrefix, ResumesExactlyHere, Snapshot
    <3>4. QED
      BY <1>t, <2>2, <2>3, <3>1, <3>2, <3>3
         DEF StoreInv, NoRowYet, RowOnceBegun, ClosedIsStored, ReportsOnReturn,
             ReportedIsStored
  <2>5. CASE ~ok
    <3>1. row' = row /\ faulted'
      BY <2>1, <2>5 DEF SaveCheckpoint
    <3>2. QED
      BY <1>t, <2>2, <2>3, <3>1
         DEF StoreInv, NoRowYet, ResumesExactlyHere, DurableIsPrefix, RowOnceBegun,
             ClosedIsStored, ReportsOnReturn, ReportedIsStored, Driving
  <2>6. QED
    BY <2>4, <2>5
<1>6. CASE SuperStepDone
  <2>1. /\ pc = "attempt" /\ state' = Merged /\ pc' \in {"closing", "top"}
        /\ UNCHANGED <<row, faulted, graph, reported>>
    BY <1>6 DEF SuperStepDone, Joined, Conclude, store
  <2>2. ASSUME row # Nobody PROVE IsPrefix(row.state, Merged)
    <3>1. IsPrefix(row.state, state)
      BY <2>1, <2>2 DEF StoreInv, DurableIsPrefix, Driving
    <3>2. QED
      BY <1>t, <1>r, <2>2, <3>1, PrefixOfMerged
  <2>3. ~faulted => row # Nobody
    BY <1>b, <2>1
  <2>4. reported' = "none"
    BY <1>n, <2>1 DEF Driving
  <2>5. QED
    BY <1>t, <2>1, <2>2, <2>3, <2>4
       DEF StoreInv, NoRowYet, ResumesExactlyHere, DurableIsPrefix, RowOnceBegun,
           ClosedIsStored, ReportsOnReturn, ReportedIsStored
<1>7. CASE SuperStepFailed
  <2>1. /\ pc = "attempt" /\ pc' \in {"closing", "backoff"}
        /\ UNCHANGED <<row, faulted, graph, step, frontier, state, reported>>
    BY <1>7 DEF SuperStepFailed, Joined, Conclude, store
  <2>2. QED
    BY <1>t, <1>b, <2>1, QuietStore DEF Driving
<1>8. CASE BackoffElapsed
  <2>1. /\ pc = "backoff" /\ pc' = "attempt"
        /\ UNCHANGED <<row, faulted, graph, step, frontier, state, reported>>
    BY <1>8 DEF BackoffElapsed, BeginAttempt, store, loop
  <2>2. QED
    BY <1>t, <1>b, <2>1, QuietStore DEF Driving
<1>9. CASE BackoffCancelled
  <2>1. /\ pc = "backoff" /\ pc' = "closing"
        /\ UNCHANGED <<row, faulted, graph, step, frontier, state, reported>>
    BY <1>9 DEF BackoffCancelled, Conclude, store, loop
  <2>2. QED
    BY <1>t, <1>b, <2>1, QuietStore DEF Driving
<1>10. CASE SetStatus
  <2>1. /\ pc = "closing" /\ pc' = "closed"
        /\ UNCHANGED <<graph, step, frontier, state, verdict, reported>>
    BY <1>10 DEF SetStatus, loop
  <2>2. PICK ok \in BOOLEAN :
          /\ row' = IF ok /\ row # Nobody
                      THEN [row EXCEPT !.status = StoredAs(verdict)] ELSE row
          /\ faulted' = (faulted \/ ~ok)
    BY <1>10 DEF SetStatus
  <2>3. reported' = "none"
    BY <1>n, <2>1 DEF Driving
  <2>4. row' # Nobody => row # Nobody /\ row'.state = row.state
    BY <1>r, <2>2 DEF Row
  <2>5. ~faulted' => row' # Nobody /\ row'.status = StoredAs(verdict)
    <3>1. ASSUME ~faulted' PROVE ok /\ row # Nobody
      BY <2>1, <2>2, <3>1 DEF StoreInv, RowOnceBegun
    <3>2. row # Nobody => [row EXCEPT !.status = StoredAs(verdict)] # Nobody
      <4>1. StoredAs(verdict) \in RunState
        BY DEF StoredAs, RunState
      <4>2. row # Nobody => [row EXCEPT !.status = StoredAs(verdict)] \in Row
        BY <1>r, <4>1 DEF Row
      <4>3. QED
        BY <4>2, NobodyAssumption
    <3>3. QED
      BY <1>r, <2>2, <3>1, <3>2 DEF Row
  <2>6. DurableIsPrefix'
    BY <2>1, <2>4 DEF StoreInv, DurableIsPrefix, Driving
  <2>7. QED
    BY <1>t, <2>1, <2>3, <2>5, <2>6
       DEF StoreInv, NoRowYet, ResumesExactlyHere, RowOnceBegun, ClosedIsStored,
           ReportsOnReturn, ReportedIsStored
<1>11. CASE Report
  <2>1. /\ pc = "closed" /\ pc' = "returned" /\ reported' = verdict
        /\ UNCHANGED <<row, faulted>>
    BY <1>11 DEF Report, store
  <2>2. QED
    BY <1>t, <2>1
       DEF StoreInv, NoRowYet, ResumesExactlyHere, DurableIsPrefix, RowOnceBegun,
           ClosedIsStored, ReportsOnReturn, ReportedIsStored, Driving
<1>12. ASSUME NEW n \in Name, NodeEnds(n) PROVE StoreInv'
  <2>1. /\ pc = "attempt" /\ pc' = "attempt"
        /\ UNCHANGED <<row, faulted, graph, step, frontier, state, reported>>
    BY <1>12 DEF NodeEnds, store, loop
  <2>2. QED
    BY <1>t, <1>b, <2>1, QuietStore DEF Driving
<1>13. ASSUME NEW n \in Name, Panic(n) PROVE StoreInv'
  <2>1. /\ pc = "attempt" /\ pc' = "returned"
        /\ UNCHANGED <<row, faulted, graph, step, frontier, state, reported>>
    BY <1>13 DEF Panic, store, loop
  <2>2. QED
    BY <1>t, <1>b, <2>1, QuietStore DEF Driving
<1>14. CASE Cancel
  BY <1>t, <1>14
     DEF Cancel, store, loop, StoreInv, NoRowYet, ResumesExactlyHere,
         DurableIsPrefix, RowOnceBegun, ClosedIsStored, ReportsOnReturn,
         ReportedIsStored
<1>15. CASE Crash
  BY <1>t, <1>15
     DEF Crash, store, StoreInv, NoRowYet, ResumesExactlyHere, DurableIsPrefix,
         RowOnceBegun, ClosedIsStored, ReportsOnReturn, ReportedIsStored, Driving
<1>16. CASE UNCHANGED vars
  BY <1>t, <1>16
     DEF vars, StoreInv, NoRowYet, ResumesExactlyHere, DurableIsPrefix,
         RowOnceBegun, ClosedIsStored, ReportsOnReturn, ReportedIsStored
<1>17. QED
  BY <1>1, <1>2, <1>3, <1>4, <1>5, <1>6, <1>7, <1>8, <1>9, <1>10, <1>11,
     <1>12, <1>13, <1>14, <1>15, <1>16 DEF Next, RunGraph

\* A crash or cancellation during a super-step resumes from exactly that
\* boundary, unless a write of the store failed (save_checkpoint in run_graph).
THEOREM ExactResume == Spec => []ResumesExactlyHere
<1>1. StoreInv => ResumesExactlyHere
  BY DEF StoreInv
<1>2. QED
  BY InitStoreInv, NextStoreInv, <1>1, PTL DEF Spec

\* The row never runs ahead of its driver, failing writes or not
\* (save_checkpoint, set_checkpoint_status).
THEOREM DurablePrefix == Spec => []DurableIsPrefix
<1>1. StoreInv => DurableIsPrefix
  BY DEF StoreInv
<1>2. QED
  BY InitStoreInv, NextStoreInv, <1>1, PTL DEF Spec

\* What a client reads in BlueprintCompleted is already in the store, unless a
\* write failed (run_graph stores the status before it emits the event).
THEOREM ReportAfterStore == Spec => []ReportedIsStored
<1>1. StoreInv => ReportedIsStored
  BY DEF StoreInv
<1>2. QED
  BY InitStoreInv, NextStoreInv, <1>1, PTL DEF Spec

-----------------------------------------------------------------------------
(* Completion.  Here labels have to identify blueprints again: whether a path *)
(* of the run is alive depends on the graph its row was taken against.      *)

\* A driver about to store a completion has followed every path to its end.
ClosingIsDone ==
  pc = "closing" /\ verdict = "completed" => FrontierAfter(graph, state) = {}

\* A run closes as completed only from an empty frontier.
LEMMA NextClosingIsDone ==
  ASSUME IInv, ClosingIsDone, [Next]_vars
  PROVE  ClosingIsDone'
<1>1. CASE AllPathsEnded
  <2>1. pc = "top" /\ frontier = {} /\ UNCHANGED <<graph, state>>
    BY <1>1 DEF AllPathsEnded, loop
  <2>2. frontier = FrontierAfter(graph, state)
    BY <2>1 DEF IInv, LoopAtBoundary, Boundary
  <2>3. QED
    BY <2>1, <2>2 DEF ClosingIsDone
<1>2. ASSUME pc' = "closing" => verdict' # "completed" PROVE ClosingIsDone'
  BY <1>2 DEF ClosingIsDone
<1>3. ASSUME UNCHANGED <<pc, verdict, graph, state>> PROVE ClosingIsDone'
  BY <1>3 DEF ClosingIsDone
<1>4. CASE \E g \in Graphs : Start(g) \/ Resume(g)
  BY <1>2, <1>4 DEF Start, Resume, Drive
<1>5. CASE StepLimit
  BY <1>2, <1>5 DEF StepLimit, Conclude
<1>6. CASE BeginSuperStep
  BY <1>2, <1>6 DEF BeginSuperStep, BeginAttempt
<1>7. CASE SuperStepDone
  BY <1>2, <1>7 DEF SuperStepDone, Conclude
<1>8. CASE SuperStepFailed
  BY <1>2, <1>8 DEF SuperStepFailed, Conclude
<1>9. CASE BackoffElapsed
  BY <1>2, <1>9 DEF BackoffElapsed, BeginAttempt
<1>10. CASE BackoffCancelled
  BY <1>2, <1>10 DEF BackoffCancelled, Conclude
<1>11. CASE SetStatus
  BY <1>2, <1>11 DEF SetStatus
<1>12. CASE Report
  BY <1>2, <1>12 DEF Report
<1>13. CASE \E n \in Name : NodeEnds(n) \/ Panic(n)
  BY <1>2, <1>3, <1>13 DEF NodeEnds, Panic, Joined, loop
<1>14. CASE Cancel
  BY <1>3, <1>14 DEF Cancel, loop
<1>15. CASE Crash
  BY <1>2, <1>15 DEF Crash
<1>16. CASE UNCHANGED vars
  BY <1>3, <1>16 DEF vars
<1>17. QED
  BY <1>1, <1>4, <1>5, <1>6, <1>7, <1>8, <1>9, <1>10, <1>11, <1>12, <1>13,
     <1>14, <1>15, <1>16 DEF Next, RunGraph

\* The only writer of a completion is set_checkpoint_status.
LEMMA CompletionWritten ==
  ASSUME TypeOK, ClosingIsDone, [Next]_vars, row # row', row'.status = "completed"
  PROVE  FrontierAfter(graph, state) = {}
<1>1. BeginSuperStep \/ SetStatus
  BY DEF Next, RunGraph, Start, Resume, Drive, StepLimit, AllPathsEnded, SuperStepDone,
         SuperStepFailed, BackoffElapsed, BackoffCancelled, Report, NodeEnds, Panic,
         Cancel, Crash, store, vars
<1>2. ~BeginSuperStep
  BY DEF BeginSuperStep, SaveCheckpoint, Snapshot
<1>3. /\ pc = "closing" /\ row # Nobody
      /\ row' = [row EXCEPT !.status = StoredAs(verdict)]
  BY <1>1, <1>2 DEF SetStatus
<1>4. row'.status = StoredAs(verdict)
  BY <1>3 DEF TypeOK, Row
<1>5. verdict = "completed"
  BY <1>4 DEF StoredAs
<1>6. QED
  BY <1>3, <1>5 DEF ClosingIsDone

\* A row turns completed only when no path of the run is alive
\* (run_graph, set_checkpoint_status), provided labels identify blueprints.
THEOREM CompletionIsDone ==
  ASSUME UniqueLabels
  PROVE  Spec => CompletedMeansDone
<1>1. Init => IInv /\ ClosingIsDone
  BY InitIInv DEF Init, ClosingIsDone
<1>2. IInv /\ ClosingIsDone /\ [Next]_vars => IInv' /\ ClosingIsDone'
  BY NextIInv, NextClosingIsDone
<1>3. IInv /\ ClosingIsDone /\ [Next]_vars =>
        [row # row' /\ row'.status = "completed" => FrontierAfter(graph, state) = {}]_vars
  BY CompletionWritten DEF IInv
<1>4. QED
  BY <1>1, <1>2, <1>3, PTL DEF Spec, CompletedMeansDone

-----------------------------------------------------------------------------
(* The executor implements RunRecord.                                      *)

\* A row that is driven is open: only a driver about to return closes it.
DrivenIsOpen ==
  pc \in {"top", "attempt", "backoff", "closing"} /\ row # Nobody =>
    row.status \in Resumable

RecordInv == IInv /\ StoreInv /\ DrivenIsOpen

\* Only a row that may be resumed is driven on, and a driver that closes it is done.
LEMMA NextDrivenIsOpen ==
  ASSUME RecordInv, [Next]_vars
  PROVE  DrivenIsOpen'
<1>1. CASE \E g \in Graphs : Start(g)
  BY <1>1 DEF Start, Drive, store, RecordInv, StoreInv, NoRowYet, DrivenIsOpen
<1>2. CASE \E g \in Graphs : Resume(g)
  BY <1>2 DEF Resume, MayResume, Drive, store, DrivenIsOpen
<1>3. CASE BeginSuperStep
  <2>1. PICK ok \in BOOLEAN : SaveCheckpoint(ok)
    BY <1>3 DEF BeginSuperStep
  <2>2. CASE ok
    BY <2>1, <2>2 DEF SaveCheckpoint, Snapshot, DrivenIsOpen, Resumable
  <2>3. CASE ~ok
    BY <1>3, <2>1, <2>3 DEF BeginSuperStep, SaveCheckpoint, RecordInv, DrivenIsOpen
  <2>4. QED
    BY <2>2, <2>3
<1>4. CASE SetStatus
  BY <1>4 DEF SetStatus, DrivenIsOpen
<1>5. ASSUME row' = row,
             \/ pc \in {"top", "attempt", "backoff", "closing"}
             \/ pc' \notin {"top", "attempt", "backoff", "closing"}
      PROVE  DrivenIsOpen'
  BY <1>5 DEF RecordInv, DrivenIsOpen
<1>6. CASE StepLimit \/ AllPathsEnded \/ SuperStepDone \/ SuperStepFailed
             \/ BackoffElapsed \/ BackoffCancelled \/ Report
  BY <1>5, <1>6
     DEF StepLimit, AllPathsEnded, SuperStepDone, SuperStepFailed, BackoffElapsed,
         BackoffCancelled, Report, Joined, store
<1>7. CASE \E n \in Name : NodeEnds(n) \/ Panic(n)
  BY <1>5, <1>7 DEF NodeEnds, Panic, store
<1>8. CASE Crash
  BY <1>5, <1>8 DEF Crash, store
<1>9. CASE Cancel \/ UNCHANGED vars
  BY <1>9 DEF Cancel, store, vars, RecordInv, DrivenIsOpen
<1>10. QED
  BY <1>1, <1>2, <1>3, <1>4, <1>6, <1>7, <1>8, <1>9 DEF Next, RunGraph

\* A step that leaves the row alone, and the graph once there is a row, is no
\* step of the record.
LEMMA RecordStutters ==
  ASSUME row' = row, row # Nobody => graph' = graph
  PROVE  UNCHANGED Record!record
BY DEF Record!record, Life

\* The record speaks of paths and prefixes as the executor does.
LEMMA SamePaths == \A g, s : Record!IsPath(g, s) <=> IsPath(g, s)
BY DEF IsPath, Targets, Route, Out, Conditional, Taken, Record!IsPath,
       Record!Targets, Record!Route, Record!Out, Record!Conditional, Record!Taken

\* The record means by a prefix what the executor means.
LEMMA SamePrefixes == \A s, t : Record!IsPrefix(s, t) <=> IsPrefix(s, t)
BY DEF IsPrefix, Record!IsPrefix

\* Saving a boundary opens the record or extends it.
LEMMA SavingSteps ==
  ASSUME RecordInv, BeginSuperStep
  PROVE  [Record!Next]_(Record!record)
<1>t. TypeOK
  BY DEF RecordInv, IInv
<1>1. pc = "top" /\ graph \in Graphs /\ UNCHANGED <<graph, state>>
  BY <1>t DEF BeginSuperStep, TypeOK
<1>2. PICK ok \in BOOLEAN : SaveCheckpoint(ok)
  BY DEF BeginSuperStep
<1>3. CASE ~ok
  BY <1>1, <1>2, <1>3, RecordStutters DEF SaveCheckpoint
<1>4. CASE ok
  <2>1. row' = Snapshot /\ row'.state = state /\ row'.status = "running"
    BY <1>2, <1>4 DEF SaveCheckpoint, Snapshot
  <2>2. row' # Nobody
    <3>1. Snapshot \in Row
      BY <1>t, <1>1, GraphFacts DEF TypeOK, Snapshot, Row, RunState
    <3>2. QED
      BY <2>1, <3>1, NobodyAssumption
  <2>3. IsPath(graph, state)
    BY <1>1 DEF RecordInv, IInv, StateIsPath
  <2>4. Life' = "open"
    BY <2>1, <2>2 DEF Life, Resumable
  <2>5. CASE row = Nobody
    <3>1. Life = "absent"
      BY <2>5 DEF Life
    <3>2. Record!Open
      BY <1>1, <2>1, <2>2, <2>3, <2>4, <3>1, SamePaths DEF Record!Open
    <3>3. QED
      BY <3>2 DEF Record!Next
  <2>6. CASE row # Nobody
    <3>1. Life = "open"
      BY <1>1, <2>6 DEF RecordInv, DrivenIsOpen, Life
    <3>2. IsPrefix(row.state, state)
      BY <1>1, <2>6 DEF RecordInv, StoreInv, DurableIsPrefix, Driving
    <3>3. Record!Extend
      BY <1>1, <2>1, <2>2, <2>3, <2>4, <2>6, <3>1, <3>2,
         SamePaths, SamePrefixes DEF Record!Extend
    <3>4. QED
      BY <3>3 DEF Record!Next
  <2>7. QED
    BY <2>5, <2>6
<1>5. QED
  BY <1>3, <1>4

\* Storing the status of a finished drive closes the record or leaves it open.
LEMMA ClosingSteps ==
  ASSUME RecordInv, SetStatus
  PROVE  [Record!Next]_(Record!record)
<1>1. pc = "closing" /\ UNCHANGED graph
  BY DEF SetStatus
<1>2. CASE row' = row
  BY <1>1, <1>2, RecordStutters
<1>3. CASE row # Nobody /\ row' = [row EXCEPT !.status = StoredAs(verdict)]
  <2>1. row \in Row
    BY <1>3 DEF RecordInv, IInv, TypeOK
  <2>2. row' \in Row /\ row'.status = StoredAs(verdict) /\ row'.state = row.state
    BY <1>3, <2>1 DEF Row, StoredAs, RunState
  <2>3. row' # Nobody
    BY <2>2, NobodyAssumption
  <2>4. Life = "open"
    BY <1>1, <1>3 DEF RecordInv, DrivenIsOpen, Life
  <2>5. CASE verdict = "cancelled"
    <3>1. Life' = "open"
      BY <2>2, <2>3, <2>5 DEF Life, StoredAs, Resumable
    <3>2. UNCHANGED Record!record
      BY <1>1, <1>3, <2>2, <2>3, <2>4, <3>1 DEF Record!record
    <3>3. QED
      BY <3>2
  <2>6. CASE verdict # "cancelled"
    <3>1. Life' \in {"completed", "failed"}
      BY <2>2, <2>3, <2>6 DEF Life, StoredAs, Resumable
    <3>2. Record!Close
      BY <1>1, <1>3, <2>2, <2>3, <2>4, <3>1 DEF Record!Close
    <3>3. QED
      BY <3>2 DEF Record!Next
  <2>7. QED
    BY <2>5, <2>6
<1>4. QED
  BY <1>2, <1>3 DEF SetStatus

\* Every step of the executor is one of the record or leaves it alone.
LEMMA RecordStep ==
  ASSUME UniqueLabels, RecordInv, [Next]_vars
  PROVE  [Record!Next]_(Record!record)
<1>1. CASE BeginSuperStep
  BY <1>1, SavingSteps
<1>2. CASE SetStatus
  BY <1>2, ClosingSteps
<1>3. CASE \E g \in Graphs : Start(g)
  <2>1. row' = row /\ row = Nobody
    BY <1>3 DEF Start, Drive, store, RecordInv, StoreInv, NoRowYet
  <2>2. QED
    BY <2>1, RecordStutters
<1>4. ASSUME NEW g \in Graphs, Resume(g) PROVE UNCHANGED Record!record
  <2>1. /\ row # Nobody /\ row.label = g.label /\ row' = row /\ graph' = g
        /\ pc # "idle"
    BY <1>4 DEF Resume, MayResume, Drive, store
  <2>2. graph \in Graphs /\ row.label = graph.label
    BY <2>1 DEF RecordInv, IInv, TypeOK, RowKnown
  <2>3. graph = g
    BY <2>1, <2>2 DEF UniqueLabels
  <2>4. QED
    BY <2>1, <2>3, RecordStutters
<1>5. CASE StepLimit \/ AllPathsEnded \/ SuperStepDone \/ SuperStepFailed
             \/ BackoffElapsed \/ BackoffCancelled \/ Report
  BY <1>5, RecordStutters
     DEF StepLimit, AllPathsEnded, SuperStepDone, SuperStepFailed, BackoffElapsed,
         BackoffCancelled, Report, store
<1>6. CASE \E n \in Name : NodeEnds(n) \/ Panic(n)
  BY <1>6, RecordStutters DEF NodeEnds, Panic, store
<1>7. CASE Cancel \/ Crash \/ UNCHANGED vars
  BY <1>7, RecordStutters DEF Cancel, Crash, store, vars
<1>8. QED
  BY <1>1, <1>2, <1>3, <1>4, <1>5, <1>6, <1>7 DEF Next, RunGraph

\* From outside, a run is a record that is opened once, grows along its graph
\* and is final once closed, whatever crashes, cancellations, panics and failed
\* writes happen (checkpoint.rs), provided labels identify blueprints.
THEOREM ExecutorImplementsRecord ==
  ASSUME UniqueLabels
  PROVE  Spec => ImplementsRecord
<1>1. Init => RecordInv
  BY InitIInv, InitStoreInv DEF Init, RecordInv, DrivenIsOpen
<1>2. RecordInv /\ [Next]_vars => RecordInv'
  BY NextIInv, NextStoreInv, NextDrivenIsOpen DEF RecordInv
<1>3. Init => Record!Init
  BY DEF Init, Record!Init, Life
<1>4. RecordInv /\ [Next]_vars => [Record!Next]_(Record!record)
  BY RecordStep
<1>5. QED
  BY <1>1, <1>2, <1>3, <1>4, PTL DEF Spec, ImplementsRecord, Record!Spec

-----------------------------------------------------------------------------
(* Documents.                                                              *)

\* A document as serde hands it over.
IsDocument(doc, Text) ==
  doc.edges \in Seq([from : Text, to : Text, when : Text \cup {NoWhen}])

\* The first fault decides, and without one there is none.
LEMMA FirstBadFacts ==
  ASSUME NEW n \in Nat, NEW faults, DOMAIN faults = 1..n
  PROVE  /\ FirstBad(faults) = "fine" <=> \A i \in 1..n : faults[i] = "fine"
         /\ n > 0 /\ faults[1] # "fine" => FirstBad(faults) = faults[1]
<1> DEFINE bad == {i \in 1..n : faults[i] # "fine"}
           first == CHOOSE i \in bad : \A j \in bad : i <= j
<1>1. FirstBad(faults) = IF bad = {} THEN "fine" ELSE faults[first]
  BY DEF FirstBad
<1>2. ASSUME bad # {} PROVE first \in bad /\ \A j \in bad : first <= j
  <2>1. bad \subseteq Nat
    OBVIOUS
  <2> HIDE DEF bad
  <2>2. \E i \in bad : \A j \in bad : i <= j
    BY <1>2, <2>1, LeastNat
  <2>3. QED
    BY <2>2
<1> HIDE DEF first
<1>3. FirstBad(faults) = "fine" <=> \A i \in 1..n : faults[i] = "fine"
  BY <1>1, <1>2
<1>4. ASSUME n > 0, faults[1] # "fine" PROVE FirstBad(faults) = faults[1]
  <2>1. 1 \in bad
    BY <1>4
  <2>2. first \in bad /\ first <= 1
    BY <1>2, <2>1
  <2>3. first = 1
    BY <2>2
  <2>4. QED
    BY <1>1, <2>1, <2>3
<1>5. QED
  BY <1>3, <1>4

\* A document is accepted when none of its groups has a fault and the graph can be
\* built, and a fault of its first group is the one complained about.
LEMMA FaultFacts ==
  ASSUME NEW Text, NEW doc, IsDocument(doc, Text)
  PROVE  /\ Accepted(doc) <=> /\ BuildFault(doc) = "fine"
                              /\ \A i \in DOMAIN doc.edges :
                                   GroupFault(doc, doc.edges[i].from) = "fine"
         /\ doc.edges # <<>> /\ GroupFault(doc, doc.edges[1].from) # "fine"
              => Fault(doc) = GroupFault(doc, doc.edges[1].from)
<1> DEFINE n == Len(doc.edges)
           groups == [i \in DOMAIN doc.edges |-> GroupFault(doc, doc.edges[i].from)]
           faults == Append(groups, BuildFault(doc))
<1>1. n \in Nat /\ DOMAIN doc.edges = 1..n /\ (doc.edges # <<>> <=> n > 0)
  BY DEF IsDocument
<1>2. groups \in Seq({groups[i] : i \in 1..n}) /\ Len(groups) = n
  BY <1>1
<1>3. /\ DOMAIN faults = 1..(n + 1)
      /\ faults[n + 1] = BuildFault(doc)
      /\ \A i \in 1..n : faults[i] = GroupFault(doc, doc.edges[i].from)
  BY <1>1, <1>2
<1>4. Fault(doc) = FirstBad(faults)
  BY DEF Fault
<1> HIDE DEF groups, faults, n
<1>5. /\ FirstBad(faults) = "fine" <=> \A i \in 1..(n + 1) : faults[i] = "fine"
      /\ n + 1 > 0 /\ faults[1] # "fine" => FirstBad(faults) = faults[1]
  BY <1>1, <1>3, FirstBadFacts
<1>6. (\A i \in 1..(n + 1) : faults[i] = "fine")
        <=> BuildFault(doc) = "fine" /\ \A i \in 1..n : GroupFault(doc, doc.edges[i].from) = "fine"
  BY <1>1, <1>3
<1>7. n > 0 => faults[1] = GroupFault(doc, doc.edges[1].from)
  BY <1>1, <1>3
<1>8. QED
  BY <1>1, <1>4, <1>5, <1>6, <1>7 DEF Accepted

\* A group without a fault: its source is a node, its edges are all tagged or all
\* plain, and every tagged edge is right by itself.
LEMMA GroupFacts ==
  ASSUME NEW Text, NEW doc, IsDocument(doc, Text), NEW n
  PROVE  GroupFault(doc, n) = "fine" <=>
           /\ n \in DOMAIN doc.nodes
           /\ Tagged(doc, n) \in {{}, Group(doc, n)}
           /\ \A i \in Tagged(doc, n) : BadEdge(doc, doc.edges[i]) = "fine"
<1> DEFINE faults == [i \in DOMAIN doc.edges |->
                        IF i \in Tagged(doc, n) THEN BadEdge(doc, doc.edges[i]) ELSE "fine"]
<1>1. PICK m \in Nat : DOMAIN doc.edges = 1..m
  BY DEF IsDocument
<1>2. DOMAIN faults = 1..m /\ Tagged(doc, n) \subseteq 1..m
  BY <1>1 DEF Tagged, Group
<1>3. (\A i \in 1..m : faults[i] = "fine")
        <=> \A i \in Tagged(doc, n) : BadEdge(doc, doc.edges[i]) = "fine"
  BY <1>1, <1>2
<1>4. EdgesFault(doc, n) = FirstBad(faults)
  BY DEF EdgesFault
<1> HIDE DEF faults
<1>5. EdgesFault(doc, n) = "fine" <=> \A i \in 1..m : faults[i] = "fine"
  BY <1>2, <1>4, FirstBadFacts
<1>6. QED
  BY <1>3, <1>5 DEF GroupFault

\* The loader takes the documents whose names and tags make sense and no other.
LEMMA TakesSound ==
  ASSUME NEW Text, NEW doc, IsDocument(doc, Text)
  PROVE  TakesTheSound(doc)
<1> DEFINE e(i) == doc.edges[i]
           D == DOMAIN doc.edges
           ends == DOMAIN doc.nodes \cup {END}
<1>1. ToSet(doc.edges) = {e(i) : i \in D}
  BY DEF ToSet
<1>2. Accepted(doc) <=>
        /\ doc.entry \in DOMAIN doc.nodes
        /\ \A i \in D : e(i).when = NoWhen => Normalized(e(i).to) \in ends
        /\ \A i \in D : e(i).from \in DOMAIN doc.nodes
        /\ \A i \in D : Tagged(doc, e(i).from) \in {{}, Group(doc, e(i).from)}
        /\ \A i \in D : e(i).when # NoWhen => BadEdge(doc, e(i)) = "fine"
  <2>1. BuildFault(doc) = "fine" <=>
          /\ doc.entry \in DOMAIN doc.nodes
          /\ \A i \in D : e(i).when = NoWhen => Normalized(e(i).to) \in ends
    BY <1>1 DEF BuildFault
  <2>2. (\A i \in D : GroupFault(doc, e(i).from) = "fine") <=>
          /\ \A i \in D : e(i).from \in DOMAIN doc.nodes
          /\ \A i \in D : Tagged(doc, e(i).from) \in {{}, Group(doc, e(i).from)}
          /\ \A i \in D : \A j \in Tagged(doc, e(i).from) : BadEdge(doc, e(j)) = "fine"
    BY GroupFacts
  <2>3. (\A i \in D : \A j \in Tagged(doc, e(i).from) : BadEdge(doc, e(j)) = "fine")
          <=> \A i \in D : e(i).when # NoWhen => BadEdge(doc, e(i)) = "fine"
    BY DEF Tagged, Group
  <2>4. Accepted(doc) <=> BuildFault(doc) = "fine"
                          /\ \A i \in D : GroupFault(doc, e(i).from) = "fine"
    BY FaultFacts
  <2>5. QED
    BY <2>1, <2>2, <2>3, <2>4
<1>3. \A i \in D : Normalized(e(i).to) \in ends
                     <=> e(i).to \in DOMAIN doc.nodes \cup EndSpellings \cup {END}
  BY DEF Normalized
<1>4. \A i \in D : BadEdge(doc, e(i)) = "fine" <=>
                     Normalized(e(i).to) \in ends /\ e(i).when \in {"success", "failure"}
  BY DEF BadEdge
<1>5. (\A i \in D : Tagged(doc, e(i).from) \in {{}, Group(doc, e(i).from)}) <=>
        \A i, j \in D : e(j).from = e(i).from => (e(i).when = NoWhen <=> e(j).when = NoWhen)
  <2>1. ASSUME NEW i \in D
        PROVE  Tagged(doc, e(i).from) \in {{}, Group(doc, e(i).from)} <=>
                 \A j, k \in D : e(j).from = e(i).from /\ e(k).from = e(i).from =>
                   (e(j).when = NoWhen <=> e(k).when = NoWhen)
    BY DEF Tagged, Group
  <2>2. QED
    BY <2>1
<1>6. Sound(doc) <=>
        /\ doc.entry \in DOMAIN doc.nodes
        /\ \A i \in D : /\ e(i).from \in DOMAIN doc.nodes
                        /\ e(i).to \in DOMAIN doc.nodes \cup EndSpellings \cup {END}
                        /\ e(i).when \in {NoWhen, "success", "failure"}
        /\ \A i, j \in D : e(j).from = e(i).from => (e(i).when = NoWhen <=> e(j).when = NoWhen)
  BY <1>1 DEF Sound
<1>7. QED
  BY <1>2, <1>3, <1>4, <1>5, <1>6, LoaderAssumption DEF TakesTheSound

\* What the compiled edges out of a node are.
LEMMA CompiledFacts ==
  ASSUME NEW Text, NEW doc, IsDocument(doc, Text), Sound(doc)
  PROVE  /\ \A e \in ToSet(doc.edges) : e.when \in {NoWhen, "success", "failure"}
         /\ \A x \in Load(doc).edges : \E e \in ToSet(doc.edges) :
              /\ x.from = e.from /\ x.to = Normalized(e.to)
              /\ x.when = IF e.when = NoWhen THEN "always" ELSE e.when
         /\ \A e \in ToSet(doc.edges) : \E x \in Load(doc).edges :
              /\ x.from = e.from /\ x.to = Normalized(e.to)
              /\ x.when = IF e.when = NoWhen THEN "always" ELSE e.when
<1>1. Load(doc).edges = Compiled(doc.edges)
  BY DEF Load
<1>2. \A e \in ToSet(doc.edges) : e.when \in {NoWhen, "success", "failure"}
  BY DEF Sound
<1> DEFINE made(e) == [from |-> e.from, when |-> IF e.when = NoWhen THEN "always" ELSE e.when,
                       to |-> Normalized(e.to)]
<1>3. Load(doc).edges = {made(e) : e \in ToSet(doc.edges)}
  BY <1>1 DEF Compiled
<1>4. \A e : /\ made(e).from = e.from /\ made(e).to = Normalized(e.to)
             /\ made(e).when = IF e.when = NoWhen THEN "always" ELSE e.when
  OBVIOUS
<1> HIDE DEF made
<1>5. QED
  BY <1>2, <1>3, <1>4

\* Groups and routers take a path where its edges say.
LEMMA RoutesRight ==
  ASSUME NEW Text, NEW doc, IsDocument(doc, Text)
  PROVE  RoutesAsWritten(doc)
<1> SUFFICES ASSUME Accepted(doc), NEW n \in DOMAIN doc.nodes, NEW s \in Status
             PROVE  Route(Load(doc), n, s) = Written(doc, n, s)
  BY DEF RoutesAsWritten
<1> DEFINE E == ToSet(doc.edges)
           F == Load(doc).edges
           tag(e) == IF e.when = NoWhen THEN "always" ELSE e.when
           out == {e \in E : e.from = n}
           g == Load(doc)
<1>1. Sound(doc)
  BY TakesSound DEF TakesTheSound
<1>2. /\ \A e \in E : e.when \in {NoWhen, "success", "failure"}
      /\ \A x \in F : \E e \in E : x.from = e.from /\ x.to = Normalized(e.to) /\ x.when = tag(e)
      /\ \A e \in E : \E x \in F : x.from = e.from /\ x.to = Normalized(e.to) /\ x.when = tag(e)
  BY <1>1, CompiledFacts
<1>3. \A e, f \in out : e.when = NoWhen <=> f.when = NoWhen
  BY <1>1 DEF Sound
<1>4. NoWhen \notin {"success", "failure"}
  BY LoaderAssumption
<1>5. Out(g, n) = {x \in F : x.from = n}
  BY DEF Out
<1> HIDE DEF E, F
<1>6. Out(g, n) = {} <=> out = {}
  BY <1>2, <1>5
<1>7. Conditional(g, n) <=> \E e \in out : e.when # NoWhen
  BY <1>2, <1>4, <1>5 DEF Conditional
<1>8. CASE out = {}
  BY <1>6, <1>8 DEF Route, Written, E
<1>9. CASE out # {} /\ Conditional(g, n)
  <2>1. \A e \in out : e.when # NoWhen
    BY <1>3, <1>7, <1>9
  <2>2. Route(g, n, s) = {x.to : x \in {y \in Out(g, n) : y.when = Taken(s)}}
    BY <1>6, <1>9 DEF Route
  <2>3. Written(doc, n, s) = {Normalized(e.to) : e \in {o \in out : o.when = Taken(s)}}
    BY <1>9, <2>1 DEF Written, E
  <2>4. Taken(s) # "always"
    BY DEF Taken
  <2>5. QED
    BY <1>2, <1>5, <2>1, <2>2, <2>3, <2>4
<1>10. CASE out # {} /\ ~Conditional(g, n)
  <2>1. \A e \in out : e.when = NoWhen
    BY <1>7, <1>10
  <2>2. Route(g, n, s) = {x.to : x \in Out(g, n)}
    BY <1>6, <1>10 DEF Route
  <2>3. Written(doc, n, s) = {Normalized(e.to) : e \in out}
    BY <1>10, <2>1 DEF Written, E
  <2>4. QED
    BY <1>2, <1>5, <2>2, <2>3
<1>11. QED
  BY <1>8, <1>9, <1>10

\* The drawing a viewer is shown has the routing that runs.
LEMMA DrawnRight ==
  ASSUME NEW Text, NEW doc, IsDocument(doc, Text)
  PROVE  DrawnAsRouted(doc)
<1> DEFINE D == DOMAIN doc.edges
           spelt(to) == IF to \in EndSpellings THEN "END" ELSE to
           drawn == Describe(doc).edges
           tag(w) == IF w = NoWhen THEN "always" ELSE w
           made(s) == {[from |-> s[i].from, when |-> tag(s[i].when), to |-> Normalized(s[i].to)] :
                       i \in DOMAIN s}
<1>1. drawn = [i \in D |-> [doc.edges[i] EXCEPT !.to = spelt(@)]]
  BY DEF Describe
<1>2. \A i \in D : doc.edges[i] \in [from : Text, to : Text, when : Text \cup {NoWhen}]
  <2> DEFINE S == [from : Text, to : Text, when : Text \cup {NoWhen}]
  <2>1. doc.edges \in Seq(S)
    BY DEF IsDocument
  <2> HIDE DEF S
  <2>2. \A i \in D : doc.edges[i] \in S
    BY <2>1
  <2>3. QED
    BY <2>2 DEF S
<1>3. /\ DOMAIN drawn = D
      /\ \A i \in D : /\ drawn[i].from = doc.edges[i].from
                      /\ drawn[i].when = doc.edges[i].when
                      /\ drawn[i].to = spelt(doc.edges[i].to)
  BY <1>1, <1>2
<1>4. \A to : Normalized(spelt(to)) = Normalized(to)
  BY LoaderAssumption DEF Normalized
<1> HIDE DEF drawn, spelt
<1>5. \A s : Compiled(s) = made(s)
  BY DEF Compiled, ToSet
<1>6. made(drawn) = made(doc.edges)
  BY <1>3, <1>4
<1>7. Load(doc).edges = Compiled(doc.edges)
  BY DEF Load
<1>8. QED
  BY <1>5, <1>6, <1>7 DEF DrawnAsRouted, drawn

\* The shape of the only group is complained about before its edges.
LEMMA ShapeIsFirst ==
  ASSUME NEW Text, NEW doc, IsDocument(doc, Text)
  PROVE  ShapeFirst(doc)
<1> DEFINE n == doc.edges[1].from
<1> SUFFICES ASSUME doc.edges # <<>>, \A e \in ToSet(doc.edges) : e.from = n
             PROVE  IF n \notin DOMAIN doc.nodes THEN Fault(doc) = "source"
                    ELSE (\E e, f \in ToSet(doc.edges) : e.when = NoWhen /\ f.when # NoWhen)
                           => Fault(doc) = "mixed"
  BY DEF ShapeFirst
<1>1. GroupFault(doc, n) # "fine" => Fault(doc) = GroupFault(doc, n)
  BY FaultFacts
<1>2. n \notin DOMAIN doc.nodes => GroupFault(doc, n) = "source"
  BY DEF GroupFault
<1>3. ASSUME n \in DOMAIN doc.nodes, NEW i \in DOMAIN doc.edges, NEW j \in DOMAIN doc.edges,
             doc.edges[i].when = NoWhen, doc.edges[j].when # NoWhen
      PROVE  GroupFault(doc, n) = "mixed"
  <2>1. i \in Group(doc, n) /\ j \in Group(doc, n) /\ j \in Tagged(doc, n) /\ i \notin Tagged(doc, n)
    BY <1>3 DEF Group, Tagged, ToSet
  <2>2. Tagged(doc, n) \notin {{}, Group(doc, n)}
    BY <2>1
  <2>3. QED
    BY <1>3, <2>2 DEF GroupFault
<1>4. QED
  BY <1>1, <1>2, <1>3 DEF ToSet

\* Every document, of any length and over any names, is loaded, routed and drawn as
\* it is written, or refused with the right complaint (yaml.rs).
THEOREM DocumentsLoadAsWritten ==
  ASSUME NEW Text, NEW doc, IsDocument(doc, Text)
  PROVE  LoadsAsWritten(doc)
BY TakesSound, RoutesRight, DrawnRight, ShapeIsFirst DEF LoadsAsWritten

\* A catalog has every YAML file of its directory, and only sound blueprints.
THEOREM CatalogsAreSound ==
  ASSUME NEW Text, NEW files, NEW m \in Nat, DOMAIN files = 1..m,
         \A i \in 1..m : IsDocument(files[i].doc, Text)
  PROVE  CatalogIsSound(files)
<1>1. \A i \in 1..m : Accepted(files[i].doc) <=> Sound(files[i].doc)
  BY TakesSound DEF TakesTheSound
<1>2. Refused(files) <=> \E i \in DOMAIN files : files[i].yaml /\ ~(files[i].utf8 /\ Sound(files[i].doc))
  BY <1>1 DEF Refused, Yamls
<1>3. DOMAIN Discover(files) = {files[i].stem : i \in Yamls(files)}
  BY DEF Discover
<1>4. ASSUME ~Refused(files), NEW n \in DOMAIN Discover(files)
      PROVE  /\ Sound(Discover(files)[n])
             /\ \E i \in Yamls(files) : files[i].stem = n /\ files[i].doc = Discover(files)[n]
  <2> DEFINE named == {i \in Yamls(files) : files[i].stem = n}
             last == CHOOSE i \in named : \A j \in named : j <= i
  <2>1. Discover(files)[n] = files[last].doc
    BY <1>3 DEF Discover
  <2>2. named # {} /\ named \subseteq 1..m
    BY <1>3 DEF Yamls
  <2> HIDE DEF named
  <2>3. \E i \in named : \A j \in named : j <= i
    <3> DEFINE above == {k \in Nat : \A j \in named : j <= k}
    <3>1. m \in above
      BY <2>2
    <3>2. PICK k \in above : \A l \in above : k <= l
      BY <3>1, LeastNat
    <3>3. k \in Nat /\ \A j \in named : j \in Nat /\ j <= k
      BY <2>2, <3>2
    <3>4. CASE k \in named
      BY <3>3, <3>4
    <3>5. CASE k \notin named
      <4>1. \A j \in named : j \in Nat /\ j > 0 /\ j <= k - 1
        BY <2>2, <3>3, <3>5
      <4>2. k - 1 \in Nat
        <5>1. PICK j \in named : TRUE
          BY <2>2
        <5>2. j > 0 /\ j <= k - 1 /\ j \in Nat /\ k \in Nat
          BY <3>3, <4>1
        <5>3. QED
          BY <5>2
      <4>3. k - 1 \in above
        BY <4>1, <4>2
      <4>4. QED
        BY <3>2, <3>3, <4>3
    <3>6. QED
      BY <3>4, <3>5
  <2>4. last \in named
    BY <2>3
  <2>5. last \in Yamls(files) /\ files[last].stem = n /\ last \in 1..m
    BY <2>2, <2>4 DEF named
  <2>6. Sound(files[last].doc)
    BY <1>1, <1>4, <2>5 DEF Refused
  <2>7. QED
    BY <2>1, <2>5, <2>6
<1>5. QED
  BY <1>2, <1>3, <1>4 DEF CatalogIsSound

-----------------------------------------------------------------------------
(* Runs of loaded documents.                                               *)

\* No edge leads to a name that is not a node.
Closed(g) == \A e \in g.edges : e.to \in g.nodes \cup {END}

\* What is loaded may be run (ExecutorAssumption), and none of its edges, tagged
\* ones included, leads to a name that is not a node.
THEOREM LoadedMayRun ==
  ASSUME NEW Text, NEW doc, IsDocument(doc, Text), Accepted(doc)
  PROVE  Buildable(Load(doc)) /\ Closed(Load(doc))
<1> DEFINE E == ToSet(doc.edges)
           g == Load(doc)
<1>1. Sound(doc)
  BY TakesSound DEF TakesTheSound
<1>2. g.nodes = DOMAIN doc.nodes /\ g.entry = doc.entry
  BY DEF Load
<1>3. /\ \A e \in E : e.when \in {NoWhen, "success", "failure"}
      /\ \A x \in g.edges : \E e \in E :
           /\ x.from = e.from /\ x.to = Normalized(e.to)
           /\ x.when = IF e.when = NoWhen THEN "always" ELSE e.when
  BY <1>1, CompiledFacts
<1>4. /\ doc.entry \in DOMAIN doc.nodes
      /\ \A e \in E : /\ e.from \in DOMAIN doc.nodes
                      /\ Normalized(e.to) \in DOMAIN doc.nodes \cup {END}
      /\ \A e, f \in E : f.from = e.from => (e.when = NoWhen <=> f.when = NoWhen)
  BY <1>1 DEF Sound, Normalized
<1> HIDE DEF g, E
<1>5. \A x \in g.edges : x.from \in g.nodes /\ x.to \in g.nodes \cup {END}
  BY <1>2, <1>3, <1>4
<1>6. \A x \in g.edges : x.when = "always" => ~Conditional(g, x.from)
  BY <1>3, <1>4 DEF Conditional, Out
<1>7. QED
  BY <1>2, <1>4, <1>5, <1>6 DEF Buildable, Closed, g

\* In a closed graph a path stays among the nodes.
LEMMA FrontierStays ==
  ASSUME NEW g \in Graphs, Closed(g), NEW s
  PROVE  FrontierAfter(g, s) \subseteq g.nodes
<1>1. g.entry \in g.nodes
  BY GraphFacts
<1>2. ASSUME NEW n, NEW status PROVE Route(g, n, status) \subseteq g.nodes \cup {END}
  BY DEF Route, Out, Closed
<1>3. QED
  BY <1>1, <1>2 DEF FrontierAfter, Targets

\* The only failures are those of nodes.
NodesAlone ==
  /\ failure \in Name \cup {Nobody}
  /\ pc \in {"top", "attempt", "backoff"} => verdict = "none"
  /\ verdict = "error" => failure # Nobody

\* "conditional ones are checked here so a typo fails at load time rather than
\* mid-run" (add_conditional): a run of a loaded blueprint ends with an error only
\* when a node failed, never because a name in it leads nowhere, and whoever
\* resumes it finds the graph its checkpoint was taken on.
TyposFailEarly ==
  /\ NoMismatchedResume
  /\ verdict = "error" => failure \in Name

\* Runs of loaded blueprints never resume on a foreign state and never meet an unknown
\* node (yaml.rs into_graph, Executor::resume_with_cancel, run_frontier).
THEOREM LoadedRunsStayInGraph ==
  ASSUME UniqueLabels, NEW Text, NEW Library, \A doc \in Library : IsDocument(doc, Text) /\ Accepted(doc),
         Graphs = {Load(doc) : doc \in Library}
  PROVE  Spec => []TyposFailEarly
<1>1. \A g \in Graphs : Closed(g)
  BY LoadedMayRun
<1>2. ASSUME IInv, pc # "idle" PROVE graph \in Graphs /\ Closed(graph)
  BY <1>1, <1>2 DEF IInv, TypeOK
<1>3. ASSUME IInv, pc \in {"top", "attempt", "backoff"} PROVE frontier \subseteq graph.nodes
  BY <1>2, <1>3, FrontierStays DEF IInv, LoopAtBoundary, Boundary
<1>4. ASSUME IInv, Joined PROVE Targets(graph, Merged[Len(Merged)]) \ {END} \subseteq graph.nodes
  <2>1. pc = "attempt" /\ Boundary(graph, step, frontier, state) /\ TypeOK
    BY <1>4 DEF Joined, IInv, LoopAtBoundary
  <2>2. Targets(graph, Merged[Len(Merged)]) \ {END} = FrontierAfter(graph, Merged)
    BY <2>1, PathExtends
  <2>3. QED
    BY <1>2, <1>4, <2>1, <2>2, FrontierStays
<1>5. Init => NodesAlone
  BY DEF Init, NodesAlone
<1>6. ASSUME IInv, NodesAlone, [Next]_vars PROVE NodesAlone'
  <2> USE <1>6 DEF NodesAlone
  <2>1. ASSUME BeginAttempt, pc \in {"top", "backoff"}, UNCHANGED verdict PROVE NodesAlone'
    BY <1>3, <2>1 DEF BeginAttempt
  <2>2. ASSUME NEW v \in {"step_limit", "completed", "cancelled"}, Conclude(v), UNCHANGED failure
        PROVE  NodesAlone'
    BY <2>2 DEF Conclude
  <2>3. ASSUME NEW g \in Graphs, Start(g) \/ Resume(g) PROVE NodesAlone'
    BY <2>3 DEF Start, Resume, Drive
  <2>4. CASE StepLimit \/ AllPathsEnded \/ BackoffCancelled
    BY <2>2, <2>4 DEF StepLimit, AllPathsEnded, BackoffCancelled, attempts
  <2>5. CASE BeginSuperStep
    BY <2>1, <2>5 DEF BeginSuperStep
  <2>6. CASE SuperStepDone
    <3>1. CASE Conclude("cancelled")
      BY <2>2, <2>6, <3>1 DEF SuperStepDone
    <3>2. CASE ~Conclude("cancelled")
      BY <1>4, <2>6, <3>2 DEF SuperStepDone, Joined
    <3>3. QED
      BY <3>1, <3>2
  <2>7. CASE SuperStepFailed
    BY <2>7 DEF SuperStepFailed, Conclude, Joined
  <2>8. CASE BackoffElapsed
    BY <2>1, <2>8 DEF BackoffElapsed
  <2>9. CASE SetStatus \/ Report
    BY <2>9 DEF SetStatus, Report, attempts
  <2>10. ASSUME NEW n \in Name, NodeEnds(n) PROVE NodesAlone'
    BY <2>10 DEF NodeEnds
  <2>11. ASSUME NEW n \in Name, Panic(n) PROVE NodesAlone'
    BY <2>11 DEF Panic
  <2>12. CASE Cancel
    BY <2>12 DEF Cancel, attempts
  <2>13. CASE Crash
    BY <2>13 DEF Crash
  <2>14. CASE UNCHANGED vars
    BY <2>14 DEF vars
  <2>15. QED
    BY <2>3, <2>4, <2>5, <2>6, <2>7, <2>8, <2>9, <2>10, <2>11, <2>12, <2>13, <2>14
       DEF Next, RunGraph
<1>7. IInv /\ NodesAlone => TyposFailEarly
  <2> SUFFICES ASSUME IInv, NodesAlone PROVE TyposFailEarly
    OBVIOUS
  <2>1. pc = "attempt" => IsPath(graph, state) /\ frontier \subseteq graph.nodes
    BY <1>3 DEF IInv, StateIsPath
  <2>2. QED
    BY <2>1 DEF TyposFailEarly, NoMismatchedResume, NodesAlone
<1>8. IInv /\ [Next]_vars => IInv'
  BY NextIInv
<1>9. Spec => [](IInv /\ NodesAlone)
  BY <1>5, <1>6, <1>8, InitIInv, PTL DEF Spec
<1>10. QED
  BY <1>7, <1>9, PTL

-----------------------------------------------------------------------------
(* How sh reads.                                                           *)
Readers(T) == [words : Seq(Seq(T)), word : Seq(T), open : BOOLEAN,
               mode : {"plain", "quoted", "escaped"}]

\* One token on, sh is still a reader.
LEMMA ReadOnType ==
  ASSUME NEW T, NEW r \in Readers(T), NEW c \in T
  PROVE  ReadOn(r, c) \in Readers(T) /\ Break(r) \in Readers(T)
<1> DEFINE W == Seq(Seq(T))
           X == Seq(T)
           M == {"plain", "quoted", "escaped"}
           A == [words : W, word : X, open : BOOLEAN, mode : M]
<1>1. r \in A
  BY DEF Readers
<1>2. /\ Append(r.word, c) \in X /\ <<>> \in X /\ Append(r.words, r.word) \in W
  <2>1. r.word \in Seq(T) /\ r.words \in Seq(Seq(T))
    BY DEF Readers
  <2>2. QED
    BY <2>1
<1> HIDE DEF W, X
<1>3. Break(r) \in A
  BY <1>1, <1>2 DEF Break
<1>4. ReadOn(r, c) \in A
  <2>1. CASE r.mode = "escaped"
    BY <1>1, <1>2, <2>1 DEF ReadOn
  <2>2. CASE r.mode = "quoted"
    BY <1>1, <1>2, <2>2 DEF ReadOn
  <2>3. CASE r.mode = "plain"
    BY <1>1, <1>2, <1>3, <2>3 DEF ReadOn
  <2>4. QED
    BY <1>1, <2>1, <2>2, <2>3
<1>5. QED
  BY <1>3, <1>4 DEF Readers, W, X

\* The function of what sh has read exists and goes token by token.
LEMMA ReadingFacts ==
  ASSUME NEW T, NEW r \in Readers(T), NEW line \in Seq(T)
  PROVE  /\ \A k \in 0..Len(line) : Reading(r, line)[k] \in Readers(T)
         /\ Reading(r, line)[0] = r
         /\ \A k \in 1..Len(line) : Reading(r, line)[k] = ReadOn(Reading(r, line)[k - 1], line[k])
<1> DEFINE n == Len(line)
           A == Readers(T)
           moves == [k \in 1..n |-> [a \in A |-> ReadOn(a, line[k])]]
           Is(h) == h = [k \in 0..n |-> IF k = 0 THEN r ELSE ReadOn(h[k - 1], line[k])]
<1>1. n \in Nat
  OBVIOUS
<1>2. moves \in [1..n -> [A -> A]]
  <2> HIDE DEF A
  <2>1. \A k \in 1..n : line[k] \in T
    OBVIOUS
  <2>2. \A k \in 1..n : \A a \in A : ReadOn(a, line[k]) \in A
    BY <2>1, ReadOnType DEF A
  <2> HIDE DEF n
  <2>3. QED
    BY <2>2
<1>3. PICK g : Follows(g, A, r, n, moves)
  <2> HIDE DEF A, moves, n
  <2>1. r \in A
    BY DEF A
  <2>2. QED
    BY <1>1, <1>2, <2>1, RecursionExists
<1>4. g \in [0..n -> A] /\ g[0] = r /\ \A k \in 1..n : g[k] = moves[k][g[k - 1]]
  <2> HIDE DEF A, moves, n
  <2>1. QED
    BY <1>3 DEF Follows
<1>5. \A k \in 1..n : g[k] = ReadOn(g[k - 1], line[k])
  <2> TAKE k \in 1..n
  <2> HIDE DEF A, n
  <2>1. g[k - 1] \in A
    BY <1>1, <1>4
  <2>2. QED
    BY <1>4, <2>1
<1>6. Is(g)
  <2> HIDE DEF A, moves, n
  <2>1. g = [k \in 0..n |-> g[k]]
    BY <1>4
  <2>2. \A k \in 0..n : g[k] = IF k = 0 THEN r ELSE ReadOn(g[k - 1], line[k])
    BY <1>1, <1>4, <1>5
  <2>3. QED
    BY <2>1, <2>2
<1> DEFINE h == Reading(r, line)
<1>7. h = CHOOSE x : Is(x)
  BY DEF Reading
<1>8. Is(h)
  <2> HIDE DEF Is, h
  <2>1. QED
    BY <1>6, <1>7, Zenon
<1> HIDE DEF moves, A, n, h
<1>9. h[0] = r /\ \A k \in 1..n : h[k] = ReadOn(h[k - 1], line[k])
  BY <1>1, <1>8
<1>10. \A k \in 0..n : h[k] \in A
  <2> DEFINE Good == {k \in 0..n : h[k] \in A}
  <2>1. 0 \in Good
    BY <1>1, <1>9 DEF A
  <2>2. ASSUME NEW k \in 1..n, k - 1 \in Good PROVE k \in Good
    <3>1. line[k] \in T
      BY DEF n
    <3>2. h[k - 1] \in Readers(T)
      BY <2>2 DEF A
    <3>3. ReadOn(h[k - 1], line[k]) \in Readers(T)
      BY <3>1, <3>2, ReadOnType
    <3>4. QED
      BY <1>1, <1>9, <3>3 DEF A
  <2> HIDE DEF Good
  <2>3. \A k \in 0..n : k \in Good
    BY <1>1, <2>1, <2>2, Climb
  <2>4. QED
    BY <2>3 DEF Good
<1>11. QED
  BY <1>9, <1>10 DEF h, n, A

\* Having read a line, sh is still a reader.
LEMMA ReadsType ==
  ASSUME NEW T, NEW r \in Readers(T), NEW line \in Seq(T)
  PROVE  Reads(r, line) \in Readers(T)
BY ReadingFacts DEF Reads

\* Reading a line is reading its parts, one after the other.
LEMMA ReadsBoth ==
  ASSUME NEW T, NEW r \in Readers(T), NEW a \in Seq(T), NEW b \in Seq(T)
  PROVE  Reads(r, a \o b) = Reads(Reads(r, a), b)
<1> DEFINE m == Len(a)
           n == Len(b)
           c == a \o b
           e == Reads(r, a)
           f == Reading(r, c)
           g == Reading(r, a)
           h == Reading(e, b)
<1>1. /\ m \in Nat /\ n \in Nat /\ c \in Seq(T) /\ Len(c) = m + n
      /\ \A i \in 1..m : i \in 1..Len(c) /\ c[i] = a[i]
      /\ \A i \in 1..n : m + i \in 1..Len(c) /\ c[m + i] = b[i]
  BY Meet
<1>2. e \in Readers(T) /\ e = g[m]
  BY ReadsType DEF Reads
<1>3. g[0] = r /\ \A k \in 1..m : g[k] = ReadOn(g[k - 1], a[k])
  BY ReadingFacts
<1> HIDE DEF e, c
<1>4. h[0] = e /\ \A k \in 1..n : h[k] = ReadOn(h[k - 1], b[k])
  BY <1>2, ReadingFacts
<1>5. f[0] = r /\ \A k \in 1..Len(c) : f[k] = ReadOn(f[k - 1], c[k])
  BY <1>1, ReadingFacts
<1>6. Reads(r, c) = f[m + n] /\ Reads(e, b) = h[n]
  BY <1>1 DEF Reads
<1> HIDE DEF m, n, f, g, h
<1> DEFINE Low == {k \in 0..m : f[k] = g[k]}
           High == {k \in 0..n : f[m + k] = h[k]}
<1>7. \A k \in 0..m : k \in Low
  <2>1. 0 \in Low
    BY <1>1, <1>3, <1>5
  <2>2. \A k \in 1..m : k - 1 \in Low => k \in Low
    BY <1>1, <1>3, <1>5
  <2> HIDE DEF Low
  <2>3. QED
    BY <1>1, <2>1, <2>2, Climb
<1>8. f[m] = g[m]
  BY <1>1, <1>7
<1>9. \A k \in 0..n : k \in High
  <2>1. 0 \in High
    BY <1>1, <1>2, <1>4, <1>8
  <2>2. ASSUME NEW k \in 1..n, k - 1 \in High PROVE k \in High
    <3>1. m + k \in 1..Len(c) /\ (m + k) - 1 = m + (k - 1) /\ k \in 0..n
      BY <1>1
    <3>2. f[m + k] = ReadOn(f[m + (k - 1)], c[m + k])
      BY <1>5, <3>1
    <3>3. f[m + (k - 1)] = h[k - 1] /\ c[m + k] = b[k] /\ h[k] = ReadOn(h[k - 1], b[k])
      BY <1>1, <1>4, <2>2
    <3>4. QED
      BY <3>1, <3>2, <3>3
  <2> HIDE DEF High
  <2>3. QED
    BY <1>1, <2>1, <2>2, Climb
<1>10. f[m + n] = h[n]
  <2>1. n \in 0..n
    BY <1>1
  <2>2. n \in High
    BY <1>9, <2>1
  <2>3. QED
    BY <2>2, SMTT(30)
<1>11. QED
  BY <1>6, <1>10 DEF c, e

\* Nothing is read of nothing, and of one token what sh makes of it.
LEMMA ReadsOne ==
  ASSUME NEW T, NEW r \in Readers(T), NEW c \in T
  PROVE  Reads(r, <<>>) = r /\ Reads(r, <<c>>) = ReadOn(r, c)
<1> DEFINE a == <<>>
           b == <<c>>
<1>1. a \in Seq(T) /\ Len(a) = 0 /\ b \in Seq(T) /\ Len(b) = 1 /\ b[1] = c
  OBVIOUS
<1> HIDE DEF a, b
<1>2. Reading(r, a)[0] = r
  BY <1>1, ReadingFacts
<1>3. Reading(r, b)[0] = r
  BY <1>1, ReadingFacts
<1>4. Reading(r, b)[1] = ReadOn(Reading(r, b)[1 - 1], b[1])
  BY <1>1, ReadingFacts
<1>5. Reads(r, a) = r /\ Reads(r, b) = ReadOn(r, c)
  BY <1>1, <1>2, <1>3, <1>4 DEF Reads
<1>6. QED
  BY <1>5 DEF a, b

\* What was read so far.
Read(words, word, open, mode) ==
  [words |-> words, word |-> word, open |-> open, mode |-> mode]

ReadsSo(T, words, word, open, c) ==
  /\ \A mode \in {"plain", "quoted", "escaped"} : Read(words, word, open, mode) \in Readers(T)
  /\ ReadOn(Read(words, word, open, "escaped"), c)
       = Read(words, Append(word, c), open, "plain")
  /\ c # Quote => ReadOn(Read(words, word, open, "quoted"), c)
                    = Read(words, Append(word, c), open, "quoted")
  /\ ReadOn(Read(words, word, open, "quoted"), Quote) = Read(words, word, open, "plain")
  /\ ReadOn(Read(words, word, open, "plain"), Quote) = Read(words, word, TRUE, "quoted")
  /\ ReadOn(Read(words, word, open, "plain"), "\\") = Read(words, word, TRUE, "escaped")
  /\ c \notin {Quote, "\\", " "} => ReadOn(Read(words, word, open, "plain"), c)
                                      = Read(words, Append(word, c), TRUE, "plain")
  /\ ReadOn(Read(words, word, TRUE, "plain"), " ")
       = Read(Append(words, word), <<>>, FALSE, "plain")
  /\ ReadOn(Read(words, word, FALSE, "plain"), " ") = Read(words, word, FALSE, "plain")

\* What each token does to a reader, mode by mode.
LEMMA ReadFacts ==
  ASSUME NEW T, NEW words \in Seq(Seq(T)), NEW word \in Seq(T), NEW open \in BOOLEAN,
         NEW c \in T
  PROVE  ReadsSo(T, words, word, open, c)
<1>1. \A mode \in {"plain", "quoted", "escaped"} : Read(words, word, open, mode) \in Readers(T)
  BY DEF Read, Readers
<1>2. ReadOn(Read(words, word, open, "escaped"), c) = Read(words, Append(word, c), open, "plain")
  BY DEF ReadOn, Read
<1>3. c # Quote => ReadOn(Read(words, word, open, "quoted"), c) = Read(words, Append(word, c), open, "quoted")
  BY DEF ReadOn, Read
<1>4. ReadOn(Read(words, word, open, "quoted"), Quote) = Read(words, word, open, "plain")
  BY DEF ReadOn, Read
<1>5. ReadOn(Read(words, word, open, "plain"), Quote) = Read(words, word, TRUE, "quoted")
  BY DEF ReadOn, Read, Quote
<1>6. ReadOn(Read(words, word, open, "plain"), "\\") = Read(words, word, TRUE, "escaped")
  BY DEF ReadOn, Read, Quote
<1>7. c \notin {Quote, "\\", " "} => ReadOn(Read(words, word, open, "plain"), c)
                                       = Read(words, Append(word, c), TRUE, "plain")
  BY DEF ReadOn, Read, Quote
<1>8. ReadOn(Read(words, word, TRUE, "plain"), " ") = Read(Append(words, word), <<>>, FALSE, "plain")
  BY DEF ReadOn, Read, Break, Quote
<1>9. ReadOn(Read(words, word, FALSE, "plain"), " ") = Read(words, word, FALSE, "plain")
  BY DEF ReadOn, Read, Break, Quote
<1>10. QED
  BY <1>1, <1>2, <1>3, <1>4, <1>5, <1>6, <1>7, <1>8, <1>9, Zenon DEF ReadsSo

\* The empty sequence is over any set.
LEMMA NoneIsASeq ==
  ASSUME NEW A
  PROVE  <<>> \in Seq(A)
OBVIOUS

\* A sequence of one.
LEMMA OneSeq ==
  ASSUME NEW A, NEW a \in A
  PROVE  <<a>> \in Seq(A) /\ Append(<<>>, a) = <<a>>
<1>1. <<a>> \in Seq(A)
  OBVIOUS
<1>2. Append(<<>>, a) = <<a>>
  OBVIOUS
<1>3. QED
  BY <1>1, <1>2

\* A longer line.
LEMMA ReadsAppend ==
  ASSUME NEW T, NEW r \in Readers(T), NEW line \in Seq(T), NEW c \in T
  PROVE  /\ Append(line, c) \in Seq(T)
         /\ Reads(r, line) \in Readers(T)
         /\ Reads(r, Append(line, c)) = ReadOn(Reads(r, line), c)
<1> DEFINE one == <<c>>
<1>1. one \in Seq(T) /\ Append(line, c) \in Seq(T)
  <2>1. one \in Seq(T)
    OBVIOUS
  <2>2. Append(line, c) \in Seq(T)
    OBVIOUS
  <2>3. QED
    BY <2>1, <2>2
<1>2. Append(line, c) = line \o one
  BY AppendIsConcat
<1>3. Reads(r, line) \in Readers(T)
  BY ReadsType
<1>4. Reads(Reads(r, line), one) = ReadOn(Reads(r, line), c)
  BY <1>3, ReadsOne
<1> HIDE DEF one
<1>5. Reads(r, line \o one) = Reads(Reads(r, line), one)
  BY <1>1, ReadsBoth
<1>6. QED
  BY <1>1, <1>2, <1>3, <1>4, <1>5

\* Several tokens, one after the other.
LineSo(r, a, b, c, d, e, f, g) ==
  /\ Reads(r, <<a>>) = ReadOn(r, a)
  /\ Reads(r, <<a, b>>) = ReadOn(Reads(r, <<a>>), b)
  /\ Reads(r, <<a, b, c>>) = ReadOn(Reads(r, <<a, b>>), c)
  /\ Reads(r, <<a, b, c, d>>) = ReadOn(Reads(r, <<a, b, c>>), d)
  /\ Reads(r, <<a, b, c, d, e>>) = ReadOn(Reads(r, <<a, b, c, d>>), e)
  /\ Reads(r, <<a, b, c, d, e, f>>) = ReadOn(Reads(r, <<a, b, c, d, e>>), f)
  /\ Reads(r, <<a, b, c, d, e, f, g>>) = ReadOn(Reads(r, <<a, b, c, d, e, f>>), g)

\* Lines of up to seven tokens are read token by token.
LEMMA LineFacts ==
  ASSUME NEW T, NEW r \in Readers(T), NEW a \in T, NEW b \in T, NEW c \in T, NEW d \in T,
         NEW e \in T, NEW f \in T, NEW g \in T
  PROVE  LineSo(r, a, b, c, d, e, f, g)
<1>1. <<a>> \in Seq(T) /\ Reads(r, <<a>>) = ReadOn(r, a)
  BY OneSeq, ReadsOne
<1>2. <<a, b>> \in Seq(T) /\ Reads(r, <<a, b>>) = ReadOn(Reads(r, <<a>>), b)
  <2> DEFINE line == <<a>>
             more == <<a, b>>
  <2>1. line \in Seq(T) /\ more = Append(line, b)
    <3>1. more = Append(line, b)
      OBVIOUS
    <3>2. QED
      BY <1>1, <3>1
  <2> HIDE DEF line, more
  <2>2. more \in Seq(T) /\ Reads(r, more) = ReadOn(Reads(r, line), b)
    BY <2>1, ReadsAppend
  <2>3. QED
    BY <2>2 DEF line, more
<1>3. <<a, b, c>> \in Seq(T) /\ Reads(r, <<a, b, c>>) = ReadOn(Reads(r, <<a, b>>), c)
  <2> DEFINE line == <<a, b>>
             more == <<a, b, c>>
  <2>1. line \in Seq(T) /\ more = Append(line, c)
    <3>1. more = Append(line, c)
      OBVIOUS
    <3>2. QED
      BY <1>2, <3>1
  <2> HIDE DEF line, more
  <2>2. more \in Seq(T) /\ Reads(r, more) = ReadOn(Reads(r, line), c)
    BY <2>1, ReadsAppend
  <2>3. QED
    BY <2>2 DEF line, more
<1>4. <<a, b, c, d>> \in Seq(T) /\ Reads(r, <<a, b, c, d>>) = ReadOn(Reads(r, <<a, b, c>>), d)
  <2> DEFINE line == <<a, b, c>>
             more == <<a, b, c, d>>
  <2>1. line \in Seq(T) /\ more = Append(line, d)
    <3>1. more = Append(line, d)
      OBVIOUS
    <3>2. QED
      BY <1>3, <3>1
  <2> HIDE DEF line, more
  <2>2. more \in Seq(T) /\ Reads(r, more) = ReadOn(Reads(r, line), d)
    BY <2>1, ReadsAppend
  <2>3. QED
    BY <2>2 DEF line, more
<1>5. /\ <<a, b, c, d, e>> \in Seq(T)
      /\ Reads(r, <<a, b, c, d, e>>) = ReadOn(Reads(r, <<a, b, c, d>>), e)
  <2> DEFINE line == <<a, b, c, d>>
             more == <<a, b, c, d, e>>
  <2>1. line \in Seq(T) /\ more = Append(line, e)
    <3>1. more = Append(line, e)
      OBVIOUS
    <3>2. QED
      BY <1>4, <3>1
  <2> HIDE DEF line, more
  <2>2. more \in Seq(T) /\ Reads(r, more) = ReadOn(Reads(r, line), e)
    BY <2>1, ReadsAppend
  <2>3. QED
    BY <2>2 DEF line, more
<1>6. /\ <<a, b, c, d, e, f>> \in Seq(T)
      /\ Reads(r, <<a, b, c, d, e, f>>) = ReadOn(Reads(r, <<a, b, c, d, e>>), f)
  <2> DEFINE line == <<a, b, c, d, e>>
             more == <<a, b, c, d, e, f>>
  <2>1. line \in Seq(T) /\ more = Append(line, f)
    <3>1. more = Append(line, f)
      OBVIOUS
    <3>2. QED
      BY <1>5, <3>1
  <2> HIDE DEF line, more
  <2>2. more \in Seq(T) /\ Reads(r, more) = ReadOn(Reads(r, line), f)
    BY <2>1, ReadsAppend
  <2>3. QED
    BY <2>2 DEF line, more
<1>7. /\ <<a, b, c, d, e, f, g>> \in Seq(T)
      /\ Reads(r, <<a, b, c, d, e, f, g>>) = ReadOn(Reads(r, <<a, b, c, d, e, f>>), g)
  <2> DEFINE line == <<a, b, c, d, e, f>>
             more == <<a, b, c, d, e, f, g>>
  <2>1. line \in Seq(T) /\ more = Append(line, g)
    <3>1. more = Append(line, g)
      OBVIOUS
    <3>2. QED
      BY <1>6, <3>1
  <2> HIDE DEF line, more
  <2>2. more \in Seq(T) /\ Reads(r, more) = ReadOn(Reads(r, line), g)
    BY <2>1, ReadsAppend
  <2>3. QED
    BY <2>2 DEF line, more
<1>8. QED
  BY <1>1, <1>2, <1>3, <1>4, <1>5, <1>6, <1>7, Zenon DEF LineSo

\* A prefix grows by one.
LEMMA PrefixGrows ==
  ASSUME NEW T, NEW w \in Seq(T), NEW v \in Seq(T), NEW k \in 1..Len(v)
  PROVE  /\ w \o SubSeq(v, 1, k) = Append(w \o SubSeq(v, 1, k - 1), v[k])
         /\ w \o SubSeq(v, 1, k - 1) \in Seq(T)
<1>1. SubSeq(v, 1, k) = Append(SubSeq(v, 1, k - 1), v[k])
  OBVIOUS
<1>2. SubSeq(v, 1, k - 1) \in Seq(T) /\ v[k] \in T
  OBVIOUS
<1> DEFINE p == SubSeq(v, 1, k - 1)
<1> HIDE DEF p
<1>3. w \o Append(p, v[k]) = Append(w \o p, v[k]) /\ w \o p \in Seq(T)
  BY <1>2 DEF p
<1>4. QED
  BY <1>1, <1>3 DEF p

\* A quoted value is a text.
LEMMA QuotedType ==
  ASSUME NEW T, {Quote, "\\"} \subseteq T, NEW v \in Seq(T)
  PROVE  ShellQuoted(v) \in Seq(T)
<1> DEFINE n == Len(v)
           e == [i \in DOMAIN v |->
                   IF v[i] = Quote THEN <<Quote, "\\", Quote, Quote>> ELSE <<v[i]>>]
<1>1. n \in Nat /\ e \in [1..n -> Seq(T)]
  OBVIOUS
<1> HIDE DEF n, e
<1>2. PICK g : Together(g, T, n, e) /\ FlattenSeq(e) = g[n]
  BY <1>1, FlattenFacts
<1>3. FlattenSeq(e) \in Seq(T)
  BY <1>1, <1>2 DEF Together
<1>4. <<Quote>> \in Seq(T)
  OBVIOUS
<1>5. ShellQuoted(v) = <<Quote>> \o FlattenSeq(e) \o <<Quote>>
  BY DEF ShellQuoted, e
<1>6. QED
  BY <1>3, <1>4, <1>5

\* sh reads a quoted value as it is, and goes on outside of quotes.
LEMMA QuotedRead ==
  ASSUME NEW T, {Quote, "\\"} \subseteq T, NEW v \in Seq(T),
         NEW words \in Seq(Seq(T)), NEW word \in Seq(T), NEW open \in BOOLEAN
  PROVE  Reads(Read(words, word, open, "plain"), ShellQuoted(v))
           = Read(words, word \o v, TRUE, "plain")
<1> DEFINE n == Len(v)
           e == [i \in DOMAIN v |->
                   IF v[i] = Quote THEN <<Quote, "\\", Quote, Quote>> ELSE <<v[i]>>]
           In(w, mode) == Read(words, w, TRUE, mode)
           s == In(word, "quoted")
           r == Read(words, word, open, "plain")
<1>1. n \in Nat /\ e \in [1..n -> Seq(T)] /\ <<Quote>> \in Seq(T) /\ Quote \in T /\ "\\" \in T
  OBVIOUS
<1>2. ShellQuoted(v) = <<Quote>> \o FlattenSeq(e) \o <<Quote>>
  BY DEF ShellQuoted
<1>3. \A w \in Seq(T), c \in T :
        /\ \A mode \in {"plain", "quoted", "escaped"} : In(w, mode) \in Readers(T)
        /\ ReadOn(In(w, "escaped"), c) = In(Append(w, c), "plain")
        /\ c # Quote => ReadOn(In(w, "quoted"), c) = In(Append(w, c), "quoted")
        /\ ReadOn(In(w, "quoted"), Quote) = In(w, "plain")
        /\ ReadOn(In(w, "plain"), Quote) = In(w, "quoted")
        /\ ReadOn(In(w, "plain"), "\\") = In(w, "escaped")
  <2> TAKE w \in Seq(T), c \in T
  <2>1. ReadsSo(T, words, w, TRUE, c)
    BY ReadFacts
  <2>2. QED
    BY <2>1, Zenon DEF ReadsSo
<1>4. r \in Readers(T) /\ ReadOn(r, Quote) = s
  <2>1. ReadsSo(T, words, word, open, Quote)
    BY <1>1, ReadFacts
  <2>2. QED
    BY <2>1, Zenon DEF ReadsSo
<1> HIDE DEF n, In
<1>5. \A w \in Seq(T), c \in T :
        Reads(In(w, "quoted"), IF c = Quote THEN <<Quote, "\\", Quote, Quote>> ELSE <<c>>)
          = In(Append(w, c), "quoted")
  <2> TAKE w \in Seq(T), c \in T
  <2>1. CASE c = Quote
    <3>1. Reads(In(w, "quoted"), <<Quote, "\\", Quote, Quote>>)
            = ReadOn(ReadOn(ReadOn(ReadOn(In(w, "quoted"), Quote), "\\"), Quote), Quote)
      <4>1. In(w, "quoted") \in Readers(T)
        BY <1>3
      <4>2. QED
        <5>1. LineSo(In(w, "quoted"), Quote, "\\", Quote, Quote, Quote, Quote, Quote)
          BY <1>1, <4>1, LineFacts
        <5>2. QED
          BY <5>1, Zenon DEF LineSo
    <3>2. Append(w, Quote) \in Seq(T)
      BY <1>1
    <3>3. ReadOn(In(Append(w, Quote), "plain"), Quote) = In(Append(w, Quote), "quoted")
      BY <1>1, <1>3, <3>2
    <3>4. QED
      BY <1>1, <1>3, <2>1, <3>1, <3>3
  <2>2. CASE c # Quote
    BY <1>3, <2>2, ReadsOne
  <2>3. QED
    BY <2>1, <2>2
<1>6. \A i \in 1..n : e[i] = IF v[i] = Quote THEN <<Quote, "\\", Quote, Quote>> ELSE <<v[i]>>
  BY DEF n
<1> HIDE DEF e
<1>7. PICK g : Together(g, T, n, e) /\ FlattenSeq(e) = g[n]
  BY <1>1, FlattenFacts
<1>8. g \in [0..n -> Seq(T)] /\ g[0] = <<>> /\ \A k \in 1..n : g[k] = g[k - 1] \o e[k]
  BY <1>7 DEF Together
<1> DEFINE Done == {k \in 0..n : Reads(s, g[k]) = In(word \o SubSeq(v, 1, k), "quoted")}
<1>9. s \in Readers(T)
  BY <1>1, <1>3
<1>10. 0 \in Done
  <2>1. word \o SubSeq(v, 1, 0) = word
    OBVIOUS
  <2>2. QED
    <3>1. Reads(s, <<>>) = s
      BY <1>1, <1>9, ReadsOne
    <3>2. g[0] = <<>> /\ 0 \in 0..n
      BY <1>1, <1>8
    <3>3. QED
      BY <2>1, <3>1, <3>2
<1>11. ASSUME NEW k \in 1..n, k - 1 \in Done PROVE k \in Done
  <2> DEFINE w == word \o SubSeq(v, 1, k - 1)
  <2>1. w \in Seq(T) /\ word \o SubSeq(v, 1, k) = Append(w, v[k]) /\ v[k] \in T
    BY PrefixGrows, SMTT(30) DEF n
  <2>2. Reads(s, g[k - 1]) = In(w, "quoted")
    BY <1>11
  <2> HIDE DEF w, s
  <2>3. k \in 0..n /\ k - 1 \in 0..n
    BY <1>1
  <2>4. g[k - 1] \in Seq(T) /\ e[k] \in Seq(T) /\ g[k] = g[k - 1] \o e[k]
    BY <1>1, <1>8, <2>3
  <2>5. Reads(s, g[k]) = Reads(In(w, "quoted"), e[k])
    BY <1>9, <2>2, <2>4, ReadsBoth
  <2>6. Reads(In(w, "quoted"), e[k]) = In(Append(w, v[k]), "quoted")
    BY <1>5, <1>6, <2>1
  <2>7. QED
    BY <2>1, <2>3, <2>5, <2>6
<1>12. n \in Done
  <2> HIDE DEF Done
  <2>1. \A k \in 0..n : k \in Done
    BY <1>1, <1>10, <1>11, Climb
  <2>2. QED
    BY <1>1, <2>1
<1>13. SubSeq(v, 1, n) = v
  BY DEF n
<1>14. Reads(s, FlattenSeq(e)) = In(word \o v, "quoted")
  BY <1>7, <1>12, <1>13
<1>15. FlattenSeq(e) \in Seq(T) /\ <<Quote>> \o FlattenSeq(e) \in Seq(T) /\ word \o v \in Seq(T)
  <2>1. FlattenSeq(e) \in Seq(T)
    BY <1>1, <1>7, <1>8
  <2>2. QED
    BY <1>1, <2>1
<1> HIDE DEF s, r
<1>16. Reads(r, <<Quote>> \o FlattenSeq(e)) = In(word \o v, "quoted")
  <2>1. Reads(r, <<Quote>>) = s
    BY <1>1, <1>4, ReadsOne
  <2>2. Reads(r, <<Quote>> \o FlattenSeq(e)) = Reads(Reads(r, <<Quote>>), FlattenSeq(e))
    <3> DEFINE a == <<Quote>>
               b == FlattenSeq(e)
    <3>1. a \in Seq(T) /\ b \in Seq(T) /\ r \in Readers(T)
      BY <1>1, <1>4, <1>15
    <3> HIDE DEF a, b
    <3>2. Reads(r, a \o b) = Reads(Reads(r, a), b)
      BY <3>1, ReadsBoth
    <3>3. QED
      BY <3>2 DEF a, b
  <2>3. QED
    BY <1>14, <2>1, <2>2
<1>17. Reads(r, <<Quote>> \o FlattenSeq(e) \o <<Quote>>) = Reads(In(word \o v, "quoted"), <<Quote>>)
  <2> DEFINE a == <<Quote>> \o FlattenSeq(e)
             b == <<Quote>>
  <2>1. a \in Seq(T) /\ b \in Seq(T) /\ r \in Readers(T) /\ Reads(r, a) = In(word \o v, "quoted")
    BY <1>1, <1>4, <1>15, <1>16
  <2> HIDE DEF a, b
  <2>2. Reads(r, a \o b) = Reads(Reads(r, a), b)
    BY <2>1, ReadsBoth
  <2>3. QED
    BY <2>1, <2>2 DEF a, b
<1>18. Reads(In(word \o v, "quoted"), <<Quote>>) = In(word \o v, "plain")
  <2>1. /\ In(word \o v, "quoted") \in Readers(T)
        /\ ReadOn(In(word \o v, "quoted"), Quote) = In(word \o v, "plain")
    BY <1>1, <1>3, <1>15
  <2>2. QED
    BY <1>1, <2>1, ReadsOne
<1>19. QED
  BY <1>2, <1>17, <1>18 DEF In, r

-----------------------------------------------------------------------------
(* The lines the container nodes write.                                    *)
Specials == {Quote, "\\", " "}
At(words) == Read(words, <<>>, FALSE, "plain")
Ended(words, word) == Read(words, word, TRUE, "plain")

\* The tokens that sh treats specially.
LEMMA SpecialsIn ==
  ASSUME NEW T, Specials \subseteq T
  PROVE  Quote \in T /\ "\\" \in T /\ " " \in T
BY DEF Specials

\* What sh makes of a token, and of the blank after it.
StepsSo(T, words, word, c) ==
  /\ At(words) \in Readers(T) /\ Ended(words, word) \in Readers(T)
  /\ ReadOn(At(words), c) = Ended(words, <<c>>)
  /\ ReadOn(Ended(words, word), " ") = At(Append(words, word))
  /\ Append(words, word) \in Seq(Seq(T)) /\ <<c>> \in Seq(T)

\* A plain token is read into a word, and a blank ends it.
LEMMA Steps ==
  ASSUME NEW T, Specials \subseteq T, NEW words \in Seq(Seq(T)), NEW word \in Seq(T),
         NEW c \in T \ Specials
  PROVE  StepsSo(T, words, word, c)
<1> DEFINE A == Seq(T)
           e == <<>>
           one == <<c>>
<1>1. c \in T /\ " " \in T /\ e \in A /\ one \in A /\ Append(e, c) = one
  <2>1. c \in T /\ " " \in T
    BY SpecialsIn
  <2>2. e \in A /\ one \in A
    BY <2>1, Zenon, NoneIsASeq, OneSeq
  <2>3. Append(e, c) = one
    BY OneSeq
  <2>4. QED
    BY <2>1, <2>2, <2>3
<1>2. ReadsSo(T, words, e, FALSE, c)
  BY <1>1, ReadFacts
<1>3. ReadsSo(T, words, word, TRUE, c)
  BY <1>1, ReadFacts
<1>4. Append(words, word) \in Seq(A)
  <2> HIDE DEF A
  <2>1. words \in Seq(A) /\ word \in A
    BY DEF A
  <2>2. QED
    BY <2>1
<1>5. At(words) \in Readers(T)
  BY <1>2, Zenon DEF ReadsSo, At
<1>6. ReadOn(At(words), c) = Ended(words, Append(e, c))
  BY <1>2, Zenon DEF ReadsSo, At, Ended, Specials
<1>7. Ended(words, word) \in Readers(T) /\ ReadOn(Ended(words, word), " ") = At(Append(words, word))
  BY <1>3, Zenon DEF ReadsSo, At, Ended
<1>8. QED
  BY <1>1, <1>4, <1>5, <1>6, <1>7, Zenon DEF StepsSo

\* What sh has read after some words of the author, between blanks.
PhrasesSo(T, words, word, c, d, e) ==
  LET next == Append(Append(Append(words, word), <<c>>), <<d>>)
  IN  /\ Reads(At(words), <<c, " ", d, " ">>) = At(Append(Append(words, <<c>>), <<d>>))
      /\ Reads(At(words), <<c, " ">>) = At(Append(words, <<c>>))
      /\ Reads(Ended(words, word), <<" ", c, " ">>) = At(Append(Append(words, word), <<c>>))
      /\ Reads(Ended(words, word), <<" ", c, " ", d, " ", e>>) = Ended(next, <<e>>)
      /\ Reads(Ended(words, word), <<" ", c, " ", d, " ", e, " ">>) = At(Append(next, <<e>>))

\* Up to three words in a row.
LEMMA Phrases ==
  ASSUME NEW T, Specials \subseteq T, NEW words \in Seq(Seq(T)), NEW word \in Seq(T),
         NEW c \in T \ Specials, NEW d \in T \ Specials, NEW e \in T \ Specials
  PROVE  PhrasesSo(T, words, word, c, d, e)
<1> DEFINE A == Seq(Seq(T))
           B == Seq(T)
           C == T \ Specials
           On(us, w) == Append(us, w)
<1>1. \A us \in A, w \in B, x \in C : StepsSo(T, us, w, x)
  BY Steps
<1>2. \A us \in A, w \in B, x \in C :
        /\ At(us) \in Readers(T) /\ Ended(us, w) \in Readers(T)
        /\ ReadOn(At(us), x) = Ended(us, <<x>>)
        /\ ReadOn(Ended(us, w), " ") = At(On(us, w))
        /\ On(us, w) \in A /\ <<x>> \in B
  BY <1>1, Zenon DEF StepsSo
<1>3. words \in A /\ word \in B /\ c \in C /\ d \in C /\ e \in C
  OBVIOUS
<1>4. c \in T /\ d \in T /\ e \in T /\ " " \in T
  BY SpecialsIn
<1> HIDE DEF A, B, C, On
<1>5. LineSo(At(words), c, " ", d, " ", c, c, c)
  BY <1>2, <1>3, <1>4, LineFacts
<1>6. LineSo(Ended(words, word), " ", c, " ", d, " ", e, " ")
  BY <1>2, <1>3, <1>4, LineFacts
<1>7. /\ Reads(At(words), <<c, " ">>) = At(On(words, <<c>>))
      /\ Reads(At(words), <<c, " ", d, " ">>) = At(On(On(words, <<c>>), <<d>>))
  <2> DEFINE u == On(words, <<c>>)
  <2>1. u \in A
    BY <1>2, <1>3, Zenon
  <2> DEFINE one == <<c>>
  <2>6. Reads(At(words), one) = Ended(words, one) /\ one \in B
    BY <1>2, <1>3, <1>5, Zenon DEF LineSo
  <2>7. Reads(At(words), <<c, " ">>) = ReadOn(Reads(At(words), one), " ")
    BY <1>5, Zenon DEF LineSo
  <2>2. Reads(At(words), <<c, " ">>) = At(u)
    <3> HIDE DEF one
    <3>1. ReadOn(Ended(words, one), " ") = At(On(words, one))
      BY <1>2, <1>3, <2>6, Zenon
    <3>2. QED
      BY <2>6, <2>7, <3>1, Zenon DEF one
  <2>3. Reads(At(words), <<c, " ", d>>) = Ended(u, <<d>>)
    BY <1>2, <1>3, <1>5, <2>1, <2>2, Zenon DEF LineSo
  <2>4. Reads(At(words), <<c, " ", d, " ">>) = At(On(u, <<d>>))
    BY <1>2, <1>3, <1>5, <2>1, <2>3, Zenon DEF LineSo
  <2>5. QED
    BY <2>2, <2>4
<1>8. /\ Reads(Ended(words, word), <<" ", c, " ">>) = At(On(On(words, word), <<c>>))
      /\ Reads(Ended(words, word), <<" ", c, " ", d, " ", e>>)
           = Ended(On(On(On(words, word), <<c>>), <<d>>), <<e>>)
      /\ Reads(Ended(words, word), <<" ", c, " ", d, " ", e, " ">>)
           = At(On(On(On(On(words, word), <<c>>), <<d>>), <<e>>))
  <2> DEFINE r == Ended(words, word)
             u == On(words, word)
             v == On(u, <<c>>)
             w == On(v, <<d>>)
  <2>1. u \in A /\ v \in A /\ w \in A
    <3>1. u \in A
      BY <1>2, <1>3, Zenon
    <3>2. v \in A
      BY <1>2, <1>3, <3>1, Zenon
    <3>3. w \in A
      BY <1>2, <1>3, <3>2, Zenon
    <3>4. QED
      BY <3>1, <3>2, <3>3
  <2>2. Reads(r, <<" ">>) = At(u)
    BY <1>2, <1>3, <1>6, Zenon DEF LineSo
  <2>3. Reads(r, <<" ", c>>) = Ended(u, <<c>>)
    BY <1>2, <1>3, <1>6, <2>1, <2>2, Zenon DEF LineSo
  <2>4. Reads(r, <<" ", c, " ">>) = At(v)
    BY <1>2, <1>3, <1>6, <2>1, <2>3, Zenon DEF LineSo
  <2>5. Reads(r, <<" ", c, " ", d>>) = Ended(v, <<d>>)
    BY <1>2, <1>3, <1>6, <2>1, <2>4, Zenon DEF LineSo
  <2>6. Reads(r, <<" ", c, " ", d, " ">>) = At(w)
    BY <1>2, <1>3, <1>6, <2>1, <2>5, Zenon DEF LineSo
  <2>7. Reads(r, <<" ", c, " ", d, " ", e>>) = Ended(w, <<e>>)
    BY <1>2, <1>3, <1>6, <2>1, <2>6, Zenon DEF LineSo
  <2>8. Reads(r, <<" ", c, " ", d, " ", e, " ">>) = At(On(w, <<e>>))
    BY <1>2, <1>3, <1>6, <2>1, <2>7, Zenon DEF LineSo
  <2>9. QED
    BY <2>4, <2>7, <2>8
<1>9. QED
  BY <1>7, <1>8, Zenon DEF PhrasesSo, On

\* Longer and longer tuples.
GrowSo(a, b, c, d, e, f, g, h, i, j) ==
  /\ <<a>> = Append(<<>>, a)
  /\ <<a, b>> = Append(<<a>>, b)
  /\ <<a, b, c>> = Append(<<a, b>>, c)
  /\ <<a, b, c, d>> = Append(<<a, b, c>>, d)
  /\ <<a, b, c, d, e>> = Append(<<a, b, c, d>>, e)
  /\ <<a, b, c, d, e, f>> = Append(<<a, b, c, d, e>>, f)
  /\ <<a, b, c, d, e, f, g>> = Append(<<a, b, c, d, e, f>>, g)
  /\ <<a, b, c, d, e, f, g, h>> = Append(<<a, b, c, d, e, f, g>>, h)
  /\ <<a, b, c, d, e, f, g, h, i>> = Append(<<a, b, c, d, e, f, g, h>>, i)
  /\ <<a, b, c, d, e, f, g, h, i, j>> = Append(<<a, b, c, d, e, f, g, h, i>>, j)

\* A tuple is its front with one more.
LEMMA TuplesGrow ==
  ASSUME NEW A, NEW a \in A, NEW b \in A, NEW c \in A, NEW d \in A, NEW e \in A,
         NEW f \in A, NEW g \in A, NEW h \in A, NEW i \in A, NEW j \in A
  PROVE  GrowSo(a, b, c, d, e, f, g, h, i, j)
<1>1. <<a>> = Append(<<>>, a)
  OBVIOUS
<1>2. <<a, b>> = Append(<<a>>, b)
  OBVIOUS
<1>3. <<a, b, c>> = Append(<<a, b>>, c)
  OBVIOUS
<1>4. <<a, b, c, d>> = Append(<<a, b, c>>, d)
  OBVIOUS
<1>5. <<a, b, c, d, e>> = Append(<<a, b, c, d>>, e)
  OBVIOUS
<1>6. <<a, b, c, d, e, f>> = Append(<<a, b, c, d, e>>, f)
  OBVIOUS
<1>7. <<a, b, c, d, e, f, g>> = Append(<<a, b, c, d, e, f>>, g)
  OBVIOUS
<1>8. <<a, b, c, d, e, f, g, h>> = Append(<<a, b, c, d, e, f, g>>, h)
  OBVIOUS
<1>9. <<a, b, c, d, e, f, g, h, i>> = Append(<<a, b, c, d, e, f, g, h>>, i)
  OBVIOUS
<1>10. <<a, b, c, d, e, f, g, h, i, j>> = Append(<<a, b, c, d, e, f, g, h, i>>, j)
  OBVIOUS
<1>11. QED
  BY <1>1, <1>2, <1>3, <1>4, <1>5, <1>6, <1>7, <1>8, <1>9, <1>10, Zenon DEF GrowSo

MeetSo(a, b, c, d, e, f, g, h, i, j) ==
  <<a, b, c, d>> \o <<e, f, g, h, i, j>> = <<a, b, c, d, e, f, g, h, i, j>>

\* Four and six are ten.
LEMMA TuplesMeet ==
  ASSUME NEW A, NEW a \in A, NEW b \in A, NEW c \in A, NEW d \in A, NEW e \in A,
         NEW f \in A, NEW g \in A, NEW h \in A, NEW i \in A, NEW j \in A
  PROVE  MeetSo(a, b, c, d, e, f, g, h, i, j)
<1> DEFINE p == <<a, b, c, d>>
           q == <<e, f, g, h, i, j>>
           r == <<a, b, c, d, e, f, g, h, i, j>>
           s == p \o q
<1>1. p \in Seq(A) /\ Len(p) = 4 /\ p[1] = a /\ p[2] = b /\ p[3] = c /\ p[4] = d
  OBVIOUS
<1>2. q \in Seq(A) /\ Len(q) = 6 /\ q[1] = e /\ q[2] = f /\ q[3] = g /\ q[4] = h /\ q[5] = i /\ q[6] = j
  OBVIOUS
<1>3. r \in Seq(A) /\ Len(r) = 10
  OBVIOUS
<1>4. r[1] = a /\ r[2] = b /\ r[3] = c /\ r[4] = d /\ r[5] = e /\ r[6] = f /\ r[7] = g /\ r[8] = h /\ r[9] = i /\ r[10] = j
  OBVIOUS
<1> HIDE DEF p, q, r
<1>5. p \in Seq(A) /\ q \in Seq(A)
  BY <1>1, <1>2
<1>6. /\ s \in Seq(A) /\ Len(s) = Len(p) + Len(q)
      /\ \A z \in 1..Len(p) : s[z] = p[z]
      /\ \A z \in 1..Len(q) : s[Len(p) + z] = q[z]
  BY <1>5, Meet
<1> HIDE DEF s
<1>7. \A z \in 1..4 : s[z] = r[z]
  BY <1>1, <1>4, <1>6
<1>8. \A z \in 1..6 : s[4 + z] = r[4 + z]
  <2>1. \A z \in 1..6 : s[4 + z] = q[z]
    BY <1>1, <1>2, <1>6
  <2>2. \A z \in 1..6 : r[4 + z] = q[z]
    BY <1>2, <1>4
  <2>3. QED
    BY <2>1, <2>2
<1>9. \A z \in 1..10 : s[z] = r[z]
  <2> TAKE z \in 1..10
  <2>1. CASE z \in 1..4
    BY <1>7, <2>1
  <2>2. CASE z \notin 1..4
    <3>1. z - 4 \in 1..6 /\ 4 + (z - 4) = z
      BY <2>2
    <3>2. QED
      BY <1>8, <3>1
  <2>3. QED
    BY <2>1, <2>2
<1>10. Len(s) = 10
  BY <1>1, <1>2, <1>6
<1>11. s = r
  BY <1>3, <1>6, <1>9, <1>10, SeqEqual
<1>12. QED
  BY <1>11, Zenon DEF MeetSo, p, q, r, s

FourSo(a, b, c, d) == Append(Append(Append(Append(<<>>, a), b), c), d) = <<a, b, c, d>>
TenSo(a, b, c, d, e, f, g, h, i, j) ==
  /\ <<a, b, c, d>> \o <<e, f, g, h, i, j>> = <<a, b, c, d, e, f, g, h, i, j>>
  /\ Append(Append(Append(Append(Append(Append(Append(Append(Append(Append(<<>>, a), b), c), d), e), f), g), h), i), j)
       = <<a, b, c, d, e, f, g, h, i, j>>

\* The tuples of four and ten, built one by one.
LEMMA LongTuples ==
  ASSUME NEW A, NEW a \in A, NEW b \in A, NEW c \in A, NEW d \in A, NEW e \in A,
         NEW f \in A, NEW g \in A, NEW h \in A, NEW i \in A, NEW j \in A
  PROVE  FourSo(a, b, c, d) /\ TenSo(a, b, c, d, e, f, g, h, i, j)
<1>6. GrowSo(a, b, c, d, e, f, g, h, i, j)
  BY TuplesGrow
<1>1. Append(Append(Append(Append(<<>>, a), b), c), d) = <<a, b, c, d>>
  BY <1>6, Zenon DEF GrowSo
<1>2. Append(Append(Append(Append(Append(Append(Append(<<>>, a), b), c), d), e), f), g)
        = <<a, b, c, d, e, f, g>>
  BY <1>1, <1>6, Zenon DEF GrowSo
<1>3. Append(Append(Append(Append(Append(Append(Append(Append(Append(Append(<<>>, a), b), c), d), e), f), g), h), i), j)
        = <<a, b, c, d, e, f, g, h, i, j>>
  BY <1>2, <1>6, Zenon DEF GrowSo
<1>4. <<a, b, c, d>> \o <<e, f, g, h, i, j>> = <<a, b, c, d, e, f, g, h, i, j>>
  <2>1. MeetSo(a, b, c, d, e, f, g, h, i, j)
    BY TuplesMeet
  <2>2. QED
    BY <2>1, Zenon DEF MeetSo
<1>5. QED
  BY <1>1, <1>3, <1>4, Zenon DEF FourSo, TenSo

\* Short tuples are sequences.
LEMMA TuplesIn ==
  ASSUME NEW A, NEW a \in A, NEW b \in A, NEW c \in A, NEW d \in A, NEW e \in A,
         NEW f \in A, NEW g \in A
  PROVE  /\ <<a>> \in Seq(A)
         /\ <<a, b>> \in Seq(A)
         /\ <<a, b, c>> \in Seq(A)
         /\ <<a, b, c, d>> \in Seq(A)
         /\ <<a, b, c, d, e, f>> \in Seq(A)
         /\ <<a, b, c, d, e, f, g>> \in Seq(A)
<1>1. <<a>> \in Seq(A)
  OBVIOUS
<1>2. <<a, b>> \in Seq(A)
  OBVIOUS
<1>3. <<a, b, c>> \in Seq(A)
  OBVIOUS
<1>4. <<a, b, c, d>> \in Seq(A)
  OBVIOUS
<1>5. <<a, b, c, d, e, f>> \in Seq(A)
  OBVIOUS
<1>6. <<a, b, c, d, e, f, g>> \in Seq(A)
  OBVIOUS
<1>7. QED
  BY <1>1, <1>2, <1>3, <1>4, <1>5, <1>6

\* A line that goes on.
LEMMA LineGoesOn ==
  ASSUME NEW T, NEW r \in Readers(T), NEW a \in Seq(T), NEW b \in Seq(T)
  PROVE  a \o b \in Seq(T) /\ Reads(r, a \o b) = Reads(Reads(r, a), b)
<1>1. a \o b \in Seq(T)
  OBVIOUS
<1>2. QED
  BY <1>1, ReadsBoth

\* A line that goes on with a value.
LEMMA QuotedAt ==
  ASSUME NEW T, Specials \subseteq T, NEW words \in Seq(Seq(T)), NEW v \in Seq(T)
  PROVE  /\ Reads(At(words), ShellQuoted(v)) = Ended(words, v)
         /\ ShellQuoted(v) \in Seq(T)
<1> DEFINE e == <<>>
<1>1. e \in Seq(T)
  BY NoneIsASeq
<1>2. {Quote, "\\"} \subseteq T
  BY SpecialsIn
<1>3. e \o v = v
  BY ConcatEmptySeq
<1> HIDE DEF e
<1>4. Reads(Read(words, e, FALSE, "plain"), ShellQuoted(v)) = Read(words, e \o v, TRUE, "plain")
  BY <1>1, <1>2, QuotedRead
<1>5. ShellQuoted(v) \in Seq(T)
  BY <1>2, QuotedType
<1>6. QED
  BY <1>3, <1>4, <1>5, Zenon DEF At, Ended, e

\* The tokens of the lines the nodes write themselves.
Plumbing == {"git", "clone", "&&", "-C", "checkout", "nohup", "--addr", "&"}

\* There is a set of tokens with all that lines are made of.
LEMMA PlumbingIn ==
  ASSUME NEW T
  PROVE  \E U : /\ T \subseteq U /\ Specials \subseteq U
                /\ Plumbing \subseteq U \ Specials
<1> DEFINE U == T \cup Specials \cup Plumbing
<1>1. T \subseteq U /\ Specials \subseteq U /\ Plumbing \subseteq U
  OBVIOUS
<1>2. \A c \in Plumbing : c \notin Specials
  BY DEF Plumbing, Specials, Quote
<1>3. Plumbing \subseteq U \ Specials
  BY <1>1, <1>2
<1> HIDE DEF U
<1>4. QED
  BY <1>1, <1>3

\* The words of a line that ends in a word, and of one that ends in a value.
LEMMA LineEnds ==
  ASSUME NEW words, NEW word
  PROVE  /\ Break(Ended(words, word)).words = Append(words, word)
         /\ Break(Read(words, word, FALSE, "plain")).words = words
BY DEF Break, Ended, Read

\* The nodes' own words are plain tokens.
LEMMA PlumbingHas ==
  ASSUME NEW U, Plumbing \subseteq U \ Specials
  PROVE  /\ "git" \in U \ Specials /\ "clone" \in U \ Specials /\ "&&" \in U \ Specials
         /\ "-C" \in U \ Specials /\ "checkout" \in U \ Specials /\ "nohup" \in U \ Specials
         /\ "--addr" \in U \ Specials /\ "&" \in U \ Specials
BY DEF Plumbing

\* One word more.
LEMMA WordsGrow ==
  ASSUME NEW A, NEW words \in Seq(A), NEW word \in A
  PROVE  Append(words, word) \in Seq(A)
OBVIOUS

\* Readers between words and at the end of one.
LEMMA ReadersAt ==
  ASSUME NEW T, Specials \subseteq T, NEW words \in Seq(Seq(T)), NEW word \in Seq(T)
  PROVE  /\ At(words) \in Readers(T) /\ Ended(words, word) \in Readers(T)
         /\ Reads(Ended(words, word), <<" ">>) = At(Append(words, word))
<1> DEFINE e == <<>>
<1>1. " " \in T /\ e \in Seq(T)
  BY SpecialsIn, NoneIsASeq
<1> HIDE DEF e
<1>2. ReadsSo(T, words, e, FALSE, " ")
  BY <1>1, ReadFacts
<1>3. ReadsSo(T, words, word, TRUE, " ")
  BY <1>1, ReadFacts
<1>4. At(words) \in Readers(T)
  BY <1>2, Zenon DEF ReadsSo, At, e
<1>5. Ended(words, word) \in Readers(T) /\ ReadOn(Ended(words, word), " ") = At(Append(words, word))
  BY <1>3, Zenon DEF ReadsSo, Ended, At
<1>6. Reads(Ended(words, word), <<" ">>) = ReadOn(Ended(words, word), " ")
  BY <1>1, <1>5, ReadsOne
<1>7. QED
  BY <1>4, <1>5, <1>6, Zenon

\* sh reads the command that clones a repository as it is meant, whatever the
\* repository, the path and the ref are (checkout_command, shell_quote).
THEOREM ClonesAreRead ==
  ASSUME NEW T, NEW repo \in Seq(T), NEW path \in Seq(T), NEW refs \in Seq(Seq(T)), Len(refs) <= 1
  PROVE  CloneIsRead(repo, path, refs)
<1>1. PICK U : T \subseteq U /\ Specials \subseteq U /\ Plumbing \subseteq U \ Specials
  BY PlumbingIn
<1> DEFINE A == <<"git", " ", "clone", " ">>
           B == <<" ">>
           C == <<" ", "&&", " ", "git", " ", "-C", " ">>
           D == <<" ", "checkout", " ">>
           R == ShellQuoted(repo)
           P == ShellQuoted(path)
           w2 == Append(Append(<<>>, <<"git">>), <<"clone">>)
           w3 == Append(w2, repo)
           w4 == Append(w3, path)
           w7 == Append(Append(Append(w4, <<"&&">>), <<"git">>), <<"-C">>)
           w8 == Append(w7, path)
           w9 == Append(w8, <<"checkout">>)
           S == Seq(U)
<1>2. /\ "git" \in U \ Specials /\ "clone" \in U \ Specials /\ "&&" \in U \ Specials
      /\ "-C" \in U \ Specials /\ "checkout" \in U \ Specials /\ " " \in U
  BY <1>1, PlumbingHas, SpecialsIn
<1>3. A \in S /\ B \in S /\ C \in S /\ D \in S
  <2>1. /\ "git" \in U /\ "clone" \in U /\ "&&" \in U /\ "-C" \in U /\ "checkout" \in U
        /\ " " \in U
    BY <1>2
  <2>2. A \in S
    BY <2>1, TuplesIn, Zenon
  <2>3. B \in S
    BY <2>1, OneSeq, Zenon
  <2>4. C \in S
    BY <2>1, TuplesIn, Zenon
  <2>5. D \in S
    BY <2>1, TuplesIn, ZenonT(40)
  <2>6. QED
    BY <2>2, <2>3, <2>4, <2>5
<1>4. repo \in S /\ path \in S
  BY <1>1
<1>5. <<"git">> \in S /\ <<"clone">> \in S /\ <<"&&">> \in S /\ <<"-C">> \in S /\ <<"checkout">> \in S
  <2>1. /\ "git" \in U /\ "clone" \in U /\ "&&" \in U /\ "-C" \in U /\ "checkout" \in U
    BY <1>2
  <2>2. QED
    BY <2>1, OneSeq, Zenon
<1>6. /\ <<>> \in Seq(S) /\ w2 \in Seq(S) /\ w3 \in Seq(S) /\ w4 \in Seq(S)
      /\ w7 \in Seq(S) /\ w8 \in Seq(S) /\ w9 \in Seq(S)
  <2> HIDE DEF S
  <2>1. <<>> \in Seq(S) /\ w2 \in Seq(S)
    BY <1>5, NoneIsASeq, WordsGrow
  <2> HIDE DEF w2
  <2>2. w3 \in Seq(S) /\ w4 \in Seq(S)
    BY <1>4, <2>1, WordsGrow
  <2> HIDE DEF w4
  <2>3. w7 \in Seq(S)
    BY <1>5, <2>2, WordsGrow
  <2> HIDE DEF w7
  <2>4. w8 \in Seq(S) /\ w9 \in Seq(S)
    BY <1>4, <1>5, <2>3, WordsGrow
  <2>5. QED
    BY <2>1, <2>2, <2>3, <2>4
<1>7. R \in S /\ P \in S
  BY <1>1, <1>4, QuotedAt, <1>6
<1>8. /\ Reads(At(<<>>), A) = At(w2)
  <2>1. PhrasesSo(U, <<>>, repo, "git", "clone", "git")
    BY <1>1, <1>2, <1>4, <1>6, Phrases
  <2>2. QED
    BY <2>1, Zenon DEF PhrasesSo
<1>9. Reads(Ended(w3, path), C) = At(w7)
  <2> HIDE DEF S, w3
  <2>1. PhrasesSo(U, w3, path, "&&", "git", "-C")
    BY <1>1, <1>2, <1>4, <1>6, Phrases DEF S
  <2>2. QED
    BY <2>1, Zenon DEF PhrasesSo
<1>10. Reads(Ended(w7, path), D) = At(w9)
  <2> HIDE DEF S, w7
  <2>1. PhrasesSo(U, w7, path, "checkout", "git", "-C")
    BY <1>1, <1>2, <1>4, <1>6, Phrases DEF S
  <2>2. QED
    BY <2>1, Zenon DEF PhrasesSo
<1>11. /\ \A w \in Seq(S), v \in S : Ended(w, v) \in Readers(U)
       /\ \A w \in Seq(S) : At(w) \in Readers(U)
  BY <1>1, <1>4, ReadersAt
<1>12. /\ Reads(At(w2), R) = Ended(w2, repo) /\ Reads(Ended(w2, repo), B) = At(w3)
       /\ Reads(At(w3), P) = Ended(w3, path) /\ Reads(At(w7), P) = Ended(w7, path)
  <2> HIDE DEF w2, w7, S
  <2>1. Reads(At(w2), R) = Ended(w2, repo)
    BY <1>1, <1>4, <1>6, QuotedAt DEF S
  <2>2. Reads(Ended(w2, repo), B) = At(w3)
    BY <1>1, <1>4, <1>6, ReadersAt DEF S
  <2> HIDE DEF w3
  <2>3. Reads(At(w3), P) = Ended(w3, path)
    BY <1>1, <1>4, <1>6, QuotedAt DEF S
  <2>4. Reads(At(w7), P) = Ended(w7, path)
    BY <1>1, <1>4, <1>6, QuotedAt DEF S
  <2>5. QED
    BY <2>1, <2>2, <2>3, <2>4
<1>13. Ended(w9, <<"git">>) \in Readers(U) /\ At(<<>>) \in Readers(U) /\ At(w9) \in Readers(U)
  BY <1>5, <1>6, <1>11
<1> DEFINE L == A \o R \o B \o P
<1>14. L \in S /\ Reads(At(<<>>), L) = Ended(w3, path)
  <2> DEFINE r == At(<<>>)
             L1 == A \o R
             L2 == L1 \o B
  <2>1. r \in Readers(U)
    BY <1>13
  <2> HIDE DEF A, B, R, P, w2, w3, r
  <2>8. A \in S /\ B \in S /\ R \in S
    BY <1>3, <1>7
  <2>2. L1 \in S /\ Reads(r, L1) = Reads(Reads(r, A), R)
    BY <2>1, <2>8, LineGoesOn
  <2>3. Reads(r, L1) = Ended(w2, repo)
    BY <1>8, <1>12, <2>2 DEF r
  <2> HIDE DEF L1
  <2>4. L2 \in S /\ Reads(r, L2) = Reads(Reads(r, L1), B)
    BY <2>1, <2>2, <2>8, LineGoesOn
  <2>5. Reads(r, L2) = At(w3)
    BY <1>12, <2>3, <2>4
  <2> HIDE DEF L2
  <2>6. L2 \o P \in S /\ Reads(r, L2 \o P) = Reads(Reads(r, L2), P)
    BY <1>7, <2>1, <2>4, LineGoesOn
  <2>7. QED
    BY <1>12, <2>5, <2>6 DEF r, L1, L2
<1>15. CheckoutCommand(repo, path, refs)
         = L \o IF refs = <<>> THEN <<>> ELSE C \o P \o D \o ShellQuoted(refs[1])
  BY Zenon DEF CheckoutCommand
<1>16. Words(CheckoutCommand(repo, path, refs))
         = Break(Reads(At(<<>>), CheckoutCommand(repo, path, refs))).words
  BY Zenon DEF Words, Unread, At, Read
<1>17. CASE refs = <<>>
  <2>1. L \o <<>> = L
    <3> HIDE DEF L
    <3>1. QED
      BY <1>14, ConcatEmptySeq
  <2>2. CheckoutCommand(repo, path, refs) = L
    BY <1>15, <1>17, <2>1
  <2>3. Words(CheckoutCommand(repo, path, refs)) = w4
    BY <1>14, <1>16, <2>2, LineEnds, ZenonT(40)
  <2>4. w4 = <<<<"git">>, <<"clone">>, repo, path>>
    <3> HIDE DEF S
    <3>1. FourSo(<<"git">>, <<"clone">>, repo, path)
      BY <1>4, <1>5, LongTuples
    <3>2. QED
      BY <3>1, Zenon DEF FourSo
  <2>5. w4 \o <<>> = w4
    BY <1>6, ConcatEmptySeq
  <2>6. QED
    BY <1>17, <2>3, <2>4, <2>5, Zenon DEF CloneIsRead
<1>18. CASE refs # <<>>
  <2> DEFINE v == refs[1]
             Q == ShellQuoted(v)
             M == C \o P \o D \o Q
  <2>1. v \in S
    <3>1. 1 \in 1..Len(refs)
      BY <1>18
    <3>2. v \in Seq(T)
      BY <3>1
    <3>3. QED
      BY <1>1, <3>2
  <2> HIDE DEF v
  <2>2. Q \in S /\ Reads(At(w9), Q) = Ended(w9, v)
    <3> HIDE DEF w9, S
    <3>1. QED
      BY <1>1, <1>6, <2>1, QuotedAt DEF S
  <2>3. M \in S /\ Reads(Ended(w3, path), M) = Ended(w9, v)
    <3> DEFINE r == Ended(w3, path)
               M1 == C \o P
               M2 == M1 \o D
    <3>1. r \in Readers(U)
      BY <1>4, <1>6, <1>11
    <3> HIDE DEF C, D, P, Q, w3, w7, w9, r
    <3>8. C \in S /\ D \in S /\ P \in S
      BY <1>3, <1>7
    <3>2. M1 \in S /\ Reads(r, M1) = Reads(Reads(r, C), P)
      BY <3>1, <3>8, LineGoesOn
    <3>3. Reads(r, M1) = Ended(w7, path)
      BY <1>9, <1>12, <3>2 DEF r
    <3> HIDE DEF M1
    <3>4. M2 \in S /\ Reads(r, M2) = Reads(Reads(r, M1), D)
      BY <3>1, <3>2, <3>8, LineGoesOn
    <3>5. Reads(r, M2) = At(w9)
      BY <1>10, <3>3, <3>4
    <3> HIDE DEF M2
    <3>6. M2 \o Q \in S /\ Reads(r, M2 \o Q) = Reads(Reads(r, M2), Q)
      BY <2>2, <3>1, <3>4, LineGoesOn
    <3>7. QED
      BY <2>2, <3>5, <3>6 DEF r, M1, M2
  <2>4. CheckoutCommand(repo, path, refs) = L \o M
    BY <1>15, <1>18 DEF v
  <2>5. Reads(At(<<>>), L \o M) = Ended(w9, v)
    <3> DEFINE r == At(<<>>)
    <3>1. r \in Readers(U)
      BY <1>13
    <3> HIDE DEF L, M, r
    <3>2. Reads(r, L \o M) = Reads(Reads(r, L), M)
      BY <1>14, <2>3, <3>1, LineGoesOn
    <3>3. QED
      BY <1>14, <2>3, <3>2 DEF r
  <2>6. Words(CheckoutCommand(repo, path, refs)) = Append(w9, v)
    <3> HIDE DEF L, M, w9
    <3>1. QED
      BY <1>16, <2>4, <2>5, LineEnds, Zenon
  <2> DEFINE head == <<<<"git">>, <<"clone">>, repo, path>>
             tail == <<<<"&&">>, <<"git">>, <<"-C">>, path, <<"checkout">>, v>>
  <2>7. head \o tail = Append(w9, v)
    <3> HIDE DEF S
    <3>1. TenSo(<<"git">>, <<"clone">>, repo, path, <<"&&">>, <<"git">>, <<"-C">>, path,
                <<"checkout">>, v)
      BY <1>4, <1>5, <2>1, LongTuples
    <3>2. QED
      BY <3>1, Zenon DEF TenSo
  <2> HIDE DEF w9
  <2>8. QED
    BY <1>18, <2>6, <2>7, Zenon DEF CloneIsRead, v
<1>19. QED
  BY <1>17, <1>18

\* sh reads the command that starts the agent of a container as it is meant,
\* whatever the command of the agent is (launch_command).
THEOREM LaunchesAreRead ==
  ASSUME NEW T, NEW command \in Seq(T), NEW port, port \notin Specials
  PROVE  LaunchIsRead(command, port)
<1>1. PICK U : T \cup {port} \subseteq U /\ Specials \subseteq U /\ Plumbing \subseteq U \ Specials
  <2> DEFINE P == T \cup {port}
  <2> HIDE DEF P
  <2>1. \E U : P \subseteq U /\ Specials \subseteq U /\ Plumbing \subseteq U \ Specials
    BY PlumbingIn
  <2>2. QED
    BY <2>1 DEF P
<1> DEFINE A == <<"nohup", " ">>
           D == <<" ", "--addr", " ", port, " ", "&">>
           R == ShellQuoted(command)
           w1 == Append(<<>>, <<"nohup">>)
           w2 == Append(w1, command)
           w4 == Append(Append(w2, <<"--addr">>), <<port>>)
           S == Seq(U)
<1>2. /\ "nohup" \in U \ Specials /\ "--addr" \in U \ Specials /\ "&" \in U \ Specials
      /\ port \in U \ Specials /\ " " \in U
  BY <1>1, PlumbingHas, SpecialsIn
<1>3. A \in S /\ D \in S /\ R \in S /\ command \in S
  <2>1. "nohup" \in U /\ "--addr" \in U /\ "&" \in U /\ port \in U /\ " " \in U
    BY <1>2
  <2>2. A \in S
    BY <2>1, TuplesIn, Zenon
  <2>3. D \in S
    BY <2>1, TuplesIn, Zenon
  <2>4. command \in S
    BY <1>1
  <2>5. R \in S
    <3>1. <<>> \in Seq(S)
      BY NoneIsASeq
    <3>2. QED
      BY <1>1, <2>4, <3>1, QuotedAt
  <2>6. QED
    BY <2>2, <2>3, <2>4, <2>5
<1>4. <<"nohup">> \in S /\ <<"--addr">> \in S /\ <<port>> \in S /\ <<"&">> \in S
  <2>1. "nohup" \in U /\ "--addr" \in U /\ "&" \in U /\ port \in U
    BY <1>2
  <2>2. QED
    BY <2>1, OneSeq, Zenon
<1>5. <<>> \in Seq(S) /\ w1 \in Seq(S) /\ w2 \in Seq(S)
  <2> HIDE DEF S
  <2>1. <<>> \in Seq(S) /\ w1 \in Seq(S)
    BY <1>4, NoneIsASeq, WordsGrow
  <2> HIDE DEF w1
  <2>2. w2 \in Seq(S)
    BY <1>3, <2>1, WordsGrow
  <2>3. QED
    BY <2>1, <2>2
<1>6. Reads(At(<<>>), A) = At(w1)
  <2>1. PhrasesSo(U, <<>>, command, "nohup", "nohup", "nohup")
    BY <1>1, <1>2, <1>3, <1>5, Phrases
  <2>2. QED
    BY <2>1, Zenon DEF PhrasesSo
<1>7. Reads(At(w1), R) = Ended(w1, command)
  <2> HIDE DEF w1
  <2>1. QED
    BY <1>1, <1>3, <1>5, QuotedAt
<1>8. Reads(Ended(w1, command), D) = Ended(w4, <<"&">>)
  <2> HIDE DEF w1
  <2>1. PhrasesSo(U, w1, command, "--addr", port, "&")
    BY <1>1, <1>2, <1>3, <1>5, Phrases
  <2>2. QED
    BY <2>1, Zenon DEF PhrasesSo
<1>9. LaunchCommand(command, port) = A \o R \o D
  BY Zenon DEF LaunchCommand
<1>10. Reads(At(<<>>), A \o R \o D) = Ended(w4, <<"&">>)
  <2> DEFINE r == At(<<>>)
             L == A \o R
  <2>1. r \in Readers(U)
    BY <1>1, <1>3, <1>5, ReadersAt
  <2>2. A \in S /\ R \in S /\ D \in S
    BY <1>3
  <2> HIDE DEF A, R, D, w1, w4, r
  <2>3. L \in S /\ Reads(r, L) = Reads(Reads(r, A), R)
    BY <2>1, <2>2, LineGoesOn
  <2>4. Reads(r, L) = Ended(w1, command)
    BY <1>6, <1>7, <2>3 DEF r
  <2> HIDE DEF L
  <2>5. Reads(r, L \o D) = Reads(Reads(r, L), D)
    BY <2>1, <2>2, <2>3, LineGoesOn
  <2>6. QED
    BY <1>8, <2>4, <2>5 DEF r, L
<1>11. Words(LaunchCommand(command, port))
         = Break(Reads(At(<<>>), LaunchCommand(command, port))).words
  BY Zenon DEF Words, Unread, At, Read
<1>12. Words(LaunchCommand(command, port)) = Append(w4, <<"&">>)
  <2> HIDE DEF w4, A, R, D
  <2>1. QED
    BY <1>9, <1>10, <1>11, LineEnds, Zenon
<1>13. Append(w4, <<"&">>) = <<<<"nohup">>, command, <<"--addr">>, <<port>>, <<"&">>>>
  <2> HIDE DEF S
  <2>1. GrowSo(<<"nohup">>, command, <<"--addr">>, <<port>>, <<"&">>, command, command, command,
               command, command)
    BY <1>3, <1>4, TuplesGrow
  <2>2. QED
    BY <2>1, Zenon DEF GrowSo
<1>14. QED
  BY <1>12, <1>13, Zenon DEF LaunchIsRead

-----------------------------------------------------------------------------
(* Putting a text in for every token of another.                           *)
Spread(F, text) == FlattenSeq([i \in DOMAIN text |-> F[text[i]]])

\* The first k of these texts, put together.
SpreadSo(g, F, W, a) ==
  /\ g \in [0..Len(a) -> Seq(W)] /\ g[0] = <<>>
  /\ \A k \in 1..Len(a) : g[k] = g[k - 1] \o F[a[k]]
  /\ Spread(F, a) = g[Len(a)]

\* What a text spreads into is put together token by token.
LEMMA SpreadFacts ==
  ASSUME NEW X, NEW W, NEW F \in [X -> Seq(W)], NEW a \in Seq(X)
  PROVE  (\E g : SpreadSo(g, F, W, a)) /\ Spread(F, a) \in Seq(W)
<1> DEFINE n == Len(a)
           f == [i \in DOMAIN a |-> F[a[i]]]
<1>1. n \in Nat /\ DOMAIN a = 1..n /\ \A i \in 1..n : F[a[i]] \in Seq(W)
  OBVIOUS
<1>2. f \in [1..n -> Seq(W)] /\ \A i \in 1..n : f[i] = F[a[i]]
  <2> HIDE DEF n
  <2>1. QED
    BY <1>1
<1> HIDE DEF n, f
<1>3. PICK g : Together(g, W, n, f) /\ FlattenSeq(f) = g[n]
  BY <1>1, <1>2, FlattenFacts
<1>4. g \in [0..n -> Seq(W)] /\ g[0] = <<>> /\ \A k \in 1..n : g[k] = g[k - 1] \o F[a[k]]
  BY <1>2, <1>3 DEF Together
<1>5. Spread(F, a) = g[n]
  BY <1>3, Zenon DEF Spread, f
<1>6. g[n] \in Seq(W)
  BY <1>1, <1>4
<1>7. QED
  BY <1>4, <1>5, <1>6 DEF SpreadSo, n

\* A text in parts.
LEMMA SpreadJoin ==
  ASSUME NEW X, NEW W, NEW F \in [X -> Seq(W)], NEW a \in Seq(X), NEW b \in Seq(X)
  PROVE  Spread(F, a \o b) = Spread(F, a) \o Spread(F, b)
<1> DEFINE m == Len(a)
           n == Len(b)
           c == a \o b
<1>1. /\ m \in Nat /\ n \in Nat /\ c \in Seq(X) /\ Len(c) = m + n
      /\ \A i \in 1..m : i \in 1..Len(c) /\ c[i] = a[i]
      /\ \A i \in 1..n : m + i \in 1..Len(c) /\ c[m + i] = b[i]
  BY Meet, SMTT(40)
<1> HIDE DEF m, n, c
<1>2. PICK f : SpreadSo(f, F, W, c)
  BY <1>1, SpreadFacts
<1>3. PICK g : SpreadSo(g, F, W, a)
  BY SpreadFacts
<1>4. PICK h : SpreadSo(h, F, W, b)
  BY SpreadFacts
<1>5. /\ f[0] = <<>> /\ \A k \in 1..(m + n) : f[k] = f[k - 1] \o F[c[k]]
      /\ Spread(F, c) = f[m + n]
  BY <1>1, <1>2 DEF SpreadSo
<1>6. /\ g \in [0..m -> Seq(W)] /\ g[0] = <<>> /\ \A k \in 1..m : g[k] = g[k - 1] \o F[a[k]]
      /\ Spread(F, a) = g[m]
  BY <1>3 DEF SpreadSo, m
<1>7. /\ h \in [0..n -> Seq(W)] /\ h[0] = <<>> /\ \A k \in 1..n : h[k] = h[k - 1] \o F[b[k]]
      /\ Spread(F, b) = h[n]
  BY <1>4 DEF SpreadSo, n
<1>8. \A i \in 1..n : F[b[i]] \in Seq(W)
  BY DEF n
<1> DEFINE Low == {k \in 0..m : f[k] = g[k]}
           High == {k \in 0..n : f[m + k] = g[m] \o h[k]}
<1>9. \A k \in 0..m : k \in Low
  <2>1. 0 \in Low
    BY <1>1, <1>5, <1>6
  <2>2. ASSUME NEW k \in 1..m, k - 1 \in Low PROVE k \in Low
    <3>1. k \in 1..(m + n) /\ c[k] = a[k] /\ k \in 0..m
      BY <1>1
    <3>2. f[k] = f[k - 1] \o F[c[k]] /\ g[k] = g[k - 1] \o F[a[k]] /\ f[k - 1] = g[k - 1]
      BY <1>5, <1>6, <2>2, <3>1
    <3>3. QED
      BY <3>1, <3>2
  <2> HIDE DEF Low
  <2>3. QED
    BY <1>1, <2>1, <2>2, Climb
<1>10. f[m] = g[m] /\ g[m] \in Seq(W)
  BY <1>1, <1>6, <1>9
<1>11. \A k \in 0..n : k \in High
  <2>1. 0 \in High
    <3>1. g[m] \o <<>> = g[m]
      BY <1>10, ConcatEmptySeq
    <3>2. m + 0 = m /\ 0 \in 0..n
      BY <1>1
    <3>3. f[m + 0] = g[m] \o h[0]
      BY <1>7, <1>10, <3>1, <3>2
    <3>4. QED
      BY <3>2, <3>3
  <2>2. ASSUME NEW k \in 1..n, k - 1 \in High PROVE k \in High
    <3>1. m + k \in 1..(m + n) /\ (m + k) - 1 = m + (k - 1) /\ k \in 0..n /\ k - 1 \in 0..n
      BY <1>1
    <3>2. f[m + k] = f[m + (k - 1)] \o F[c[m + k]]
      BY <1>5, <3>1
    <3>3. f[m + (k - 1)] = g[m] \o h[k - 1] /\ c[m + k] = b[k] /\ h[k] = h[k - 1] \o F[b[k]]
      BY <1>1, <1>7, <2>2
    <3>4. h[k - 1] \in Seq(W) /\ F[b[k]] \in Seq(W)
      BY <1>7, <1>8, <3>1
    <3>5. (g[m] \o h[k - 1]) \o F[b[k]] = g[m] \o (h[k - 1] \o F[b[k]])
      <4> DEFINE p == g[m]
                 q == h[k - 1]
                 r == F[b[k]]
      <4>1. p \in Seq(W) /\ q \in Seq(W) /\ r \in Seq(W)
        BY <1>10, <3>4
      <4> HIDE DEF p, q, r
      <4>2. (p \o q) \o r = p \o (q \o r)
        BY <4>1, ConcatAssociative, SMTT(30)
      <4>3. QED
        BY <4>2 DEF p, q, r
    <3>6. f[m + k] = g[m] \o h[k]
      BY <3>2, <3>3, <3>5
    <3>7. QED
      BY <3>1, <3>6
  <2> HIDE DEF High
  <2>3. QED
    BY <1>1, <2>1, <2>2, Climb
<1>12. f[m + n] = g[m] \o h[n]
  <2>1. n \in 0..n
    BY <1>1
  <2>2. n \in High
    BY <1>11, <2>1
  <2>3. QED
    BY <2>2
<1>13. QED
  BY <1>5, <1>6, <1>7, <1>12 DEF c

\* A text of one token, and none.
LEMMA SpreadOne ==
  ASSUME NEW X, NEW W, NEW F \in [X -> Seq(W)], NEW c \in X
  PROVE  Spread(F, <<>>) = <<>> /\ Spread(F, <<c>>) = F[c]
<1> DEFINE e == <<>>
           one == <<c>>
<1>1. e \in Seq(X) /\ Len(e) = 0
  BY NoneIsASeq
<1>2. one \in Seq(X) /\ Len(one) = 1 /\ one[1] = c
  OBVIOUS
<1> HIDE DEF e, one
<1>3. PICK g : SpreadSo(g, F, W, e)
  BY <1>1, SpreadFacts
<1>4. PICK h : SpreadSo(h, F, W, one)
  BY <1>2, SpreadFacts
<1>5. Spread(F, e) = <<>>
  BY <1>1, <1>3 DEF SpreadSo
<1>6. h[0] = <<>> /\ h[1] = h[1 - 1] \o F[c] /\ Spread(F, one) = h[1]
  BY <1>2, <1>4 DEF SpreadSo
<1>7. <<>> \o F[c] = F[c]
  BY ConcatEmptySeq
<1>8. Spread(F, one) = F[c]
  BY <1>6, <1>7
<1>9. QED
  BY <1>5, <1>8 DEF e, one

\* A text whose tokens stand for themselves.
LEMMA SpreadSame ==
  ASSUME NEW X, NEW W, NEW F \in [X -> Seq(W)], NEW T \in SUBSET X, NEW a \in Seq(T),
         \A c \in T : F[c] = <<c>>
  PROVE  Spread(F, a) = a
<1> DEFINE n == Len(a)
<1>1. a \in Seq(X) /\ n \in Nat /\ \A k \in 1..n : a[k] \in T
  OBVIOUS
<1>2. PICK g : SpreadSo(g, F, W, a)
  BY <1>1, SpreadFacts
<1>3. g[0] = <<>> /\ Spread(F, a) = g[n] /\ \A k \in 1..n : g[k] = g[k - 1] \o F[a[k]]
  BY <1>2 DEF SpreadSo
<1> DEFINE Same == {k \in 0..n : g[k] = SubSeq(a, 1, k)}
<1>4. 0 \in Same
  <2>1. SubSeq(a, 1, 0) = <<>>
    OBVIOUS
  <2>2. 0 \in 0..n /\ g[0] = SubSeq(a, 1, 0)
    BY <1>1, <1>3, <2>1
  <2>3. QED
    BY <2>2
<1>5. ASSUME NEW k \in 1..n, k - 1 \in Same PROVE k \in Same
  <2> DEFINE p == SubSeq(a, 1, k - 1)
             e == <<>>
  <2>1. e \in Seq(T)
    BY NoneIsASeq
  <2>2. p \in Seq(T) /\ SubSeq(a, 1, k) \in Seq(T) /\ a[k] \in T
    BY <1>1
  <2>3. SubSeq(a, 1, k) = Append(p, a[k])
    OBVIOUS
  <2> HIDE DEF p
  <2>4. Append(p, a[k]) = p \o <<a[k]>>
    BY <2>2, AppendIsConcat
  <2>5. g[k] = p \o <<a[k]>>
    <3>1. g[k] = g[k - 1] \o F[a[k]] /\ F[a[k]] = <<a[k]>>
      BY <1>3, <2>2
    <3>2. g[k - 1] = p
      BY <1>5 DEF p
    <3>3. QED
      BY <3>1, <3>2
  <2>6. k \in 0..n /\ g[k] = SubSeq(a, 1, k)
    BY <1>1, <2>3, <2>4, <2>5
  <2>7. QED
    BY <2>6
<1>6. \A k \in 0..n : k \in Same
  <2> HIDE DEF Same, n
  <2>1. QED
    BY <1>1, <1>4, <1>5, Climb
<1>7. SubSeq(a, 1, n) = a
  OBVIOUS
<1>8. QED
  BY <1>1, <1>3, <1>6, <1>7

-----------------------------------------------------------------------------
(* Rendering a template.                                                   *)
StatesOf(V, D, M, N) == [task : Seq(V), messages : M, status : N, vars : [D -> Seq(V)]]

\* Marks of their own for the keys, among them all that are known.
MarksFit(mark, K, Q, T, D) ==
  /\ mark \in [K -> Q] /\ Q \cap T = {}
  /\ \A j, k \in K : mark[j] = mark[k] => j = k
  /\ D \cup {<<"task">>} \subseteq K

KnownSo(st, other, mark, K, V, key) ==
  \/ Known(st, key) = <<>> /\ Known(other, key) = <<>>
  \/ key \in K /\ \E v \in Seq(V) : Known(st, key) = <<v>> /\ Known(other, key) = <<<<mark[key]>>>>

\* A key known to a state is known to the marked one, by its mark.
LEMMA KnownFacts ==
  ASSUME NEW V, NEW D, NEW M, NEW N, NEW st \in StatesOf(V, D, M, N),
         NEW mark, NEW K, NEW Q, NEW T, MarksFit(mark, K, Q, T, D), NEW key
  PROVE  KnownSo(st, Marked(st, mark), mark, K, V, key)
<1> DEFINE other == Marked(st, mark)
<1>1. st.task \in Seq(V) /\ st.vars \in [D -> Seq(V)]
  BY DEF StatesOf
<1>2. /\ other.task = <<mark[<<"task">>]>>
      /\ other.vars = [k \in D |-> <<mark[k]>>]
  BY DEF StatesOf, Marked
<1>3. D \subseteq K /\ <<"task">> \in K
  BY DEF MarksFit
<1> HIDE DEF other
<1>4. CASE key = <<"task">>
  <2>1. Known(st, key) = <<st.task>> /\ Known(other, key) = <<<<mark[key]>>>>
    BY <1>2, <1>4, Zenon DEF Known
  <2>2. QED
    BY <1>1, <1>3, <1>4, <2>1, Zenon DEF KnownSo, other
<1>5. CASE key # <<"task">> /\ key \in D
  <2>1. Known(st, key) = <<st.vars[key]>> /\ Known(other, key) = <<other.vars[key]>>
    <3>1. DOMAIN st.vars = D /\ DOMAIN other.vars = D
      BY <1>1, <1>2
    <3>2. QED
      BY <1>5, <3>1, Zenon DEF Known
  <2>2. other.vars[key] = <<mark[key]>> /\ st.vars[key] \in Seq(V)
    BY <1>1, <1>2, <1>5
  <2>3. QED
    BY <1>3, <1>5, <2>1, <2>2, Zenon DEF KnownSo, other
<1>6. CASE key # <<"task">> /\ key \notin D
  <2>1. DOMAIN st.vars = D /\ DOMAIN other.vars = D
    BY <1>1, <1>2
  <2>2. Known(st, key) = <<>> /\ Known(other, key) = <<>>
    BY <1>6, <2>1, Zenon DEF Known
  <2>3. QED
    BY <2>2, Zenon DEF KnownSo, other
<1>7. QED
  BY <1>4, <1>5, <1>6

\* What a token of a marked text stands for.
Meaning(c, st, mark) ==
  LET key == {k \in DOMAIN mark : mark[k] = c}
  IN IF key = {} THEN <<c>> ELSE Known(st, CHOOSE k \in key : TRUE)[1]

\* A token of the template means itself, a mark means the value of its key.
LEMMA MeaningFacts ==
  ASSUME NEW st, NEW mark, NEW K, NEW Q, NEW T, NEW D, MarksFit(mark, K, Q, T, D)
  PROVE  /\ \A c \in T : Meaning(c, st, mark) = <<c>>
         /\ \A k \in K : Meaning(mark[k], st, mark) = Known(st, k)[1]
<1>1. /\ DOMAIN mark = K /\ \A k \in K : mark[k] \in Q
      /\ \A c \in T : c \notin Q
      /\ \A j, k \in K : mark[j] = mark[k] => j = k
  BY DEF MarksFit
<1>2. ASSUME NEW c \in T PROVE Meaning(c, st, mark) = <<c>>
  <2> DEFINE key == {k \in DOMAIN mark : mark[k] = c}
  <2>1. key = {}
    BY <1>1
  <2>2. QED
    BY <2>1, Zenon DEF Meaning
<1>3. ASSUME NEW k \in K PROVE Meaning(mark[k], st, mark) = Known(st, k)[1]
  <2> DEFINE key == {j \in DOMAIN mark : mark[j] = mark[k]}
  <2>1. key = {k}
    BY <1>1
  <2> HIDE DEF key
  <2>2. (CHOOSE j \in key : TRUE) = k /\ key # {}
    BY <2>1
  <2>3. Meaning(mark[k], st, mark) = Known(st, CHOOSE j \in key : TRUE)[1]
    BY <2>2, Zenon DEF Meaning, key
  <2>4. QED
    BY <2>2, <2>3
<1>4. QED
  BY <1>2, <1>3

\* The tokens of a marked text, and what they mean.
Inked(T, K, st, mark) == T \cup {mark[k] : k \in {j \in K : Known(st, j) # <<>>}}
Meanings(T, K, st, mark) == [c \in Inked(T, K, st, mark) |-> Meaning(c, st, mark)]

MeaningsSo(T, V, K, st, mark) ==
  /\ Meanings(T, K, st, mark) \in [Inked(T, K, st, mark) -> Seq(T \cup V)]
  /\ \A c \in T : c \in Inked(T, K, st, mark) /\ Meanings(T, K, st, mark)[c] = <<c>>
  /\ \A key \in K, v \in Seq(V) :
       Known(st, key) = <<v>> => /\ mark[key] \in Inked(T, K, st, mark)
                                 /\ Meanings(T, K, st, mark)[mark[key]] = v
  /\ \A text \in Seq(Inked(T, K, st, mark)) :
       Unmarked(text, st, mark) = Spread(Meanings(T, K, st, mark), text)

\* The meanings of tokens as a function, and unmarking as spreading by it.
LEMMA MeaningsFacts ==
  ASSUME NEW V, NEW D, NEW M, NEW N, NEW st \in StatesOf(V, D, M, N),
         NEW mark, NEW K, NEW Q, NEW T, MarksFit(mark, K, Q, T, D)
  PROVE  MeaningsSo(T, V, K, st, mark)
<1> DEFINE X == Inked(T, K, st, mark)
           F == Meanings(T, K, st, mark)
           W == T \cup V
           Mean(c) == Meaning(c, st, mark)
<1>1. F = [c \in X |-> Mean(c)]
  BY DEF Meanings
<1>2. /\ \A c \in T : Mean(c) = <<c>>
      /\ \A k \in K : Mean(mark[k]) = Known(st, k)[1]
  BY MeaningFacts
<1>3. ASSUME NEW c \in T PROVE c \in X /\ F[c] = <<c>> /\ F[c] \in Seq(W)
  <2>1. c \in X
    BY DEF Inked
  <2>2. c \in W
    OBVIOUS
  <2> HIDE DEF X, F, Mean, W
  <2>3. F[c] = <<c>>
    BY <1>1, <1>2, <2>1
  <2>4. <<c>> \in Seq(W)
    BY <2>2, OneSeq
  <2>5. QED
    BY <2>1, <2>3, <2>4
<1>4. ASSUME NEW key \in K, NEW v \in Seq(V), Known(st, key) = <<v>>
      PROVE  mark[key] \in X /\ F[mark[key]] = v /\ v \in Seq(W)
  <2>1. Known(st, key) # <<>> /\ Known(st, key)[1] = v
    BY <1>4
  <2>2. mark[key] \in X
    BY <2>1 DEF Inked
  <2>3. v \in Seq(W)
    OBVIOUS
  <2> HIDE DEF X, F, Mean, W
  <2>4. F[mark[key]] = v
    BY <1>1, <1>2, <2>1, <2>2
  <2>5. QED
    BY <2>2, <2>3, <2>4
<1>5. ASSUME NEW c \in X PROVE F[c] \in Seq(W)
  <2>1. CASE c \in T
    BY <1>3, <2>1
  <2>2. CASE c \notin T
    <3>1. PICK k \in K : c = mark[k] /\ Known(st, k) # <<>>
      BY <2>2 DEF Inked
    <3>2. KnownSo(st, Marked(st, mark), mark, K, V, k)
      BY KnownFacts
    <3>3. PICK v \in Seq(V) : Known(st, k) = <<v>>
      BY <3>1, <3>2, Zenon DEF KnownSo
    <3>4. F[mark[k]] = v /\ v \in Seq(W)
      BY <1>4, <3>3
    <3>5. QED
      BY <3>1, <3>4
  <2>3. QED
    BY <2>1, <2>2
<1>6. F \in [X -> Seq(W)]
  <2> HIDE DEF X, W, Mean, F
  <2>1. QED
    BY <1>1, <1>5
<1>7. ASSUME NEW text \in Seq(X) PROVE Unmarked(text, st, mark) = Spread(F, text)
  <2>1. Unmarked(text, st, mark) = FlattenSeq([i \in DOMAIN text |-> Mean(text[i])])
    BY Zenon DEF Unmarked, Meaning
  <2>2. [i \in DOMAIN text |-> Mean(text[i])] = [i \in DOMAIN text |-> F[text[i]]]
    <3>1. \A i \in DOMAIN text : text[i] \in X
      OBVIOUS
    <3> HIDE DEF X, F, Mean
    <3>2. \A i \in DOMAIN text : F[text[i]] = Mean(text[i])
      BY <1>1, <3>1
    <3>3. QED
      BY <3>2, Zenon
  <2>3. QED
    BY <2>1, <2>2, Zenon DEF Spread
<1> HIDE DEF X, F, W
<1>8. QED
  BY <1>3, <1>4, <1>6, <1>7, Zenon DEF MeaningsSo, X, F, W

\* Every value is a text.
Knows(st, W) == \A key : Known(st, key) = <<>> \/ \E v \in Seq(W) : Known(st, key) = <<v>>
Seen(W) == [out : Seq(W), open : Seq(W)]

\* One token of a template keeps what was read and what is open texts.
LEMMA NextTokenType ==
  ASSUME NEW W, Specials \subseteq W, NEW st, Knows(st, W), NEW shell \in BOOLEAN,
         NEW seen \in Seen(W), NEW c \in W
  PROVE  NextToken(seen, c, st, shell) \in Seen(W)
<1> DEFINE A == Seq(W)
           value == Known(st, Tail(seen.open))
           put == IF value = <<>> THEN Append(seen.open, c)
                  ELSE IF shell THEN ShellQuoted(value[1]) ELSE value[1]
<1>1. seen.out \in A /\ seen.open \in A /\ seen \in [out : A, open : A]
  BY DEF Seen
<1>2. \A a \in A : Append(a, c) \in A
  OBVIOUS
<1>3. <<c>> \in A /\ <<>> \in A
  BY OneSeq, NoneIsASeq
<1>4. put \in A
  <2>1. CASE value = <<>>
    BY <1>1, <1>2, <2>1
  <2>2. CASE value # <<>>
    <3>1. PICK v \in Seq(W) : value = <<v>>
      BY <2>2, Zenon DEF Knows
    <3>2. value[1] \in A
      BY <3>1
    <3>3. ShellQuoted(value[1]) \in A
      <4> DEFINE u == value[1]
      <4>1. u \in Seq(W)
        BY <3>2
      <4> HIDE DEF u
      <4>2. {Quote, "\\"} \subseteq W
        BY SpecialsIn
      <4>3. ShellQuoted(u) \in Seq(W)
        BY <4>1, <4>2, QuotedType
      <4>4. QED
        BY <4>3 DEF u
    <3> HIDE DEF value, A
    <3>4. QED
      BY <2>2, <3>2, <3>3
  <2>3. QED
    BY <2>1, <2>2
<1>5. \A a, b \in A : a \o b \in A
  OBVIOUS
<1>6. NextToken(seen, c, st, shell)
        = IF seen.open = <<>>
          THEN IF c = "{" THEN [seen EXCEPT !.open = <<c>>] ELSE [seen EXCEPT !.out = Append(@, c)]
          ELSE IF c # "}" THEN [seen EXCEPT !.open = Append(@, c)]
          ELSE [out |-> seen.out \o put, open |-> <<>>]
  BY Zenon DEF NextToken
<1> HIDE DEF put
<1>7. seen.out \o put \in A /\ Append(seen.out, c) \in A /\ Append(seen.open, c) \in A
  BY <1>1, <1>2, <1>4, <1>5
<1> HIDE DEF A
<1>8. /\ [seen EXCEPT !.open = <<c>>] \in [out : A, open : A]
      /\ [seen EXCEPT !.out = Append(@, c)] \in [out : A, open : A]
      /\ [seen EXCEPT !.open = Append(@, c)] \in [out : A, open : A]
      /\ [out |-> seen.out \o put, open |-> <<>>] \in [out : A, open : A]
  BY <1>1, <1>3, <1>7
<1>9. NextToken(seen, c, st, shell) \in [out : A, open : A]
  BY <1>6, <1>8, Zenon
<1>10. QED
  BY <1>9 DEF Seen, A

RenderingSo(t, st, shell, W) ==
  LET seen == Rendering(t, st, shell)
  IN  /\ \A k \in 0..Len(t) : seen[k] \in Seen(W)
      /\ seen[0] = [out |-> <<>>, open |-> <<>>]
      /\ \A k \in 1..Len(t) : seen[k] = NextToken(seen[k - 1], t[k], st, shell)

\* The function of what is rendered exists and goes token by token.
LEMMA RenderingFacts ==
  ASSUME NEW W, Specials \subseteq W, NEW st, Knows(st, W), NEW shell \in BOOLEAN,
         NEW t \in Seq(W)
  PROVE  RenderingSo(t, st, shell, W)
<1> DEFINE n == Len(t)
           A == Seen(W)
           r == [out |-> <<>>, open |-> <<>>]
           On(a, c) == NextToken(a, c, st, shell)
           moves == [k \in 1..n |-> [a \in A |-> On(a, t[k])]]
           Is(h) == h = [k \in 0..n |-> IF k = 0 THEN r ELSE On(h[k - 1], t[k])]
<1>1. n \in Nat /\ r \in A
  <2>1. <<>> \in Seq(W)
    BY NoneIsASeq
  <2>2. QED
    BY <2>1 DEF Seen
<1>2. \A a \in A, c \in W : On(a, c) \in A
  BY NextTokenType
<1> HIDE DEF On
<1>3. \A k \in 1..n : t[k] \in W
  OBVIOUS
<1> HIDE DEF n, A, r
<1>4. moves \in [1..n -> [A -> A]]
  BY <1>2, <1>3
<1>5. PICK g : Follows(g, A, r, n, moves)
  <2> HIDE DEF moves
  <2>1. QED
    BY <1>1, <1>4, RecursionExists
<1>6. g \in [0..n -> A] /\ g[0] = r /\ \A k \in 1..n : g[k] = moves[k][g[k - 1]]
  <2> HIDE DEF moves
  <2>1. QED
    BY <1>5 DEF Follows
<1>7. \A k \in 1..n : g[k] = On(g[k - 1], t[k])
  <2> TAKE k \in 1..n
  <2>1. g[k - 1] \in A
    BY <1>1, <1>6
  <2>2. QED
    BY <1>6, <2>1
<1>8. Is(g)
  <2> HIDE DEF moves
  <2>1. g = [k \in 0..n |-> g[k]]
    BY <1>6
  <2>2. \A k \in 0..n : g[k] = IF k = 0 THEN r ELSE On(g[k - 1], t[k])
    BY <1>1, <1>6, <1>7
  <2>3. QED
    BY <2>1, <2>2
<1> DEFINE h == Rendering(t, st, shell)
<1>9. h = CHOOSE x : Is(x)
  BY DEF Rendering, On, n, r
<1>10. Is(h)
  <2> HIDE DEF Is, h
  <2>1. QED
    BY <1>8, <1>9, Zenon
<1> HIDE DEF moves, h
<1>11. h[0] = r /\ \A k \in 1..n : h[k] = On(h[k - 1], t[k])
  BY <1>1, <1>10
<1>12. \A k \in 0..n : h[k] \in A
  <2> DEFINE Good == {k \in 0..n : h[k] \in A}
  <2>1. 0 \in Good
    BY <1>1, <1>11
  <2>2. ASSUME NEW k \in 1..n, k - 1 \in Good PROVE k \in Good
    <3>1. h[k - 1] \in A /\ t[k] \in W /\ k \in 0..n
      BY <1>1, <1>3, <2>2
    <3>2. On(h[k - 1], t[k]) \in A
      BY <1>2, <3>1
    <3>3. QED
      BY <1>11, <3>1, <3>2
  <2> HIDE DEF Good
  <2>3. \A k \in 0..n : k \in Good
    BY <1>1, <2>1, <2>2, Climb
  <2>4. QED
    BY <2>3 DEF Good
<1>13. QED
  BY <1>11, <1>12, Zenon DEF RenderingSo, h, n, A, r, On

\* What is put in for a placeholder, and for the same of a marked state: a mark,
\* which stands for the value.
Fills(F, X, W, T, st, other) ==
  /\ F \in [X -> Seq(W)] /\ T \subseteq X /\ \A d \in T : F[d] = <<d>>
  /\ \A key : \/ Known(st, key) = <<>> /\ Known(other, key) = <<>>
              \/ \E d \in X : Known(st, key) = <<F[d]>> /\ Known(other, key) = <<<<d>>>>

\* Filling in the meanings of marks gives what the state itself knows.
LEMMA FillsFacts ==
  ASSUME NEW V, NEW D, NEW M, NEW N, NEW st \in StatesOf(V, D, M, N),
         NEW mark, NEW K, NEW Q, NEW T, MarksFit(mark, K, Q, T, D)
  PROVE  Fills(Meanings(T, K, st, mark), Inked(T, K, st, mark), T \cup V, T, st, Marked(st, mark))
<1> DEFINE X == Inked(T, K, st, mark)
           F == Meanings(T, K, st, mark)
           W == T \cup V
           other == Marked(st, mark)
<1>1. /\ F \in [X -> Seq(W)] /\ \A d \in T : d \in X /\ F[d] = <<d>>
      /\ \A k \in K, v \in Seq(V) : Known(st, k) = <<v>> => mark[k] \in X /\ F[mark[k]] = v
  <2>1. MeaningsSo(T, V, K, st, mark)
    BY MeaningsFacts
  <2>2. QED
    BY <2>1, Zenon DEF MeaningsSo
<1>2. \A key : KnownSo(st, other, mark, K, V, key)
  BY KnownFacts
<1> HIDE DEF X, F, W, other
<1>3. ASSUME NEW key
      PROVE  \/ Known(st, key) = <<>> /\ Known(other, key) = <<>>
             \/ \E d \in X : Known(st, key) = <<F[d]>> /\ Known(other, key) = <<<<d>>>>
  <2>1. CASE Known(st, key) = <<>> /\ Known(other, key) = <<>>
    BY <2>1
  <2>2. CASE key \in K /\ \E v \in Seq(V) : Known(st, key) = <<v>> /\ Known(other, key) = <<<<mark[key]>>>>
    <3>1. PICK v \in Seq(V) : Known(st, key) = <<v>> /\ Known(other, key) = <<<<mark[key]>>>>
      BY <2>2
    <3>2. mark[key] \in X /\ F[mark[key]] = v
      BY <1>1, <2>2, <3>1
    <3>3. QED
      BY <3>1, <3>2, Zenon
  <2>3. KnownSo(st, other, mark, K, V, key)
    BY <1>2
  <2>4. QED
    BY <2>1, <2>2, <2>3, Zenon DEF KnownSo
<1>4. T \subseteq X /\ \A d \in T : F[d] = <<d>>
  BY <1>1
<1>5. QED
  BY <1>1, <1>3, <1>4, Zenon DEF Fills, X, F, W, other

\* What spreading does to a text that is put together.
Spreads(F, X, W, T) ==
  /\ <<>> \in Seq(X) /\ Spread(F, <<>>) = <<>>
  /\ \A a \in Seq(X) : Spread(F, a) \in Seq(W)
  /\ \A a, b \in Seq(X) : a \o b \in Seq(X) /\ Spread(F, a \o b) = Spread(F, a) \o Spread(F, b)
  /\ \A d \in X : <<d>> \in Seq(X) /\ Spread(F, <<d>>) = F[d]
  /\ \A a \in Seq(T) : a \in Seq(X) /\ Spread(F, a) = a
  /\ \A a \in Seq(X), d \in T :
       Append(a, d) \in Seq(X) /\ Spread(F, Append(a, d)) = Append(Spread(F, a), d)

\* Spreading goes through a text that is put together.
LEMMA SpreadsFacts ==
  ASSUME NEW X, NEW W, NEW F \in [X -> Seq(W)], NEW T \in SUBSET X,
         \A d \in T : F[d] = <<d>>
  PROVE  Spreads(F, X, W, T)
<1>1. <<>> \in Seq(X)
  BY NoneIsASeq
<1>2. \A a \in Seq(X) : Spread(F, a) \in Seq(W)
  BY SpreadFacts
<1>3. \A a, b \in Seq(X) : a \o b \in Seq(X) /\ Spread(F, a \o b) = Spread(F, a) \o Spread(F, b)
  <2> TAKE a \in Seq(X), b \in Seq(X)
  <2>1. a \o b \in Seq(X)
    OBVIOUS
  <2>2. QED
    BY <2>1, SpreadJoin
<1>4. \A d \in X : <<d>> \in Seq(X) /\ Spread(F, <<d>>) = F[d] /\ Spread(F, <<>>) = <<>>
  BY SpreadOne, OneSeq
<1>5. \A a \in Seq(T) : a \in Seq(X) /\ Spread(F, a) = a
  <2> TAKE a \in Seq(T)
  <2>1. a \in Seq(X)
    OBVIOUS
  <2>2. QED
    BY <2>1, SpreadSame
<1>6. Spread(F, <<>>) = <<>>
  <2>1. <<>> \in Seq(T)
    BY NoneIsASeq
  <2>2. QED
    BY <1>5, <2>1, Zenon
<1>7. ASSUME NEW a \in Seq(X), NEW d \in T
      PROVE  Append(a, d) \in Seq(X) /\ Spread(F, Append(a, d)) = Append(Spread(F, a), d)
  <2> DEFINE s == Spread(F, a)
             one == <<d>>
  <2>1. d \in X /\ one \in Seq(X) /\ Spread(F, one) = one
    BY <1>4
  <2>2. s \in Seq(W)
    BY <1>2
  <2>3. one \in Seq(W)
    BY <1>2, <2>1
  <2>4. d \in W
    BY <2>3
  <2> HIDE DEF s
  <2>5. Append(a, d) = a \o one /\ Append(s, d) = s \o one
    BY <2>1, <2>2, <2>4, AppendIsConcat
  <2> HIDE DEF one
  <2>6. a \o one \in Seq(X) /\ Spread(F, a \o one) = s \o one
    BY <1>3, <2>1 DEF s
  <2>7. QED
    BY <2>5, <2>6 DEF s
<1>8. QED
  BY <1>1, <1>2, <1>3, <1>4, <1>5, <1>6, <1>7, Zenon DEF Spreads

\* A template and its marked rendering never part, token after token: what is
\* open is the template's own, and what is out is the marked text spread out.
Apace(p, q, F, T, X) ==
  /\ q.open \in Seq(T) /\ p.open = q.open
  /\ q.out \in Seq(X) /\ p.out = Spread(F, q.out)

\* Two scans with the same text open, the one with its marks filled in.
LEMMA ApaceMade ==
  ASSUME NEW F, NEW T, NEW X, NEW open \in Seq(T), NEW out \in Seq(X)
  PROVE  Apace([out |-> Spread(F, out), open |-> open], [out |-> out, open |-> open], F, T, X)
BY DEF Apace

\* A token keeps the scans side by side, whatever it opens or closes.
LEMMA ApaceNext ==
  ASSUME NEW F, NEW X, NEW W, NEW T, NEW st, NEW other, Fills(F, X, W, T, st, other),
         NEW A, NEW p \in Seen(A), NEW B, NEW q \in Seen(B), NEW c \in T,
         Apace(p, q, F, T, X)
  PROVE  Apace(NextToken(p, c, st, FALSE), NextToken(q, c, other, FALSE), F, T, X)
<1> DEFINE key == Tail(q.open)
           open == q.open
           out == q.out
           S(a) == Spread(F, a)
           One(a) == <<a>>
<1>1. /\ <<>> \in Seq(X) /\ \A a \in Seq(X) : S(a) \in Seq(W)
      /\ \A a, b \in Seq(X) : a \o b \in Seq(X) /\ S(a \o b) = S(a) \o S(b)
      /\ \A d \in X : One(d) \in Seq(X) /\ S(One(d)) = F[d]
      /\ \A a \in Seq(T) : a \in Seq(X) /\ S(a) = a
      /\ \A a \in Seq(X), d \in T : Append(a, d) \in Seq(X) /\ S(Append(a, d)) = Append(S(a), d)
  <2>1. F \in [X -> Seq(W)] /\ T \in SUBSET X /\ \A d \in T : F[d] = <<d>>
    BY DEF Fills
  <2>2. Spreads(F, X, W, T)
    BY <2>1, SpreadsFacts
  <2>3. QED
    BY <2>2, Zenon DEF Spreads
<1>2. open \in Seq(T) /\ out \in Seq(X) /\ p.open = open /\ p.out = S(out)
  BY DEF Apace
<1>3. p = [out |-> S(out), open |-> open] /\ q = [out |-> out, open |-> open]
  BY <1>2 DEF Seen
<1>4. Append(open, c) \in Seq(T) /\ <<>> \in Seq(T) /\ One(c) \in Seq(T)
  <2>1. Append(open, c) \in Seq(T)
    BY <1>2
  <2>2. QED
    BY <2>1, NoneIsASeq, OneSeq
<1> HIDE DEF open, out, S, One
<1>5. SUFFICES
        Apace(NextToken([out |-> S(out), open |-> open], c, st, FALSE),
              NextToken([out |-> out, open |-> open], c, other, FALSE), F, T, X)
  BY <1>3
<1>6. \A a \in Seq(T), b \in Seq(X) : Apace([out |-> S(b), open |-> a], [out |-> b, open |-> a], F, T, X)
  BY ApaceMade DEF S
<1>7. CASE open = <<>> /\ c = "{"
  <2>1. \A o : NextToken([out |-> o, open |-> open], c, st, FALSE) = [out |-> o, open |-> One(c)]
    BY <1>7 DEF NextToken, One
  <2>2. \A o : NextToken([out |-> o, open |-> open], c, other, FALSE) = [out |-> o, open |-> One(c)]
    BY <1>7 DEF NextToken, One
  <2>3. QED
    BY <1>2, <1>4, <1>6, <2>1, <2>2, Zenon
<1>8. CASE open = <<>> /\ c # "{"
  <2>1. \A o : NextToken([out |-> o, open |-> open], c, st, FALSE) = [out |-> Append(o, c), open |-> open]
    BY <1>8 DEF NextToken
  <2>2. \A o : NextToken([out |-> o, open |-> open], c, other, FALSE) = [out |-> Append(o, c), open |-> open]
    BY <1>8 DEF NextToken
  <2>3. Append(out, c) \in Seq(X) /\ S(Append(out, c)) = Append(S(out), c)
    BY <1>1, <1>2, Zenon
  <2>4. Apace([out |-> S(Append(out, c)), open |-> open], [out |-> Append(out, c), open |-> open], F, T, X)
    BY <1>2, <1>6, <2>3, Zenon
  <2>5. QED
    BY <2>1, <2>2, <2>3, <2>4, Zenon
<1>9. CASE open # <<>> /\ c # "}"
  <2>1. \A o : NextToken([out |-> o, open |-> open], c, st, FALSE) = [out |-> o, open |-> Append(open, c)]
    BY <1>9 DEF NextToken
  <2>2. \A o : NextToken([out |-> o, open |-> open], c, other, FALSE) = [out |-> o, open |-> Append(open, c)]
    BY <1>9 DEF NextToken
  <2>3. QED
    BY <1>2, <1>4, <1>6, <2>1, <2>2, Zenon
<1>10. CASE open # <<>> /\ c = "}"
  <2> DEFINE more == Append(open, c)
             keyed == Tail(open)
  <2>1. CASE Known(st, keyed) = <<>> /\ Known(other, keyed) = <<>>
    <3>1. \A o : NextToken([out |-> o, open |-> open], c, st, FALSE) = [out |-> o \o more, open |-> <<>>]
      BY <1>10, <2>1 DEF NextToken
    <3>2. \A o : NextToken([out |-> o, open |-> open], c, other, FALSE) = [out |-> o \o more, open |-> <<>>]
      BY <1>10, <2>1 DEF NextToken
    <3>3. more \in Seq(X) /\ S(more) = more
      BY <1>1, <1>4, Zenon
    <3> HIDE DEF more
    <3>4. out \o more \in Seq(X) /\ S(out \o more) = S(out) \o more
      <4>1. out \o more \in Seq(X) /\ S(out \o more) = S(out) \o S(more)
        BY <1>1, <1>2, <3>3, Zenon
      <4>2. QED
        BY <3>3, <4>1
    <3>5. Apace([out |-> S(out \o more), open |-> <<>>], [out |-> out \o more, open |-> <<>>], F, T, X)
      BY <1>4, <1>6, <3>4, Zenon
    <3>6. QED
      BY <3>1, <3>2, <3>4, <3>5, Zenon
  <2>2. CASE \E d \in X : Known(st, keyed) = <<F[d]>> /\ Known(other, keyed) = <<<<d>>>>
    <3>1. PICK d \in X : Known(st, keyed) = <<F[d]>> /\ Known(other, keyed) = <<One(d)>>
      BY <2>2, Zenon DEF One
    <3> DEFINE v == F[d]
               ink == One(d)
    <3>2. ink \in Seq(X) /\ S(ink) = v
      BY <1>1, Zenon
    <3>3. /\ Known(st, keyed) # <<>> /\ Known(st, keyed)[1] = v
          /\ Known(other, keyed) # <<>> /\ Known(other, keyed)[1] = ink
      BY <3>1
    <3> HIDE DEF v, ink
    <3>4. \A o : NextToken([out |-> o, open |-> open], c, st, FALSE) = [out |-> o \o v, open |-> <<>>]
      BY <1>10, <3>3 DEF NextToken
    <3>5. \A o : NextToken([out |-> o, open |-> open], c, other, FALSE) = [out |-> o \o ink, open |-> <<>>]
      BY <1>10, <3>3 DEF NextToken
    <3>6. out \o ink \in Seq(X) /\ S(out \o ink) = S(out) \o v
      BY <1>1, <1>2, <3>2
    <3>7. Apace([out |-> S(out \o ink), open |-> <<>>], [out |-> out \o ink, open |-> <<>>], F, T, X)
      BY <1>4, <1>6, <3>6, Zenon
    <3>8. QED
      BY <3>4, <3>5, <3>6, <3>7, Zenon
  <2>3. \/ Known(st, keyed) = <<>> /\ Known(other, keyed) = <<>>
        \/ \E d \in X : Known(st, keyed) = <<F[d]>> /\ Known(other, keyed) = <<<<d>>>>
    BY Zenon DEF Fills
  <2>4. QED
    BY <2>1, <2>2, <2>3
<1>11. QED
  BY <1>7, <1>8, <1>9, <1>10

\* The alphabet of a template, its values and its marks is one that can be quoted.
LEMMA KnowsFacts ==
  ASSUME NEW F, NEW X, NEW W, NEW T, NEW st, NEW other, Fills(F, X, W, T, st, other),
         NEW A, W \subseteq A, NEW B, X \subseteq B
  PROVE  Knows(st, A) /\ Knows(other, B)
<1>1. \A key : \/ Known(st, key) = <<>> /\ Known(other, key) = <<>>
               \/ \E d \in X : Known(st, key) = <<F[d]>> /\ Known(other, key) = <<<<d>>>>
  BY Zenon DEF Fills
<1>2. \A d \in X : F[d] \in Seq(W)
  BY DEF Fills
<1>3. ASSUME NEW d \in X PROVE F[d] \in Seq(A) /\ <<d>> \in Seq(B)
  <2>1. F[d] \in Seq(A)
    BY <1>2
  <2>2. d \in B
    OBVIOUS
  <2>3. QED
    BY <2>1, <2>2, OneSeq
<1>4. QED
  BY <1>1, <1>3, Zenon DEF Knows

\* A value that is put into a text is not read again, and nothing but the
\* placeholders of known values is touched (render_with), whatever the template,
\* the values and the variables are.
THEOREM TemplatesFillOnce ==
  ASSUME NEW T, NEW t \in Seq(T), NEW V, NEW D, NEW M, NEW N, NEW st \in StatesOf(V, D, M, N),
         NEW mark, NEW K, NEW Q, MarksFit(mark, K, Q, T, D)
  PROVE  FilledOnce(t, st, mark)
<1> DEFINE X == Inked(T, K, st, mark)
           F == Meanings(T, K, st, mark)
           W == T \cup V
           other == Marked(st, mark)
           A == W \cup Specials
           B == X \cup Specials
           n == Len(t)
           f == Rendering(t, st, FALSE)
           g == Rendering(t, other, FALSE)
<1>1. Fills(F, X, W, T, st, other)
  BY FillsFacts
<1>2. \A text \in Seq(X) : Unmarked(text, st, mark) = Spread(F, text)
  <2>1. MeaningsSo(T, V, K, st, mark)
    BY MeaningsFacts
  <2>2. QED
    BY <2>1, Zenon DEF MeaningsSo
<1> HIDE DEF X, F, other
<1>3. F \in [X -> Seq(W)] /\ T \in SUBSET X /\ \A d \in T : F[d] = <<d>>
  BY <1>1 DEF Fills
<1>4. Knows(st, A) /\ Knows(other, B)
  <2>1. W \subseteq A /\ X \subseteq B
    OBVIOUS
  <2> HIDE DEF A, B, W
  <2>2. QED
    BY <1>1, <2>1, KnowsFacts
<1>5. t \in Seq(A) /\ t \in Seq(B) /\ Specials \subseteq A /\ Specials \subseteq B
  <2>1. T \subseteq A /\ T \subseteq B
    BY <1>3
  <2>2. QED
    BY <2>1
<1> HIDE DEF A, B, W
<1>6. /\ \A k \in 0..n : f[k] \in Seen(A)
      /\ f[0] = [out |-> <<>>, open |-> <<>>]
      /\ \A k \in 1..n : f[k] = NextToken(f[k - 1], t[k], st, FALSE)
  <2>1. RenderingSo(t, st, FALSE, A)
    BY <1>4, <1>5, RenderingFacts
  <2>2. QED
    BY <2>1, Zenon DEF RenderingSo
<1>7. /\ \A k \in 0..n : g[k] \in Seen(B)
      /\ g[0] = [out |-> <<>>, open |-> <<>>]
      /\ \A k \in 1..n : g[k] = NextToken(g[k - 1], t[k], other, FALSE)
  <2>1. RenderingSo(t, other, FALSE, B)
    BY <1>4, <1>5, RenderingFacts
  <2>2. QED
    BY <2>1, Zenon DEF RenderingSo
<1>8. n \in Nat /\ \A k \in 1..n : t[k] \in T
  OBVIOUS
<1> HIDE DEF n, f, g
<1>9. Spreads(F, X, W, T)
  BY <1>3, SpreadsFacts
<1> DEFINE Good == {k \in 0..n : Apace(f[k], g[k], F, T, X)}
<1>10. \A k \in 0..n : k \in Good
  <2>1. 0 \in Good
    <3>1. <<>> \in Seq(X) /\ Spread(F, <<>>) = <<>>
      BY <1>9, Zenon DEF Spreads
    <3>2. <<>> \in Seq(T)
      BY NoneIsASeq
    <3>3. Apace([out |-> Spread(F, <<>>), open |-> <<>>], [out |-> <<>>, open |-> <<>>], F, T, X)
      BY <3>1, <3>2, ApaceMade
    <3>4. Apace(f[0], g[0], F, T, X)
      BY <1>6, <1>7, <3>1, <3>3, Zenon
    <3>5. QED
      BY <1>8, <3>4
  <2>2. ASSUME NEW k \in 1..n, k - 1 \in Good PROVE k \in Good
    <3>1. Apace(f[k - 1], g[k - 1], F, T, X) /\ k - 1 \in 0..n /\ k \in 0..n /\ t[k] \in T
      BY <1>8, <2>2
    <3>2. f[k - 1] \in Seen(A) /\ g[k - 1] \in Seen(B)
      BY <1>6, <1>7, <3>1
    <3>3. Apace(NextToken(f[k - 1], t[k], st, FALSE), NextToken(g[k - 1], t[k], other, FALSE), F, T, X)
      BY <1>1, <3>1, <3>2, ApaceNext
    <3>4. Apace(f[k], g[k], F, T, X)
      BY <1>6, <1>7, <3>3, Zenon
    <3>5. QED
      BY <3>1, <3>4
  <2> HIDE DEF Good
  <2>3. QED
    BY <1>8, <2>1, <2>2, Climb
<1>11. /\ g[n].open \in Seq(T) /\ f[n].open = g[n].open
       /\ g[n].out \in Seq(X) /\ f[n].out = Spread(F, g[n].out)
  <2>1. n \in Good
    BY <1>8, <1>10
  <2>2. QED
    BY <2>1 DEF Apace
<1> DEFINE out == g[n].out
           open == g[n].open
<1>12. /\ Render(t, st, FALSE) = Spread(F, out) \o open
       /\ Render(t, other, FALSE) = out \o open
  <2>1. Render(t, st, FALSE) = f[n].out \o f[n].open
    BY DEF Render, f, n
  <2>2. Render(t, other, FALSE) = g[n].out \o g[n].open
    BY DEF Render, g, n
  <2>3. QED
    BY <1>11, <2>1, <2>2
<1>13. out \in Seq(X) /\ open \in Seq(T)
  BY <1>11
<1> HIDE DEF out, open
<1>14. open \in Seq(X) /\ Spread(F, open) = open
  BY <1>9, <1>13, Zenon DEF Spreads
<1>15. out \o open \in Seq(X) /\ Spread(F, out \o open) = Spread(F, out) \o Spread(F, open)
  BY <1>9, <1>13, <1>14, Zenon DEF Spreads
<1>16. QED
  BY <1>2, <1>12, <1>14, <1>15, Zenon DEF FilledOnce, other

-----------------------------------------------------------------------------
(* Reading a rendered command line.                                        *)
SpreadWords(F, words) == [i \in DOMAIN words |-> Spread(F, words[i])]

\* Texts over some tokens are texts over more.
LEMMA SeqGrows ==
  ASSUME NEW A, NEW B, A \subseteq B
  PROVE  /\ \A a \in Seq(A) : a \in Seq(B)
         /\ \A a \in Seq(Seq(A)) : a \in Seq(Seq(B))
<1>1. \A a \in Seq(A) : a \in Seq(B)
  OBVIOUS
<1> DEFINE C == Seq(A)
           E == Seq(B)
<1>2. C \subseteq E
  BY <1>1
<1> HIDE DEF C, E
<1>3. \A a \in Seq(C) : a \in Seq(E)
  BY <1>2
<1>4. QED
  BY <1>1, <1>3 DEF C, E

\* Spreading a list of words, word by word.
LEMMA SpreadWordsFacts ==
  ASSUME NEW X, NEW W, NEW F \in [X -> Seq(W)]
  PROVE  /\ SpreadWords(F, <<>>) = <<>>
         /\ \A words \in Seq(Seq(X)) : SpreadWords(F, words) \in Seq(Seq(W))
         /\ \A words \in Seq(Seq(X)), w \in Seq(X) :
              SpreadWords(F, Append(words, w)) = Append(SpreadWords(F, words), Spread(F, w))
<1> DEFINE A == Seq(X)
           B == Seq(W)
           S(a) == Spread(F, a)
<1>1. \A a \in A : S(a) \in B
  BY SpreadFacts
<1>2. SpreadWords(F, <<>>) = <<>>
  BY DEF SpreadWords
<1> HIDE DEF A, B, S
<1>3. ASSUME NEW words \in Seq(A)
      PROVE  /\ SpreadWords(F, words) \in Seq(B) /\ Len(SpreadWords(F, words)) = Len(words)
             /\ \A i \in 1..Len(words) : SpreadWords(F, words)[i] = S(words[i])
  <2>1. SpreadWords(F, words) = [i \in 1..Len(words) |-> S(words[i])]
    BY DEF SpreadWords, S
  <2>2. \A i \in 1..Len(words) : S(words[i]) \in B
    BY <1>1
  <2>3. Len(words) \in Nat
    OBVIOUS
  <2> DEFINE n == Len(words)
  <2> HIDE DEF n
  <2>4. SpreadWords(F, words) \in [1..n -> B]
    BY <2>1, <2>2 DEF n
  <2>5. SpreadWords(F, words) \in Seq(B) /\ Len(SpreadWords(F, words)) = n
    BY <2>3, <2>4 DEF n
  <2>6. QED
    BY <2>1, <2>5 DEF n
<1>4. ASSUME NEW words \in Seq(A), NEW w \in A
      PROVE  SpreadWords(F, Append(words, w)) = Append(SpreadWords(F, words), S(w))
  <2> DEFINE more == Append(words, w)
             n == Len(words)
             p == SpreadWords(F, more)
             q == SpreadWords(F, words)
  <2>1. /\ more \in Seq(A) /\ Len(more) = n + 1 /\ n \in Nat
        /\ \A i \in 1..n : more[i] = words[i]
        /\ more[n + 1] = w
    BY AppendProperties
  <2>2. p \in Seq(B) /\ Len(p) = Len(more) /\ \A i \in 1..Len(more) : p[i] = S(more[i])
    <3> HIDE DEF more
    <3>1. QED
      BY <1>3, <2>1
  <2>3. q \in Seq(B) /\ Len(q) = n /\ \A i \in 1..n : q[i] = S(words[i])
    BY <1>3
  <2>4. S(w) \in B
    BY <1>1
  <2> DEFINE r == Append(q, S(w))
  <2> HIDE DEF more, n, p, q
  <2>5. r \in Seq(B) /\ Len(r) = n + 1 /\ (\A i \in 1..n : r[i] = q[i]) /\ r[n + 1] = S(w)
    BY <2>3, <2>4, AppendProperties
  <2> HIDE DEF r
  <2>6. \A i \in 1..Len(p) : p[i] = r[i]
    <3> TAKE i \in 1..Len(p)
    <3>1. CASE i = n + 1
      BY <2>1, <2>2, <2>5, <3>1
    <3>2. CASE i # n + 1
      <4>1. i \in 1..n /\ i \in 1..Len(more)
        BY <2>1, <2>2, <3>2
      <4>2. QED
        BY <2>1, <2>2, <2>3, <2>5, <4>1
    <3>3. QED
      BY <3>1, <3>2
  <2>7. p = r
    BY <2>1, <2>2, <2>5, <2>6, SeqEqual
  <2>8. QED
    BY <2>7 DEF p, q, r, more
<1>5. QED
  BY <1>2, <1>3, <1>4, Zenon DEF A, B, S

\* sh has read the same words, but for what the marks stand for.
Alike(p, q, F, X) ==
  \E words \in Seq(Seq(X)), word \in Seq(X), open \in BOOLEAN :
    /\ p = Read(SpreadWords(F, words), Spread(F, word), open, "plain")
    /\ q = Read(words, word, open, "plain")

\* Reading a token of the template itself.
LEMMA AlikeOn ==
  ASSUME NEW X, NEW W, NEW F \in [X -> Seq(W)], NEW T \in SUBSET X, \A d \in T : F[d] = <<d>>,
         NEW p, NEW q, Alike(p, q, F, X), NEW c \in T, c # Quote, c # "\\"
  PROVE  /\ Alike(ReadOn(p, c), ReadOn(q, c), F, X)
         /\ p \in Readers(W) /\ q \in Readers(X)
<1> DEFINE S(a) == Spread(F, a)
           SW(ws) == SpreadWords(F, ws)
           A == Seq(X)
<1>1. /\ \A ws \in Seq(A) : SW(ws) \in Seq(Seq(W))
      /\ \A ws \in Seq(A), w \in A : SW(Append(ws, w)) = Append(SW(ws), S(w))
  BY SpreadWordsFacts, ZenonT(60)
<1>2. /\ <<>> \in A /\ S(<<>>) = <<>> /\ \A a \in A : S(a) \in Seq(W)
      /\ \A a \in A : Append(a, c) \in A /\ S(Append(a, c)) = Append(S(a), c)
  <2>1. Spreads(F, X, W, T)
    BY SpreadsFacts
  <2>2. QED
    BY <2>1, Zenon DEF Spreads
<1>3. PICK words \in Seq(A), word \in A, open \in BOOLEAN :
        /\ p = Read(SW(words), S(word), open, "plain")
        /\ q = Read(words, word, open, "plain")
  BY Zenon DEF Alike
<1>4. c \in X /\ c \in W
  <2>1. F[c] = <<c>> /\ F[c] \in Seq(W) /\ c \in X
    OBVIOUS
  <2>2. QED
    BY <2>1
<1>5. \A ws \in Seq(A), w \in A, o \in BOOLEAN :
        Alike(Read(SW(ws), S(w), o, "plain"), Read(ws, w, o, "plain"), F, X)
  BY Zenon DEF Alike
<1> HIDE DEF S, SW
<1>6. SW(words) \in Seq(Seq(W)) /\ S(word) \in Seq(W)
  BY <1>1, <1>2, <1>3
<1>7. ReadsSo(W, SW(words), S(word), open, c) /\ ReadsSo(X, words, word, open, c)
  BY <1>3, <1>4, <1>6, ReadFacts
<1>8. p \in Readers(W) /\ q \in Readers(X)
  BY <1>3, <1>7, Zenon DEF ReadsSo
<1>9. CASE c # " "
  <2>1. /\ ReadOn(p, c) = Read(SW(words), Append(S(word), c), TRUE, "plain")
        /\ ReadOn(q, c) = Read(words, Append(word, c), TRUE, "plain")
    BY <1>3, <1>7, <1>9, Zenon DEF ReadsSo
  <2>2. Append(word, c) \in A /\ S(Append(word, c)) = Append(S(word), c)
    BY <1>2, <1>3
  <2>3. Alike(Read(SW(words), S(Append(word, c)), TRUE, "plain"),
              Read(words, Append(word, c), TRUE, "plain"), F, X)
    BY <1>3, <1>5, <2>2, Zenon
  <2>4. QED
    BY <1>8, <2>1, <2>2, <2>3, Zenon
<1>10. CASE c = " " /\ open = TRUE
  <2>1. /\ ReadOn(p, c) = Read(Append(SW(words), S(word)), <<>>, FALSE, "plain")
        /\ ReadOn(q, c) = Read(Append(words, word), <<>>, FALSE, "plain")
    BY <1>3, <1>7, <1>10, Zenon DEF ReadsSo
  <2>2. Append(words, word) \in Seq(A) /\ SW(Append(words, word)) = Append(SW(words), S(word))
    <3> HIDE DEF A
    <3>1. Append(words, word) \in Seq(A)
      BY <1>3
    <3>2. QED
      BY <1>1, <1>3, <3>1
  <2>3. Alike(Read(SW(Append(words, word)), S(<<>>), FALSE, "plain"),
              Read(Append(words, word), <<>>, FALSE, "plain"), F, X)
    BY <1>2, <1>5, <2>2, Zenon
  <2>4. QED
    BY <1>2, <1>8, <2>1, <2>2, <2>3, Zenon
<1>11. CASE c = " " /\ open = FALSE
  <2>1. ReadOn(p, c) = p /\ ReadOn(q, c) = q
    BY <1>3, <1>7, <1>11, Zenon DEF ReadsSo
  <2>2. QED
    BY <1>8, <2>1
<1>12. QED
  BY <1>9, <1>10, <1>11

\* Readers that are alike are readers.
LEMMA AlikeType ==
  ASSUME NEW X, NEW W, NEW F \in [X -> Seq(W)], NEW p, NEW q, Alike(p, q, F, X)
  PROVE  p \in Readers(W) /\ q \in Readers(X)
<1> DEFINE S(a) == Spread(F, a)
           SW(ws) == SpreadWords(F, ws)
<1>1. PICK words \in Seq(Seq(X)), word \in Seq(X), open \in BOOLEAN :
        /\ p = Read(SW(words), S(word), open, "plain")
        /\ q = Read(words, word, open, "plain")
  BY Zenon DEF Alike
<1>2. SW(words) \in Seq(Seq(W)) /\ S(word) \in Seq(W)
  BY <1>1, SpreadWordsFacts, SpreadFacts
<1> HIDE DEF S, SW
<1>3. p \in Readers(W)
  BY <1>1, <1>2 DEF Read, Readers
<1>4. q \in Readers(X)
  BY <1>1 DEF Read, Readers
<1>5. QED
  BY <1>3, <1>4

\* Reading some of the template itself.
LEMMA AlikeReads ==
  ASSUME NEW X, NEW W, NEW F \in [X -> Seq(W)], NEW T \in SUBSET X, \A d \in T : F[d] = <<d>>,
         Quote \notin T, "\\" \notin T,
         NEW p \in Readers(W), NEW q \in Readers(X), Alike(p, q, F, X), NEW line \in Seq(T)
  PROVE  Alike(Reads(p, line), Reads(q, line), F, X)
<1> DEFINE n == Len(line)
           f == Reading(p, line)
           g == Reading(q, line)
<1>1. n \in Nat /\ \A k \in 1..n : line[k] \in T
  OBVIOUS
<1>2. line \in Seq(X) /\ line \in Seq(W)
  <2>1. T \subseteq W
    <3> SUFFICES ASSUME NEW d \in T PROVE d \in W
      OBVIOUS
    <3>1. F[d] = <<d>> /\ F[d] \in Seq(W)
      OBVIOUS
    <3>2. QED
      BY <3>1
  <2>2. QED
    BY <2>1
<1>3. f[0] = p /\ \A k \in 1..n : f[k] = ReadOn(f[k - 1], line[k])
  BY <1>2, ReadingFacts
<1>4. g[0] = q /\ \A k \in 1..n : g[k] = ReadOn(g[k - 1], line[k])
  BY <1>2, ReadingFacts
<1> HIDE DEF f, g, n
<1> DEFINE Good == {k \in 0..n : Alike(f[k], g[k], F, X)}
<1>5. 0 \in Good
  <2>1. Alike(f[0], g[0], F, X)
    BY <1>3, <1>4
  <2>2. QED
    BY <1>1, <2>1
<1>6. ASSUME NEW k \in 1..n, k - 1 \in Good PROVE k \in Good
  <2>1. Alike(f[k - 1], g[k - 1], F, X) /\ k \in 0..n /\ line[k] \in T
    BY <1>1, <1>6
  <2>2. line[k] # Quote /\ line[k] # "\\"
    BY <2>1
  <2>3. Alike(ReadOn(f[k - 1], line[k]), ReadOn(g[k - 1], line[k]), F, X)
    <3> DEFINE a == f[k - 1]
               b == g[k - 1]
               c == line[k]
    <3>1. Alike(a, b, F, X) /\ c \in T /\ c # Quote /\ c # "\\"
      BY <2>1, <2>2
    <3> HIDE DEF a, b, c
    <3>2. Alike(ReadOn(a, c), ReadOn(b, c), F, X)
      BY <3>1, AlikeOn
    <3>3. QED
      BY <3>2 DEF a, b, c
  <2>4. Alike(f[k], g[k], F, X)
    BY <1>3, <1>4, <2>3, Zenon
  <2>5. QED
    BY <2>1, <2>4
<1>7. \A k \in 0..n : k \in Good
  <2> HIDE DEF Good
  <2>1. QED
    BY <1>1, <1>5, <1>6, Climb
<1>8. Alike(f[n], g[n], F, X)
  BY <1>1, <1>7
<1>9. QED
  BY <1>8 DEF Reads, f, g, n

\* Reading a value that is put in, and its mark.
LEMMA AlikeQuoted ==
  ASSUME NEW X, NEW W, NEW F \in [X -> Seq(W)], NEW T \in SUBSET X, \A d \in T : F[d] = <<d>>,
         NEW p, NEW q, Alike(p, q, F, X), NEW d \in X
  PROVE  Alike(Reads(p, ShellQuoted(F[d])), Reads(q, ShellQuoted(<<d>>)), F, X)
<1> DEFINE S(a) == Spread(F, a)
           SW(ws) == SpreadWords(F, ws)
           A == W \cup {Quote, "\\"}
           B == X \cup {Quote, "\\"}
           v == F[d]
           ink == <<d>>
<1>1. \A ws \in Seq(Seq(X)) : SW(ws) \in Seq(Seq(W))
  BY SpreadWordsFacts
<1>2. /\ \A a \in Seq(X) : S(a) \in Seq(W)
      /\ \A a, b \in Seq(X) : a \o b \in Seq(X) /\ S(a \o b) = S(a) \o S(b)
      /\ ink \in Seq(X) /\ S(ink) = v
  <2>1. Spreads(F, X, W, T)
    BY SpreadsFacts
  <2>2. QED
    BY <2>1, Zenon DEF Spreads
<1>3. PICK words \in Seq(Seq(X)), word \in Seq(X), open \in BOOLEAN :
        /\ p = Read(SW(words), S(word), open, "plain")
        /\ q = Read(words, word, open, "plain")
  BY Zenon DEF Alike
<1>4. \A ws \in Seq(Seq(X)), w \in Seq(X), o \in BOOLEAN :
        Alike(Read(SW(ws), S(w), o, "plain"), Read(ws, w, o, "plain"), F, X)
  BY Zenon DEF Alike
<1> HIDE DEF S, SW
<1>5. SW(words) \in Seq(Seq(W)) /\ S(word) \in Seq(W) /\ v \in Seq(W)
  BY <1>1, <1>2, <1>3
<1>6. {Quote, "\\"} \subseteq A /\ {Quote, "\\"} \subseteq B /\ W \subseteq A /\ X \subseteq B
  OBVIOUS
<1> HIDE DEF A, B, v, ink
<1>7. Reads(p, ShellQuoted(v)) = Read(SW(words), S(word) \o v, TRUE, "plain")
  <2>1. SW(words) \in Seq(Seq(A)) /\ S(word) \in Seq(A) /\ v \in Seq(A)
    BY <1>5, <1>6, SeqGrows
  <2>2. Reads(Read(SW(words), S(word), open, "plain"), ShellQuoted(v))
          = Read(SW(words), S(word) \o v, TRUE, "plain")
    BY <1>3, <1>6, <2>1, QuotedRead
  <2>3. QED
    BY <1>3, <2>2
<1>8. Reads(q, ShellQuoted(ink)) = Read(words, word \o ink, TRUE, "plain")
  <2>1. words \in Seq(Seq(B)) /\ word \in Seq(B) /\ ink \in Seq(B)
    BY <1>2, <1>3, <1>6, SeqGrows
  <2>2. Reads(Read(words, word, open, "plain"), ShellQuoted(ink))
          = Read(words, word \o ink, TRUE, "plain")
    BY <1>3, <1>6, <2>1, QuotedRead
  <2>3. QED
    BY <1>3, <2>2
<1>9. word \o ink \in Seq(X) /\ S(word \o ink) = S(word) \o v
  BY <1>2, <1>3
<1>10. Alike(Read(SW(words), S(word \o ink), TRUE, "plain"),
             Read(words, word \o ink, TRUE, "plain"), F, X)
  BY <1>3, <1>4, <1>9, Zenon
<1>11. Alike(Reads(p, ShellQuoted(v)), Reads(q, ShellQuoted(ink)), F, X)
  BY <1>7, <1>8, <1>9, <1>10, Zenon
<1>12. QED
  BY <1>11 DEF v, ink

\* A command line and its marked rendering never part: what is open is the
\* template's own, and of what is out sh reads the same.
Told(p, q, F, T, X) ==
  /\ q.open \in Seq(T) /\ p.open = q.open
  /\ Alike(Reads(Unread, p.out), Reads(Unread, q.out), F, X)

\* Two scans with the same text open, read alike by sh so far.
LEMMA ToldMade ==
  ASSUME NEW F, NEW T, NEW X, NEW open \in Seq(T), NEW a, NEW b,
         Alike(Reads(Unread, a), Reads(Unread, b), F, X)
  PROVE  Told([out |-> a, open |-> open], [out |-> b, open |-> open], F, T, X)
BY DEF Told

\* A token keeps them so: a value in its quotes reads as its mark in quotes does.
LEMMA ToldNext ==
  ASSUME NEW F, NEW X, NEW W, NEW T, NEW st, NEW other, Fills(F, X, W, T, st, other),
         Quote \notin T, "\\" \notin T,
         NEW A, W \subseteq A, Specials \subseteq A, NEW B, X \subseteq B, Specials \subseteq B,
         NEW p \in Seen(A), NEW q \in Seen(B), NEW c \in T, Told(p, q, F, T, X)
  PROVE  Told(NextToken(p, c, st, TRUE), NextToken(q, c, other, TRUE), F, T, X)
<1> DEFINE open == q.open
           a == p.out
           b == q.out
           R(x) == Reads(Unread, x)
           S(x) == Spread(F, x)
<1>1. F \in [X -> Seq(W)] /\ T \in SUBSET X /\ \A d \in T : F[d] = <<d>>
  BY DEF Fills
<1>2. open \in Seq(T) /\ p.open = open /\ Alike(R(a), R(b), F, X)
  BY DEF Told
<1>3. p = [out |-> a, open |-> open] /\ q = [out |-> b, open |-> open] /\ a \in Seq(A) /\ b \in Seq(B)
  BY <1>2 DEF Seen
<1>4. Append(open, c) \in Seq(T) /\ <<>> \in Seq(T) /\ <<c>> \in Seq(T)
  <2>1. Append(open, c) \in Seq(T)
    BY <1>2
  <2>2. QED
    BY <2>1, NoneIsASeq, OneSeq
<1>5. Unread \in Readers(A) /\ Unread \in Readers(B)
  <2>1. \A Y : Unread \in Readers(Y)
    <3> TAKE Y
    <3>1. <<>> \in Seq(Y) /\ <<>> \in Seq(Seq(Y))
      BY NoneIsASeq
    <3>2. QED
      BY <3>1 DEF Unread, Readers
  <2>2. QED
    BY <2>1
<1>6. c \in A /\ c \in B /\ R(a) \in Readers(W) /\ R(b) \in Readers(X)
  <2>1. F[c] = <<c>> /\ F[c] \in Seq(W) /\ c \in X
    BY <1>1
  <2>2. c \in W
    BY <2>1
  <2> HIDE DEF R
  <2>4. R(a) \in Readers(W) /\ R(b) \in Readers(X)
    BY <1>1, <1>2, AlikeType
  <2>5. QED
    BY <2>1, <2>2, <2>4
<1>7. \A x \in Seq(A), y \in Seq(A) : R(x \o y) = Reads(R(x), y)
  BY <1>5, ReadsBoth
<1>8. \A x \in Seq(B), y \in Seq(B) : R(x \o y) = Reads(R(x), y)
  BY <1>5, ReadsBoth
<1>9. \A x \in Seq(A) : R(Append(x, c)) = ReadOn(R(x), c)
  BY <1>5, <1>6, ReadsAppend
<1>10. \A x \in Seq(B) : R(Append(x, c)) = ReadOn(R(x), c)
  BY <1>5, <1>6, ReadsAppend
<1>11. \A o \in Seq(T) : \A x, y : Alike(R(x), R(y), F, X)
         => Told([out |-> x, open |-> o], [out |-> y, open |-> o], F, T, X)
  BY ToldMade
<1> HIDE DEF open, a, b, R
<1>12. SUFFICES
         Told(NextToken([out |-> a, open |-> open], c, st, TRUE),
              NextToken([out |-> b, open |-> open], c, other, TRUE), F, T, X)
  BY <1>3
<1>13. CASE open = <<>> /\ c = "{"
  <2>1. \A o : /\ NextToken([out |-> o, open |-> open], c, st, TRUE) = [out |-> o, open |-> <<c>>]
               /\ NextToken([out |-> o, open |-> open], c, other, TRUE) = [out |-> o, open |-> <<c>>]
    BY <1>13 DEF NextToken
  <2>2. QED
    BY <1>2, <1>4, <1>11, <2>1, Zenon
<1>14. CASE open = <<>> /\ c # "{"
  <2>1. \A o : /\ NextToken([out |-> o, open |-> open], c, st, TRUE) = [out |-> Append(o, c), open |-> open]
               /\ NextToken([out |-> o, open |-> open], c, other, TRUE) = [out |-> Append(o, c), open |-> open]
    BY <1>14 DEF NextToken
  <2>2. c # Quote /\ c # "\\"
    OBVIOUS
  <2>3. Alike(ReadOn(R(a), c), ReadOn(R(b), c), F, X)
    BY <1>1, <1>2, <2>2, AlikeOn
  <2>4. Alike(R(Append(a, c)), R(Append(b, c)), F, X)
    BY <1>3, <1>9, <1>10, <2>3, Zenon
  <2>5. QED
    BY <1>2, <1>11, <2>1, <2>4, ZenonT(30)
<1>15. CASE open # <<>> /\ c # "}"
  <2>1. \A o : /\ NextToken([out |-> o, open |-> open], c, st, TRUE) = [out |-> o, open |-> Append(open, c)]
               /\ NextToken([out |-> o, open |-> open], c, other, TRUE) = [out |-> o, open |-> Append(open, c)]
    BY <1>15 DEF NextToken
  <2>2. QED
    BY <1>2, <1>4, <1>11, <2>1, Zenon
<1>16. CASE open # <<>> /\ c = "}"
  <2> DEFINE more == Append(open, c)
             keyed == Tail(open)
  <2>1. CASE Known(st, keyed) = <<>> /\ Known(other, keyed) = <<>>
    <3>1. \A o : NextToken([out |-> o, open |-> open], c, st, TRUE) = [out |-> o \o more, open |-> <<>>]
      BY <1>16, <2>1 DEF NextToken
    <3>2. \A o : NextToken([out |-> o, open |-> open], c, other, TRUE) = [out |-> o \o more, open |-> <<>>]
      BY <1>16, <2>1 DEF NextToken
    <3>3. more \in Seq(T)
      BY <1>4
    <3> HIDE DEF more
    <3>4. more \in Seq(A) /\ more \in Seq(B)
      <4>1. T \subseteq W
        <5> SUFFICES ASSUME NEW d \in T PROVE d \in W
          OBVIOUS
        <5>1. F[d] = <<d>> /\ F[d] \in Seq(W)
          BY <1>1
        <5>2. QED
          BY <5>1
      <4>2. T \subseteq A /\ T \subseteq B
        BY <1>1, <4>1
      <4>3. QED
        BY <3>3, <4>2, SeqGrows
    <3>5. Alike(Reads(R(a), more), Reads(R(b), more), F, X)
      BY <1>1, <1>2, <1>6, <3>3, AlikeReads
    <3>6. Alike(R(a \o more), R(b \o more), F, X)
      BY <1>3, <1>7, <1>8, <3>4, <3>5, Zenon
    <3>7. QED
      BY <1>4, <1>11, <3>1, <3>2, <3>6, Zenon
  <2>2. CASE \E d \in X : Known(st, keyed) = <<F[d]>> /\ Known(other, keyed) = <<<<d>>>>
    <3>1. PICK d \in X : Known(st, keyed) = <<F[d]>> /\ Known(other, keyed) = <<<<d>>>>
      BY <2>2
    <3> DEFINE v == F[d]
               ink == <<d>>
               sv == ShellQuoted(v)
               si == ShellQuoted(ink)
    <3>2. v \in Seq(W) /\ ink \in Seq(X)
      BY <1>1, OneSeq
    <3>3. /\ Known(st, keyed) # <<>> /\ Known(st, keyed)[1] = v
          /\ Known(other, keyed) # <<>> /\ Known(other, keyed)[1] = ink
      BY <3>1
    <3>4. Alike(Reads(R(a), sv), Reads(R(b), si), F, X)
      BY <1>1, <1>2, AlikeQuoted
    <3> HIDE DEF v, ink
    <3>5. sv \in Seq(A) /\ si \in Seq(B)
      <4>1. v \in Seq(A) /\ ink \in Seq(B)
        BY <3>2, SeqGrows
      <4>2. {Quote, "\\"} \subseteq A /\ {Quote, "\\"} \subseteq B
        BY SpecialsIn
      <4>3. QED
        BY <4>1, <4>2, QuotedType
    <3>6. \A o : NextToken([out |-> o, open |-> open], c, st, TRUE) = [out |-> o \o sv, open |-> <<>>]
      BY <1>16, <3>3 DEF NextToken
    <3>7. \A o : NextToken([out |-> o, open |-> open], c, other, TRUE) = [out |-> o \o si, open |-> <<>>]
      BY <1>16, <3>3 DEF NextToken
    <3> HIDE DEF sv, si
    <3>8. Alike(R(a \o sv), R(b \o si), F, X)
      BY <1>3, <1>7, <1>8, <3>4, <3>5, Zenon
    <3>9. QED
      <4>1. Told([out |-> a \o sv, open |-> <<>>], [out |-> b \o si, open |-> <<>>], F, T, X)
        BY <1>4, <1>11, <3>8, Zenon
      <4>2. QED
        BY <3>6, <3>7, <4>1, Zenon
  <2>3. \/ Known(st, keyed) = <<>> /\ Known(other, keyed) = <<>>
        \/ \E d \in X : Known(st, keyed) = <<F[d]>> /\ Known(other, keyed) = <<<<d>>>>
    BY Zenon DEF Fills
  <2>4. QED
    BY <2>1, <2>2, <2>3
<1>17. QED
  BY <1>13, <1>14, <1>15, <1>16

\* sh reads a command line that is rendered for it as its author wrote it, with
\* the values in their places, to the letter (render_shell), whatever the
\* template, the values and the variables are, as long as the template has no
\* quotes or backslashes of its own.
THEOREM CommandsAreReadToTheLetter ==
  ASSUME NEW T, NEW t \in Seq(T), Quote \notin T, "\\" \notin T,
         NEW V, NEW D, NEW M, NEW N, NEW st \in StatesOf(V, D, M, N),
         NEW mark, NEW K, NEW Q, MarksFit(mark, K, Q, T, D)
  PROVE  ReadToTheLetter(t, st, mark)
<1> DEFINE X == Inked(T, K, st, mark)
           F == Meanings(T, K, st, mark)
           W == T \cup V
           other == Marked(st, mark)
           A == W \cup Specials
           B == X \cup Specials
           n == Len(t)
           f == Rendering(t, st, TRUE)
           g == Rendering(t, other, TRUE)
<1>1. Fills(F, X, W, T, st, other)
  BY FillsFacts
<1>2. \A text \in Seq(X) : Unmarked(text, st, mark) = Spread(F, text)
  <2>1. MeaningsSo(T, V, K, st, mark)
    BY MeaningsFacts
  <2>2. QED
    BY <2>1, Zenon DEF MeaningsSo
<1>3. W \subseteq A /\ X \subseteq B /\ Specials \subseteq A /\ Specials \subseteq B
  OBVIOUS
<1> HIDE DEF X, F, other, A, B, W
<1>4. F \in [X -> Seq(W)] /\ T \in SUBSET X /\ \A d \in T : F[d] = <<d>>
  BY <1>1 DEF Fills
<1>5. Knows(st, A) /\ Knows(other, B)
  BY <1>1, <1>3, KnowsFacts
<1>6. T \subseteq A /\ T \subseteq B
  <2>1. T \subseteq W
    BY DEF W
  <2>2. QED
    BY <1>3, <1>4, <2>1
<1>7. t \in Seq(A) /\ t \in Seq(B)
  BY <1>6, SeqGrows
<1>8. /\ \A k \in 0..n : f[k] \in Seen(A)
      /\ f[0] = [out |-> <<>>, open |-> <<>>]
      /\ \A k \in 1..n : f[k] = NextToken(f[k - 1], t[k], st, TRUE)
  <2>1. RenderingSo(t, st, TRUE, A)
    BY <1>3, <1>5, <1>7, RenderingFacts
  <2>2. QED
    BY <2>1, Zenon DEF RenderingSo
<1>9. /\ \A k \in 0..n : g[k] \in Seen(B)
      /\ g[0] = [out |-> <<>>, open |-> <<>>]
      /\ \A k \in 1..n : g[k] = NextToken(g[k - 1], t[k], other, TRUE)
  <2>1. RenderingSo(t, other, TRUE, B)
    BY <1>3, <1>5, <1>7, RenderingFacts
  <2>2. QED
    BY <2>1, Zenon DEF RenderingSo
<1>10. n \in Nat /\ \A k \in 1..n : t[k] \in T
  OBVIOUS
<1> HIDE DEF n, f, g
<1>11. \A Y : Unread \in Readers(Y)
  <2> TAKE Y
  <2>1. <<>> \in Seq(Y) /\ <<>> \in Seq(Seq(Y))
    BY NoneIsASeq
  <2>2. QED
    BY <2>1 DEF Unread, Readers
<1> DEFINE Good == {k \in 0..n : Told(f[k], g[k], F, T, X)}
<1>12. \A k \in 0..n : k \in Good
  <2>1. 0 \in Good
    <3>1. <<>> \in Seq(X) /\ Spread(F, <<>>) = <<>> /\ SpreadWords(F, <<>>) = <<>>
      <4>1. Spreads(F, X, W, T)
        BY <1>4, SpreadsFacts
      <4>2. SpreadWords(F, <<>>) = <<>>
        BY <1>4, SpreadWordsFacts
      <4>3. QED
        BY <4>1, <4>2, Zenon DEF Spreads
    <3>2. <<>> \in Seq(T) /\ <<>> \in Seq(Seq(X))
      BY NoneIsASeq
    <3>3. Alike(Unread, Unread, F, X)
      <4>1. /\ Unread = Read(SpreadWords(F, <<>>), Spread(F, <<>>), FALSE, "plain")
            /\ Unread = Read(<<>>, <<>>, FALSE, "plain")
        BY <3>1, Zenon DEF Unread, Read
      <4>2. QED
        BY <3>1, <3>2, <4>1, Zenon DEF Alike
    <3>4. Reads(Unread, <<>>) = Unread
      <4> DEFINE Y == {0}
      <4>1. Unread \in Readers(Y) /\ 0 \in Y
        BY <1>11
      <4> HIDE DEF Y
      <4>2. QED
        BY <4>1, ReadsOne
    <3>5. Alike(Reads(Unread, <<>>), Reads(Unread, <<>>), F, X)
      BY <3>3, <3>4, Zenon
    <3>6. Told([out |-> <<>>, open |-> <<>>], [out |-> <<>>, open |-> <<>>], F, T, X)
      BY <3>2, <3>5, ToldMade
    <3>7. Told(f[0], g[0], F, T, X)
      BY <1>8, <1>9, <3>6, Zenon
    <3>8. QED
      BY <1>10, <3>7
  <2>2. ASSUME NEW k \in 1..n, k - 1 \in Good PROVE k \in Good
    <3>1. Told(f[k - 1], g[k - 1], F, T, X) /\ k - 1 \in 0..n /\ k \in 0..n /\ t[k] \in T
      BY <1>10, <2>2
    <3>2. f[k - 1] \in Seen(A) /\ g[k - 1] \in Seen(B)
      BY <1>8, <1>9, <3>1
    <3>3. Told(NextToken(f[k - 1], t[k], st, TRUE), NextToken(g[k - 1], t[k], other, TRUE), F, T, X)
      BY <1>1, <1>3, <3>1, <3>2, ToldNext
    <3>4. Told(f[k], g[k], F, T, X)
      BY <1>8, <1>9, <3>3, Zenon
    <3>5. QED
      BY <3>1, <3>4
  <2> HIDE DEF Good
  <2>3. QED
    BY <1>10, <2>1, <2>2, Climb
<1> DEFINE a == f[n].out
           b == g[n].out
           open == g[n].open
<1>13. /\ open \in Seq(T) /\ f[n].open = open
       /\ Alike(Reads(Unread, a), Reads(Unread, b), F, X)
       /\ a \in Seq(A) /\ b \in Seq(B)
  <2>1. n \in Good /\ n \in 0..n
    BY <1>10, <1>12
  <2>2. f[n] \in Seen(A) /\ g[n] \in Seen(B)
    BY <1>8, <1>9, <2>1
  <2>3. a \in Seq(A) /\ b \in Seq(B)
    BY <2>2 DEF Seen
  <2>4. QED
    BY <2>1, <2>3 DEF Told
<1>14. Render(t, st, TRUE) = a \o open /\ Render(t, other, TRUE) = b \o open
  <2>1. Render(t, st, TRUE) = f[n].out \o f[n].open
    BY DEF Render, f, n
  <2>2. Render(t, other, TRUE) = g[n].out \o g[n].open
    BY DEF Render, g, n
  <2>3. QED
    BY <1>13, <2>1, <2>2
<1> HIDE DEF a, b, open
<1>15. open \in Seq(A) /\ open \in Seq(B)
  BY <1>6, <1>13, SeqGrows
<1> DEFINE p == Reads(Unread, a)
           q == Reads(Unread, b)
<1>16. Reads(Unread, a \o open) = Reads(p, open) /\ Reads(Unread, b \o open) = Reads(q, open)
  <2>1. Reads(Unread, a \o open) = Reads(p, open)
    <3>1. Unread \in Readers(A)
      BY <1>11
    <3>2. QED
      BY <1>13, <1>15, <3>1, ReadsBoth
  <2>2. Reads(Unread, b \o open) = Reads(q, open)
    <3>1. Unread \in Readers(B)
      BY <1>11
    <3>2. QED
      BY <1>13, <1>15, <3>1, ReadsBoth
  <2>3. QED
    BY <2>1, <2>2
<1>17. p \in Readers(W) /\ q \in Readers(X) /\ Alike(p, q, F, X)
  BY <1>4, <1>13, AlikeType
<1> HIDE DEF p, q
<1>18. Alike(Reads(p, open), Reads(q, open), F, X)
  BY <1>4, <1>13, <1>17, AlikeReads
<1>19. PICK words \in Seq(Seq(X)), word \in Seq(X), ended \in BOOLEAN :
         /\ Reads(p, open) = Read(SpreadWords(F, words), Spread(F, word), ended, "plain")
         /\ Reads(q, open) = Read(words, word, ended, "plain")
  BY <1>18, Zenon DEF Alike
<1> DEFINE meant == Words(Render(t, other, TRUE))
<1>20. Words(Render(t, st, TRUE)) = SpreadWords(F, meant) /\ meant \in Seq(Seq(X))
  <2>1. /\ Words(Render(t, st, TRUE)) = Break(Reads(p, open)).words
        /\ meant = Break(Reads(q, open)).words
    BY <1>14, <1>16, Zenon DEF Words, p, q
  <2>2. CASE ended = TRUE
    <3>1. /\ Words(Render(t, st, TRUE)) = Append(SpreadWords(F, words), Spread(F, word))
          /\ meant = Append(words, word)
      <4>1. /\ Reads(p, open) = Ended(SpreadWords(F, words), Spread(F, word))
            /\ Reads(q, open) = Ended(words, word)
        BY <1>19, <2>2, Zenon DEF Ended
      <4>2. QED
        BY <2>1, <4>1, LineEnds, Zenon
    <3>2. SpreadWords(F, Append(words, word)) = Append(SpreadWords(F, words), Spread(F, word))
      <4>1. \A us \in Seq(Seq(X)), w \in Seq(X) :
              SpreadWords(F, Append(us, w)) = Append(SpreadWords(F, us), Spread(F, w))
        BY <1>4, SpreadWordsFacts, ZenonT(40)
      <4>2. QED
        BY <1>19, <4>1, Zenon
    <3>3. Append(words, word) \in Seq(Seq(X))
      <4> DEFINE C == Seq(X)
      <4> HIDE DEF C
      <4>1. words \in Seq(C) /\ word \in C
        BY DEF C
      <4>2. Append(words, word) \in Seq(C)
        BY <4>1
      <4>3. QED
        BY <4>2 DEF C
    <3>4. QED
      BY <3>1, <3>2, <3>3, Zenon
  <2>3. CASE ended = FALSE
    <3>1. Words(Render(t, st, TRUE)) = SpreadWords(F, words) /\ meant = words
      <4>1. /\ Reads(p, open) = Read(SpreadWords(F, words), Spread(F, word), FALSE, "plain")
            /\ Reads(q, open) = Read(words, word, FALSE, "plain")
        BY <1>19, <2>3, Zenon
      <4>2. QED
        BY <2>1, <4>1, LineEnds, Zenon
    <3>2. QED
      BY <3>1, Zenon
  <2>4. QED
    BY <2>2, <2>3
<1> HIDE DEF meant
<1>21. SpreadWords(F, meant) = [i \in DOMAIN meant |-> Unmarked(meant[i], st, mark)]
  <2>1. \A i \in DOMAIN meant : meant[i] \in Seq(X)
    BY <1>20
  <2>2. \A i \in DOMAIN meant : Spread(F, meant[i]) = Unmarked(meant[i], st, mark)
    BY <1>2, <2>1
  <2>3. QED
    BY <2>2, Zenon DEF SpreadWords
<1>22. QED
  BY <1>20, <1>21, Zenon DEF ReadToTheLetter, other, meant

-----------------------------------------------------------------------------
(* What a template does to each of its parts.                              *)

\* How texts are put together.
JoinsSo(W) ==
  /\ \A a, b, c \in Seq(W) : (a \o b) \o c = a \o (b \o c)
  /\ \A a, b \in Seq(W), x \in W : Append(a \o b, x) = a \o Append(b, x)

\* Texts may be put together in any order.
LEMMA JoinsFacts == \A W : JoinsSo(W)
<1> TAKE W
<1>1. ASSUME NEW a \in Seq(W), NEW b \in Seq(W), NEW c \in Seq(W)
      PROVE  (a \o b) \o c = a \o (b \o c)
  BY ConcatAssociative
<1>2. ASSUME NEW a \in Seq(W), NEW b \in Seq(W), NEW x \in W
      PROVE  Append(a \o b, x) = a \o Append(b, x)
  <2> DEFINE one == <<x>>
  <2>1. one \in Seq(W) /\ a \o b \in Seq(W)
    OBVIOUS
  <2>2. Append(a \o b, x) = (a \o b) \o one /\ Append(b, x) = b \o one
    BY <2>1, AppendIsConcat
  <2> HIDE DEF one
  <2>3. (a \o b) \o one = a \o (b \o one)
    BY <1>1, <2>1
  <2>4. QED
    BY <2>2, <2>3, Zenon
<1>3. QED
  BY <1>1, <1>2, Zenon DEF JoinsSo

\* What is put in for a placeholder is a text.
LEMMA PutType ==
  ASSUME NEW W, Specials \subseteq W, NEW st, Knows(st, W), NEW shell \in BOOLEAN,
         NEW open \in Seq(W), NEW c \in W
  PROVE  (IF Known(st, Tail(open)) = <<>> THEN Append(open, c)
          ELSE IF shell THEN ShellQuoted(Known(st, Tail(open))[1]) ELSE Known(st, Tail(open))[1]) \in Seq(W)
<1> DEFINE A == Seq(W)
           value == Known(st, Tail(open))
<1>1. CASE value = <<>>
  <2>1. Append(open, c) \in A
    OBVIOUS
  <2>2. QED
    BY <1>1, <2>1
<1>2. CASE value # <<>>
  <2>1. PICK v \in Seq(W) : value = <<v>>
    BY <1>2, Zenon DEF Knows
  <2>2. value[1] \in A
    BY <2>1
  <2>3. ShellQuoted(value[1]) \in A
    <3> DEFINE u == value[1]
    <3>1. u \in Seq(W)
      BY <2>2
    <3> HIDE DEF u
    <3>2. {Quote, "\\"} \subseteq W
      BY SpecialsIn
    <3>3. ShellQuoted(u) \in Seq(W)
      BY <3>1, <3>2, QuotedType
    <3>4. QED
      BY <3>3 DEF u
  <2> HIDE DEF value, A
  <2>4. QED
    BY <1>2, <2>2, <2>3 DEF A, value
<1>3. QED
  BY <1>1, <1>2

\* What has been put out is left alone.
After(p, s) == [out |-> p \o s.out, open |-> s.open]

\* A token is read in the same way whatever was put out before.
LEMMA NextAfter ==
  ASSUME NEW W, Specials \subseteq W, NEW st, Knows(st, W), NEW shell \in BOOLEAN,
         NEW s \in Seen(W), NEW p \in Seq(W), NEW c \in W
  PROVE  NextToken(After(p, s), c, st, shell) = After(p, NextToken(s, c, st, shell))
<1> DEFINE A == Seq(W)
           value == Known(st, Tail(s.open))
           put == IF value = <<>> THEN Append(s.open, c)
                  ELSE IF shell THEN ShellQuoted(value[1]) ELSE value[1]
           q == After(p, s)
<1>1. s.out \in A /\ s.open \in A /\ s = [out |-> s.out, open |-> s.open]
  BY DEF Seen
<1>2. q = [out |-> p \o s.out, open |-> s.open]
  BY DEF After
<1> HIDE DEF q
<1>3. CASE s.open = <<>> /\ c = "{"
  <2>1. NextToken(s, c, st, shell) = [out |-> s.out, open |-> <<c>>]
    BY <1>1, <1>3 DEF NextToken
  <2>2. NextToken(q, c, st, shell) = [out |-> p \o s.out, open |-> <<c>>]
    BY <1>2, <1>3 DEF NextToken
  <2>3. QED
    BY <2>1, <2>2 DEF After, q
<1>4. CASE s.open = <<>> /\ c # "{"
  <2>1. NextToken(s, c, st, shell) = [out |-> Append(s.out, c), open |-> s.open]
    BY <1>1, <1>4 DEF NextToken
  <2>2. NextToken(q, c, st, shell) = [out |-> Append(p \o s.out, c), open |-> s.open]
    BY <1>2, <1>4 DEF NextToken
  <2>3. Append(p \o s.out, c) = p \o Append(s.out, c)
    <3> DEFINE o == s.out
    <3>1. o \in Seq(W)
      BY <1>1
    <3> HIDE DEF o
    <3>2. Append(p \o o, c) = p \o Append(o, c)
      <4>1. JoinsSo(W)
        BY JoinsFacts
      <4>2. QED
        BY <3>1, <4>1, Zenon DEF JoinsSo
    <3>3. QED
      BY <3>2 DEF o
  <2>4. QED
    BY <2>1, <2>2, <2>3 DEF After, q
<1>5. CASE s.open # <<>> /\ c # "}"
  <2>1. NextToken(s, c, st, shell) = [out |-> s.out, open |-> Append(s.open, c)]
    BY <1>1, <1>5 DEF NextToken
  <2>2. NextToken(q, c, st, shell) = [out |-> p \o s.out, open |-> Append(s.open, c)]
    BY <1>2, <1>5 DEF NextToken
  <2>3. QED
    BY <2>1, <2>2 DEF After, q
<1>6. CASE s.open # <<>> /\ c = "}"
  <2>1. NextToken(s, c, st, shell) = [out |-> s.out \o put, open |-> <<>>]
    BY <1>1, <1>6 DEF NextToken
  <2>2. NextToken(q, c, st, shell) = [out |-> (p \o s.out) \o put, open |-> <<>>]
    BY <1>2, <1>6 DEF NextToken
  <2>3. NextToken(s, c, st, shell) \in Seen(W)
    BY NextTokenType
  <2>4. put \in A
    BY PutType, <1>1
  <2>5. (p \o s.out) \o put = p \o (s.out \o put)
    <3> DEFINE o == s.out
    <3>1. o \in Seq(W)
      BY <1>1
    <3> HIDE DEF o, put
    <3>2. (p \o o) \o put = p \o (o \o put)
      <4>1. JoinsSo(W)
        BY JoinsFacts
      <4>2. put \in Seq(W)
        BY <2>4
      <4>3. QED
        BY <3>1, <4>1, <4>2, Zenon DEF JoinsSo
    <3>3. QED
      BY <3>2 DEF o
  <2> HIDE DEF put
  <2>6. QED
    BY <2>1, <2>2, <2>5 DEF After, q
<1>7. QED
  BY <1>3, <1>4, <1>5, <1>6

\* A brace that is closed, or was never opened, leaves nothing open.
LEMMA ClosedByBrace ==
  ASSUME NEW W, NEW s \in Seen(W), NEW st, NEW shell
  PROVE  NextToken(s, "}", st, shell).open = <<>>
<1>1. CASE s.open = <<>>
  <2>1. NextToken(s, "}", st, shell) = [s EXCEPT !.out = Append(@, "}")]
    BY <1>1 DEF NextToken
  <2>2. QED
    BY <1>1, <2>1 DEF Seen
<1>2. CASE s.open # <<>>
  BY <1>2 DEF NextToken
<1>3. QED
  BY <1>1, <1>2

NothingOpen(t, st, shell) == Rendering(t, st, shell)[Len(t)].open = <<>>
RenderJoins(a, b, st, shell) == Render(a \o b, st, shell) = Render(a, st, shell) \o Render(b, st, shell)

\* Two texts side by side, the first of which leaves nothing open.
LEMMA RenderJoin ==
  ASSUME NEW W, Specials \subseteq W, NEW st, Knows(st, W), NEW shell \in BOOLEAN,
         NEW a \in Seq(W), NEW b \in Seq(W), NothingOpen(a, st, shell)
  PROVE  RenderJoins(a, b, st, shell)
<1> DEFINE m == Len(a)
           n == Len(b)
           c == a \o b
           On(s, x) == NextToken(s, x, st, shell)
           r == [out |-> <<>>, open |-> <<>>]
           f == Rendering(c, st, shell)
           g == Rendering(a, st, shell)
           h == Rendering(b, st, shell)
           S == Seen(W)
           p == g[m].out
<1>1. /\ m \in Nat /\ n \in Nat /\ c \in Seq(W) /\ Len(c) = m + n
      /\ \A i \in 1..m : i \in 1..Len(c) /\ c[i] = a[i]
      /\ \A i \in 1..n : m + i \in 1..Len(c) /\ c[m + i] = b[i]
  BY Meet, SMTT(40)
<1>2. (\A k \in 0..m : g[k] \in S) /\ g[0] = r /\ \A k \in 1..m : g[k] = On(g[k - 1], a[k])
  BY RenderingFacts DEF RenderingSo
<1>3. (\A k \in 0..n : h[k] \in S) /\ h[0] = r /\ \A k \in 1..n : h[k] = On(h[k - 1], b[k])
  BY RenderingFacts DEF RenderingSo
<1>4. f[0] = r /\ \A k \in 1..Len(c) : f[k] = On(f[k - 1], c[k])
  <2>1. c \in Seq(W)
    BY <1>1
  <2> HIDE DEF c
  <2>2. RenderingSo(c, st, shell, W)
    BY <2>1, RenderingFacts
  <2>3. QED
    BY <2>2, Zenon DEF RenderingSo
<1>5. Render(c, st, shell) = f[m + n].out \o f[m + n].open
  BY <1>1 DEF Render
<1>6. Render(a, st, shell) = g[m].out \o g[m].open /\ Render(b, st, shell) = h[n].out \o h[n].open
  BY DEF Render
<1>7. g[m].open = <<>>
  BY Zenon DEF NothingOpen
<1>8. \A i \in 1..n : b[i] \in W
  OBVIOUS
<1>9. p \in Seq(W)
  <2>1. m \in 0..m
    BY <1>1
  <2>2. QED
    BY <1>2, <2>1 DEF Seen
<1>10. \A s \in S, x \in W : On(After(p, s), x) = After(p, On(s, x))
  <2> HIDE DEF p
  <2>1. QED
    BY <1>9, NextAfter
<1>11. After(p, r) = g[m]
  <2>1. m \in 0..m
    BY <1>1
  <2>2. g[m] = [out |-> p, open |-> <<>>]
    BY <1>2, <1>7, <2>1 DEF Seen
  <2>3. p \o <<>> = p
    <3> HIDE DEF p
    <3>1. QED
      BY <1>9, ConcatEmptySeq
  <2> HIDE DEF p, g
  <2>4. QED
    BY <2>2, <2>3 DEF After
<1> HIDE DEF m, n, c, f, g, h, On, S, r, p
<1> DEFINE Low == {k \in 0..m : f[k] = g[k]}
           High == {k \in 0..n : f[m + k] = After(p, h[k])}
<1>12. \A k \in 0..m : k \in Low
  <2>1. 0 \in Low
    BY <1>1, <1>2, <1>4
  <2>2. \A k \in 1..m : k - 1 \in Low => k \in Low
    BY <1>1, <1>2, <1>4
  <2> HIDE DEF Low
  <2>3. QED
    BY <1>1, <2>1, <2>2, Climb
<1>13. f[m] = g[m]
  BY <1>1, <1>12
<1>14. \A k \in 0..n : k \in High
  <2>1. 0 \in High
    BY <1>1, <1>3, <1>11, <1>13
  <2>2. ASSUME NEW k \in 1..n, k - 1 \in High PROVE k \in High
    <3>1. m + k \in 1..Len(c) /\ (m + k) - 1 = m + (k - 1) /\ k \in 0..n /\ k - 1 \in 0..n
      BY <1>1
    <3>2. f[m + k] = On(f[m + (k - 1)], c[m + k])
      BY <1>4, <3>1
    <3>3. f[m + (k - 1)] = After(p, h[k - 1]) /\ c[m + k] = b[k] /\ h[k] = On(h[k - 1], b[k])
      BY <1>1, <1>3, <2>2
    <3>4. On(After(p, h[k - 1]), b[k]) = After(p, On(h[k - 1], b[k]))
      BY <1>3, <1>8, <1>10, <3>1
    <3>5. f[m + k] = After(p, h[k])
      BY <3>2, <3>3, <3>4
    <3>6. QED
      BY <3>1, <3>5
  <2> HIDE DEF High
  <2>3. QED
    BY <1>1, <2>1, <2>2, Climb
<1>15. f[m + n] = After(p, h[n]) /\ h[n] \in S
  <2>1. n \in 0..n
    BY <1>1
  <2>2. n \in High
    BY <1>14, <2>1
  <2>3. QED
    BY <1>3, <2>1, <2>2
<1>16. h[n].out \in Seq(W) /\ h[n].open \in Seq(W)
  BY <1>15 DEF S, Seen
<1>17. (p \o h[n].out) \o h[n].open = p \o (h[n].out \o h[n].open)
  <2> DEFINE u == h[n].out
             v == h[n].open
  <2>1. u \in Seq(W) /\ v \in Seq(W)
    BY <1>16
  <2> HIDE DEF u, v
  <2>2. (p \o u) \o v = p \o (u \o v)
    <3>1. JoinsSo(W)
      BY JoinsFacts
    <3>2. QED
      BY <1>9, <2>1, <3>1, Zenon DEF JoinsSo
  <2>3. QED
    BY <2>2 DEF u, v
<1>18. p \o <<>> = p
  BY <1>9, ConcatEmptySeq
<1>19. Render(c, st, shell) = p \o (h[n].out \o h[n].open)
  <2>1. f[m + n].out = p \o h[n].out /\ f[m + n].open = h[n].open
    BY <1>15 DEF After
  <2>2. QED
    BY <1>5, <1>17, <2>1, Zenon
<1>20. Render(a, st, shell) = p
  BY <1>6, <1>7, <1>18, Zenon DEF p
<1>21. QED
  BY <1>6, <1>19, <1>20, Zenon DEF c, RenderJoins

\* A text cut in two.
SplitSo(t, i, W) ==
  LET a == SubSeq(t, 1, i)
      b == SubSeq(t, i + 1, Len(t))
  IN  /\ i \in Nat /\ a \in Seq(W) /\ Len(a) = i /\ a[i] = t[i]
      /\ b \in Seq(W) /\ a \o b = t

\* A text cut in two is put together again.
LEMMA SplitFacts ==
  ASSUME NEW W, NEW t \in Seq(W), NEW i \in 1..Len(t)
  PROVE  SplitSo(t, i, W)
<1> DEFINE a == SubSeq(t, 1, i)
           b == SubSeq(t, i + 1, Len(t))
<1>1. a \in Seq(W) /\ Len(a) = i /\ a[i] = t[i] /\ b \in Seq(W) /\ i \in Nat
  OBVIOUS
<1>2. a \o b = t
  <2>1. SubSeq(t, 1, i) \o SubSeq(t, i + 1, Len(t)) = SubSeq(t, 1, Len(t))
    BY ConcatAdjacentSubSeq
  <2>2. SubSeq(t, 1, Len(t)) = t
    BY SubSeqFull
  <2>3. QED
    BY <2>1, <2>2
<1>3. QED
  BY <1>1, <1>2, Zenon DEF SplitSo

\* A number is among those up to it, and so is the one before.
LEMMA UpTo ==
  ASSUME NEW n \in Nat, NEW i \in 1..n
  PROVE  i \in 1..i /\ i - 1 \in 0..i
OBVIOUS

\* Text before a closed brace does not depend on what comes after it (render_with),
\* whatever the template and the values are.
LEMMA TemplatesArePiecewise ==
  ASSUME NEW W, Specials \subseteq W, NEW st, Knows(st, W), NEW t \in Seq(W)
  PROVE  Piecewise(t, st)
<1> SUFFICES ASSUME NEW i \in DOMAIN t, t[i] = "}"
             PROVE  Render(t, st, FALSE)
                      = Render(SubSeq(t, 1, i), st, FALSE) \o Render(SubSeq(t, i + 1, Len(t)), st, FALSE)
  BY DEF Piecewise
<1> DEFINE a == SubSeq(t, 1, i)
           b == SubSeq(t, i + 1, Len(t))
           g == Rendering(a, st, FALSE)
<1>1. i \in 1..Len(t)
  BY LenProperties
<1>2. i \in Nat /\ a \in Seq(W) /\ Len(a) = i /\ a[i] = "}" /\ b \in Seq(W) /\ a \o b = t
  <2>1. SplitSo(t, i, W)
    BY <1>1, SplitFacts
  <2>2. QED
    BY <2>1, Zenon DEF SplitSo
<1> HIDE DEF a, b
<1>3. i \in 1..i /\ i - 1 \in 0..i
  <2>1. Len(t) \in Nat
    BY LenProperties
  <2>2. QED
    BY <1>1, <2>1, UpTo, Zenon
<1>4. /\ \A k \in 0..i : g[k] \in Seen(W)
      /\ \A k \in 1..i : g[k] = NextToken(g[k - 1], a[k], st, FALSE)
  <2>1. RenderingSo(a, st, FALSE, W)
    BY <1>2, RenderingFacts
  <2>2. /\ \A k \in 0..Len(a) : g[k] \in Seen(W)
        /\ \A k \in 1..Len(a) : g[k] = NextToken(g[k - 1], a[k], st, FALSE)
    BY <2>1, Zenon DEF RenderingSo
  <2>3. Len(a) = i
    BY <1>2
  <2> HIDE DEF g
  <2>4. QED
    BY <2>2, <2>3, Zenon
<1>5. g[i].open = <<>>
  <2> DEFINE p == g[i - 1]
  <2>1. p \in Seen(W)
    BY <1>3, <1>4, Zenon
  <2>2. g[i] = NextToken(p, "}", st, FALSE)
    <3>1. g[i] = NextToken(p, a[i], st, FALSE)
      BY <1>3, <1>4, Zenon
    <3>2. a[i] = "}"
      BY <1>2
    <3> HIDE DEF p, g
    <3>3. QED
      BY <3>1, <3>2, Zenon
  <2> HIDE DEF p, g
  <2>3. NextToken(p, "}", st, FALSE).open = <<>>
    BY <2>1, ClosedByBrace
  <2>4. QED
    BY <2>2, <2>3, Zenon
<1>6. Render(a \o b, st, FALSE) = Render(a, st, FALSE) \o Render(b, st, FALSE)
  <2>1. NothingOpen(a, st, FALSE)
    BY <1>2, <1>5, Zenon DEF NothingOpen, g
  <2>2. RenderJoins(a, b, st, FALSE)
    BY <1>2, <2>1, RenderJoin
  <2>3. QED
    BY <2>2, Zenon DEF RenderJoins
<1>7. QED
  BY <1>2, <1>6, Zenon DEF a, b

\* A key between two tokens.
Upon(b, key, k) == <<b>> \o SubSeq(key, 1, k)
BracketSo(b, key, e, W) ==
  LET t == <<b>> \o key \o <<e>>
      n == Len(key)
  IN  /\ t \in Seq(W) /\ n \in Nat /\ Len(t) = n + 2
      /\ t[1] = b /\ t[n + 2] = e
      /\ \A k \in 1..n : t[1 + k] = key[k] /\ key[k] \in W
      /\ Upon(b, key, 0) = <<b>> /\ Upon(b, key, n) = <<b>> \o key
      /\ \A k \in 0..n : Upon(b, key, k) # <<>> /\ Upon(b, key, k) \in Seq(W)
      /\ \A k \in 1..n : Append(Upon(b, key, k - 1), key[k]) = Upon(b, key, k)
      /\ Tail(<<b>> \o key) = key
      /\ Append(<<b>> \o key, e) = t

\* The tokens of a key in brackets.
LEMMA BracketFacts ==
  ASSUME NEW W, NEW b \in W, NEW e \in W, NEW key \in Seq(W)
  PROVE  BracketSo(b, key, e, W)
<1> DEFINE n == Len(key)
           s == <<b>> \o key
           t == s \o <<e>>
<1>1. n \in Nat /\ s \in Seq(W) /\ Len(s) = n + 1 /\ s[1] = b
      /\ \A k \in 1..n : s[1 + k] = key[k] /\ key[k] \in W
  OBVIOUS
<1>2. Tail(s) = key
  OBVIOUS
<1> HIDE DEF s
<1>3. Append(s, e) = t /\ t \in Seq(W) /\ Len(t) = (n + 1) + 1 /\ t[(n + 1) + 1] = e
      /\ \A k \in 1..(n + 1) : t[k] = s[k]
  BY <1>1
<1>4. Len(t) = n + 2 /\ t[1] = b /\ t[n + 2] = e /\ \A k \in 1..n : t[1 + k] = key[k]
  <2> HIDE DEF t, n
  <2>1. (n + 1) + 1 = n + 2 /\ 1 \in 1..(n + 1) /\ \A k \in 1..n : 1 + k \in 1..(n + 1)
    BY <1>1
  <2>2. QED
    BY <1>1, <1>3, <2>1
<1>5. Upon(b, key, 0) = <<b>> /\ Upon(b, key, n) = s
  <2>1. SubSeq(key, 1, 0) = <<>> /\ SubSeq(key, 1, n) = key
    OBVIOUS
  <2>2. <<b>> \o <<>> = <<b>>
    OBVIOUS
  <2>3. QED
    BY <2>1, <2>2, Zenon DEF Upon, s
<1>6. ASSUME NEW k \in 0..n PROVE Upon(b, key, k) # <<>> /\ Upon(b, key, k) \in Seq(W)
  <2> DEFINE u == SubSeq(key, 1, k)
  <2>1. u \in Seq(W)
    OBVIOUS
  <2> HIDE DEF u
  <2>2. <<b>> \o u \in Seq(W) /\ Len(<<b>> \o u) > 0
    BY <2>1
  <2>3. Upon(b, key, k) = <<b>> \o u
    BY DEF Upon, u
  <2>4. QED
    BY <2>2, <2>3
<1>7. ASSUME NEW k \in 1..n PROVE Append(Upon(b, key, k - 1), key[k]) = Upon(b, key, k)
  <2> DEFINE u == SubSeq(key, 1, k - 1)
             x == key[k]
  <2>1. Append(u, x) = SubSeq(key, 1, k)
    OBVIOUS
  <2>2. u \in Seq(W) /\ x \in W
    OBVIOUS
  <2> HIDE DEF u, x
  <2>3. Append(<<b>> \o u, x) = <<b>> \o Append(u, x)
    <3> DEFINE one == <<b>>
    <3>1. one \in Seq(W)
      BY OneSeq
    <3> HIDE DEF one
    <3>2. Append(one \o u, x) = one \o Append(u, x)
      <4>1. JoinsSo(W)
        BY JoinsFacts
      <4>2. QED
        BY <2>2, <3>1, <4>1, Zenon DEF JoinsSo
    <3>3. QED
      BY <3>2 DEF one
  <2>4. QED
    BY <2>1, <2>3, Zenon DEF Upon, u, x
<1>8. QED
  BY <1>1, <1>2, <1>3, <1>4, <1>5, <1>6, <1>7, Zenon DEF BracketSo, s, n, t

\* A brace opens a placeholder, what is no brace goes on in it, and a closing one
\* is put in for.
Turns(st, shell) ==
  /\ NextToken([out |-> <<>>, open |-> <<>>], "{", st, shell) = [out |-> <<>>, open |-> <<"{">>]
  /\ \A open, c : open # <<>> /\ c # "}" =>
       NextToken([out |-> <<>>, open |-> open], c, st, shell) = [out |-> <<>>, open |-> Append(open, c)]
  /\ \A open : open # <<>> =>
       NextToken([out |-> <<>>, open |-> open], "}", st, shell)
         = [out |-> <<>> \o (IF Known(st, Tail(open)) = <<>> THEN Append(open, "}")
                             ELSE IF shell THEN ShellQuoted(Known(st, Tail(open))[1])
                             ELSE Known(st, Tail(open))[1]),
            open |-> <<>>]

\* What the scan does at an opening brace, inside, and at a closing one.
LEMMA TurnsFacts == \A st, shell : Turns(st, shell)
<1> TAKE st, shell
<1>1. NextToken([out |-> <<>>, open |-> <<>>], "{", st, shell) = [out |-> <<>>, open |-> <<"{">>]
  BY DEF NextToken
<1>2. ASSUME NEW open, NEW c, open # <<>>, c # "}"
      PROVE  NextToken([out |-> <<>>, open |-> open], c, st, shell) = [out |-> <<>>, open |-> Append(open, c)]
  BY <1>2 DEF NextToken
<1>3. ASSUME NEW open, open # <<>>
      PROVE  NextToken([out |-> <<>>, open |-> open], "}", st, shell)
               = [out |-> <<>> \o (IF Known(st, Tail(open)) = <<>> THEN Append(open, "}")
                                   ELSE IF shell THEN ShellQuoted(Known(st, Tail(open))[1])
                                   ELSE Known(st, Tail(open))[1]),
                  open |-> <<>>]
  BY <1>3 DEF NextToken
<1>4. QED
  BY <1>1, <1>2, <1>3, Zenon DEF Turns

Bracing(W) == Specials \subseteq W /\ "{" \in W /\ "}" \in W
Braceless(key) == \A k \in DOMAIN key : key[k] # "}"

\* What a placeholder becomes: the task, or the variable of its name, or itself
\* (render_with), whatever the name and the values are.
LEMMA PlaceholdersArePutIn ==
  ASSUME NEW W, Bracing(W), NEW st, Knows(st, W),
         NEW key \in Seq(W), Braceless(key)
  PROVE  PutIn(key, st)
<1> DEFINE n == Len(key)
           t == <<"{">> \o key \o <<"}">>
           p(k) == Upon("{", key, k)
           f == Rendering(t, st, FALSE)
           value == Known(st, key)
           put == IF value = <<>> THEN t ELSE value[1]
           State(open) == [out |-> <<>>, open |-> open]
<1>1. "{" \in W /\ "}" \in W /\ Specials \subseteq W
  BY Zenon DEF Bracing
<1>2. BracketSo("{", key, "}", W)
  BY <1>1, BracketFacts
<1>0. n \in Nat /\ Len(t) = n + 2
  BY <1>2, Zenon DEF BracketSo
<1>3. /\ t \in Seq(W) /\ n \in Nat /\ Len(t) = n + 2
      /\ t[1] = "{" /\ t[n + 2] = "}"
      /\ \A k \in 1..n : t[1 + k] = key[k]
      /\ p(0) = <<"{">> /\ p(n) = <<"{">> \o key
      /\ \A k \in 0..n : p(k) # <<>>
      /\ \A k \in 1..n : Append(p(k - 1), key[k]) = p(k)
      /\ Tail(<<"{">> \o key) = key
      /\ Append(<<"{">> \o key, "}") = t
  BY <1>2, Zenon DEF BracketSo
<1>4. /\ f[0] = State(<<>>)
      /\ \A k \in 1..Len(t) : f[k] = NextToken(f[k - 1], t[k], st, FALSE)
  <2>1. RenderingSo(t, st, FALSE, W)
    BY <1>1, <1>3, RenderingFacts
  <2> HIDE DEF t
  <2>2. QED
    BY <2>1, Zenon DEF RenderingSo
<1>5. /\ NextToken(State(<<>>), "{", st, FALSE) = State(<<"{">>)
      /\ \A open, c : open # <<>> /\ c # "}" => NextToken(State(open), c, st, FALSE) = State(Append(open, c))
      /\ \A open : open # <<>> =>
           NextToken(State(open), "}", st, FALSE)
             = [out |-> <<>> \o (IF Known(st, Tail(open)) = <<>> THEN Append(open, "}")
                                 ELSE IF FALSE THEN ShellQuoted(Known(st, Tail(open))[1])
                                 ELSE Known(st, Tail(open))[1]),
                open |-> <<>>]
  <2>1. Turns(st, FALSE)
    BY TurnsFacts
  <2>2. QED
    BY <2>1 DEF Turns
<1>6. put \in Seq(W)
  <2>1. CASE value = <<>>
    BY <1>3, <2>1, Zenon
  <2>2. CASE value # <<>>
    <3>1. PICK v \in Seq(W) : value = <<v>>
      BY <2>2, Zenon DEF Knows
    <3> HIDE DEF value, t
    <3>2. QED
      BY <2>2, <3>1
  <2>3. QED
    BY <2>1, <2>2
<1> HIDE DEF n, t, p, f, State
<1> DEFINE Good == {k \in 0..n : f[1 + k] = State(p(k))}
<1>7. 0 \in Good
  <2>1. 1 \in 1..Len(t) /\ 1 - 1 = 0 /\ 1 + 0 = 1 /\ 0 \in 0..n
    BY <1>0
  <2>2. f[1] = NextToken(f[1 - 1], t[1], st, FALSE)
    BY <1>4, <2>1, Zenon
  <2>3. t[1] = "{" /\ p(0) = <<"{">> /\ f[0] = State(<<>>)
    BY <1>3, <1>4, Zenon
  <2>4. f[1] = State(p(0))
    <3>1. f[1 - 1] = State(<<>>)
      BY <2>1, <2>3, Zenon
    <3>2. f[1] = NextToken(State(<<>>), "{", st, FALSE)
      BY <2>2, <2>3, <3>1, Zenon
    <3>3. QED
      BY <1>5, <2>3, <3>2, Zenon
  <2>5. QED
    BY <2>1, <2>4, Zenon
<1>8. ASSUME NEW k \in 1..n, k - 1 \in Good PROVE k \in Good
  <2>1. 1 + k \in 1..Len(t) /\ (1 + k) - 1 = 1 + (k - 1) /\ k \in 0..n /\ k - 1 \in 0..n
    BY <1>0
  <2>2. f[1 + (k - 1)] = State(p(k - 1))
    BY <1>8
  <2>3. f[1 + k] = NextToken(State(p(k - 1)), key[k], st, FALSE)
    <3>1. f[1 + k] = NextToken(f[(1 + k) - 1], t[1 + k], st, FALSE)
      BY <1>4, <2>1, Zenon
    <3>2. t[1 + k] = key[k]
      BY <1>3, Zenon
    <3>3. f[(1 + k) - 1] = State(p(k - 1))
      BY <2>1, <2>2, Zenon
    <3>4. QED
      BY <3>1, <3>2, <3>3, Zenon
  <2>4. key[k] # "}"
    <3>1. k \in DOMAIN key
      BY DEF n
    <3>2. QED
      BY <3>1, Zenon DEF Braceless
  <2>5. NextToken(State(p(k - 1)), key[k], st, FALSE) = State(Append(p(k - 1), key[k]))
    BY <1>3, <1>5, <2>1, <2>4, Zenon
  <2>6. f[1 + k] = State(p(k))
    BY <1>3, <2>3, <2>5, Zenon
  <2>7. QED
    BY <2>1, <2>6
<1>9. f[1 + n] = State(p(n))
  <2> HIDE DEF Good
  <2>1. \A k \in 0..n : k \in Good
    BY <1>3, <1>7, <1>8, Climb
  <2>2. n \in 0..n
    BY <1>0
  <2>3. QED
    BY <2>1, <2>2, Zenon DEF Good
<1>10. f[n + 2] = [out |-> <<>> \o put, open |-> <<>>]
  <2>1. n + 2 \in 1..Len(t) /\ (n + 2) - 1 = 1 + n /\ n \in 0..n
    BY <1>0
  <2>2. f[n + 2] = NextToken(State(p(n)), "}", st, FALSE)
    BY <1>3, <1>4, <1>9, <2>1, Zenon
  <2>3. p(n) # <<>> /\ Tail(p(n)) = key /\ Append(p(n), "}") = t
    BY <1>3, <2>1, Zenon
  <2>4. NextToken(State(p(n)), "}", st, FALSE)
          = [out |-> <<>> \o (IF Known(st, key) = <<>> THEN t ELSE Known(st, key)[1]), open |-> <<>>]
    BY <1>5, <2>3, Zenon
  <2>5. QED
    BY <2>2, <2>4, Zenon
<1>11. Render(t, st, FALSE) = put
  <2>1. Render(t, st, FALSE) = f[n + 2].out \o f[n + 2].open
    BY <1>3, Zenon DEF Render, f
  <2> HIDE DEF put
  <2>2. <<>> \o put = put /\ put \o <<>> = put
    BY <1>6, ConcatEmptySeq
  <2>3. f[n + 2].out = <<>> \o put /\ f[n + 2].open = <<>>
    <3> DEFINE out == <<>> \o put
    <3> HIDE DEF out
    <3>1. f[n + 2] = [out |-> out, open |-> <<>>]
      BY <1>10, Zenon DEF out
    <3>2. f[n + 2].out = out /\ f[n + 2].open = <<>>
      BY <3>1
    <3>3. QED
      BY <3>2, Zenon DEF out
  <2>4. QED
    BY <2>1, <2>2, <2>3, Zenon
<1>12. put = IF key = <<"task">> THEN st.task
             ELSE IF key \in DOMAIN st.vars THEN st.vars[key] ELSE t
  <2>1. CASE key = <<"task">>
    BY <2>1 DEF Known
  <2>2. CASE key # <<"task">> /\ key \in DOMAIN st.vars
    BY <2>2 DEF Known
  <2>3. CASE key # <<"task">> /\ key \notin DOMAIN st.vars
    BY <2>3, Zenon DEF Known
  <2>4. QED
    BY <2>1, <2>2, <2>3
<1>13. QED
  BY <1>11, <1>12, Zenon DEF PutIn, t

-----------------------------------------------------------------------------
(* The network an agent is reached on.                                     *)

\* The networks that have an address, and the least of some names.
Reachable(nets) == {nets[i].name : i \in {j \in DOMAIN nets : nets[j].up}}
LeastOf(names) == CHOOSE n \in names : \A o \in names : n <= o

\* The least of the networks that are up is one of them.
LEMMA EndpointFacts ==
  ASSUME NEW nets \in Seq([name : Nat, up : BOOLEAN])
  PROVE  /\ Endpoint(nets) = IF Reachable(nets) = {} THEN <<>> ELSE <<LeastOf(Reachable(nets))>>
         /\ Reachable(nets) = {net.name : net \in {x \in ToSet(nets) : x.up}}
         /\ Reachable(nets) # {} => /\ LeastOf(Reachable(nets)) \in Reachable(nets)
                                    /\ \A o \in Reachable(nets) : LeastOf(Reachable(nets)) <= o
         /\ Reachable(nets) \subseteq Nat
<1> DEFINE R == Reachable(nets)
<1>1. Endpoint(nets) = IF R = {} THEN <<>> ELSE <<LeastOf(R)>>
  BY Zenon DEF Endpoint, Reachable, LeastOf
<1>2. R = {net.name : net \in {x \in ToSet(nets) : x.up}}
  BY DEF Reachable, ToSet
<1>3. R \subseteq Nat
  <2> DEFINE N == [name : Nat, up : BOOLEAN]
  <2>1. \A i \in DOMAIN nets : nets[i] \in N
    <3>1. nets \in Seq(N)
      OBVIOUS
    <3> HIDE DEF N, R
    <3>2. QED
      BY <3>1, ElementOfSeq, LenProperties
  <2>2. \A i \in DOMAIN nets : nets[i].name \in Nat
    BY <2>1
  <2>3. QED
    BY <2>2, Zenon DEF Reachable
<1> HIDE DEF R
<1>4. ASSUME R # {} PROVE LeastOf(R) \in R /\ \A o \in R : LeastOf(R) <= o
  <2>1. \E n \in R : \A o \in R : n <= o
    BY <1>3, <1>4, LeastNat
  <2>2. QED
    BY <2>1, Zenon DEF LeastOf
<1>5. QED
  BY <1>1, <1>2, <1>3, <1>4, Zenon DEF R

\* Which network an agent is reached on does not depend on the order they come in
\* (endpoint), whatever networks there are.
THEOREM EndpointsAreTheSame ==
  ASSUME NEW a \in Seq([name : Nat, up : BOOLEAN]), NEW b \in Seq([name : Nat, up : BOOLEAN])
  PROVE  SameEndpoint(a, b)
<1> DEFINE R(nets) == Reachable(nets)
           L(nets) == LeastOf(R(nets))
<1>1. ToSet(a) = ToSet(b) => Endpoint(a) = Endpoint(b)
  <2>1. ASSUME ToSet(a) = ToSet(b) PROVE R(a) = R(b)
    BY <2>1, EndpointFacts, Zenon
  <2>2. QED
    BY <2>1, EndpointFacts, Zenon
<1>2. Endpoint(a) = IF R(a) = {} THEN <<>> ELSE <<L(a)>>
  BY EndpointFacts
<1>3. /\ R(a) \subseteq Nat
      /\ R(a) # {} => L(a) \in R(a) /\ \A o \in R(a) : L(a) <= o
  BY EndpointFacts
<1>4. /\ \A x \in R(a) : \E i \in DOMAIN a : a[i].up /\ x = a[i].name
      /\ \A i \in DOMAIN a : a[i].up => a[i].name \in R(a)
  BY DEF Reachable
<1> HIDE DEF R, L
<1>5. Endpoint(a) = <<>> <=> R(a) = {}
  BY <1>2
<1>6. R(a) = {} <=> \A i \in DOMAIN a : ~a[i].up
  BY <1>4
<1>7. Endpoint(a) # <<>> => \E i \in DOMAIN a : a[i].up /\ Endpoint(a) = <<a[i].name>>
  <2> HAVE Endpoint(a) # <<>>
  <2>1. L(a) \in R(a) /\ Endpoint(a) = <<L(a)>>
    BY <1>2, <1>3, <1>5, Zenon
  <2>2. PICK i \in DOMAIN a : a[i].up /\ L(a) = a[i].name
    BY <1>4, <2>1, Zenon
  <2>3. QED
    BY <2>1, <2>2, Zenon
<1>8. (\E i \in DOMAIN a : a[i].up /\ a[i].name = 0) => Endpoint(a) = <<0>>
  <2> HAVE \E i \in DOMAIN a : a[i].up /\ a[i].name = 0
  <2>1. 0 \in R(a)
    BY <1>4
  <2>2. L(a) <= 0 /\ L(a) \in Nat
    BY <1>3, <2>1
  <2>3. L(a) = 0
    BY <2>2
  <2>4. QED
    BY <1>2, <2>1, <2>3
<1>9. QED
  BY <1>1, <1>5, <1>6, <1>7, <1>8, Zenon DEF SameEndpoint

-----------------------------------------------------------------------------
(* What nodes ask for and what they make of silence.                       *)

\* What is in sequences put together is what is in each of them.
LEMMA RangeOfJoined ==
  ASSUME NEW A, NEW a \in Seq(A), NEW b \in Seq(A)
  PROVE  ToSet(a \o b) = ToSet(a) \cup ToSet(b)
<1> DEFINE m == Len(a)
           n == Len(b)
           c == a \o b
<1>1. c \in Seq(A) /\ Len(c) = m + n /\ \A i \in 1..(m + n) : c[i] = IF i <= m THEN a[i] ELSE b[i - m]
  BY ConcatProperties
<1>2. m \in Nat /\ n \in Nat /\ DOMAIN a = 1..m /\ DOMAIN b = 1..n
  OBVIOUS
<1>3. DOMAIN c = 1..(m + n)
  BY <1>1
<1>4. /\ ToSet(a) = {a[i] : i \in 1..m} /\ ToSet(b) = {b[i] : i \in 1..n}
      /\ ToSet(c) = {c[i] : i \in 1..(m + n)}
  <2> HIDE DEF m, n, c
  <2>1. QED
    BY <1>2, <1>3, Zenon DEF ToSet
<1> HIDE DEF m, n, c
<1>5. ASSUME NEW i \in 1..(m + n)
      PROVE  \/ i \in 1..m /\ c[i] = a[i]
             \/ i - m \in 1..n /\ c[i] = b[i - m]
  BY <1>1, <1>2
<1>6. ASSUME NEW i \in 1..m PROVE i \in 1..(m + n) /\ c[i] = a[i]
  BY <1>1, <1>2
<1>7. ASSUME NEW i \in 1..n PROVE m + i \in 1..(m + n) /\ c[m + i] = b[i]
  <2>1. m + i \in 1..(m + n) /\ ~(m + i <= m) /\ (m + i) - m = i
    BY <1>2
  <2>2. QED
    BY <1>1, <2>1
<1>8. ToSet(c) \subseteq ToSet(a) \cup ToSet(b)
  BY <1>4, <1>5, Zenon
<1>9. ToSet(a) \subseteq ToSet(c)
  BY <1>4, <1>6, Zenon
<1>10. ToSet(b) \subseteq ToSet(c)
  <2> SUFFICES ASSUME NEW i \in 1..n PROVE b[i] \in ToSet(c)
    BY <1>4, Zenon
  <2>1. QED
    BY <1>4, <1>7, Zenon
<1>11. QED
  BY <1>8, <1>9, <1>10, Zenon DEF c

\* What a flattened sequence holds is what its parts hold.
LEMMA RangeOfFlat ==
  ASSUME NEW A, NEW n \in Nat, NEW f \in [1..n -> Seq(A)]
  PROVE  ToSet(FlattenSeq(f)) = UNION {ToSet(f[i]) : i \in 1..n}
<1>1. PICK g : Together(g, A, n, f) /\ FlattenSeq(f) = g[n]
  BY FlattenFacts
<1>2. (\A k \in 0..n : g[k] \in Seq(A)) /\ g[0] = <<>> /\ \A k \in 1..n : g[k] = g[k - 1] \o f[k]
  BY <1>1 DEF Together
<1> DEFINE Upto(k) == UNION {ToSet(f[i]) : i \in 1..k}
           Good == {k \in 0..n : ToSet(g[k]) = Upto(k)}
<1>3. 0 \in Good
  <2>1. ToSet(g[0]) = {}
    BY <1>2 DEF ToSet
  <2>2. Upto(0) = {}
    OBVIOUS
  <2>3. QED
    BY <2>1, <2>2
<1>4. ASSUME NEW k \in 1..n, k - 1 \in Good PROVE k \in Good
  <2>1. k \in 0..n /\ k - 1 \in 0..n /\ k \in Nat /\ 1..k = 1..(k - 1) \cup {k}
    OBVIOUS
  <2>2. g[k] = g[k - 1] \o f[k] /\ g[k - 1] \in Seq(A) /\ f[k] \in Seq(A)
    BY <1>2, <2>1
  <2>3. ToSet(g[k]) = ToSet(g[k - 1]) \cup ToSet(f[k])
    BY <2>2, RangeOfJoined
  <2>4. ToSet(g[k - 1]) = Upto(k - 1)
    BY <1>4
  <2>5. Upto(k) = Upto(k - 1) \cup ToSet(f[k])
    BY <2>1, Zenon
  <2>6. QED
    BY <2>1, <2>3, <2>4, <2>5, Zenon
<1>5. n \in Good
  <2> HIDE DEF Good
  <2>1. \A k \in 0..n : k \in Good
    BY <1>3, <1>4, Climb
  <2>2. n \in 0..n
    OBVIOUS
  <2>3. QED
    BY <2>1, <2>2
<1>6. QED
  BY <1>1, <1>5, Zenon

\* A person who says nothing, or is not there, has approved nothing (HumanNode::run),
\* whatever the node is called and asks.
THEOREM SilenceDeclines == \A worker, st, world : SilenceIsNoApproval(worker, st, world)
<1> TAKE worker, st, world
<1> DEFINE updates == Run(worker, st, world).updates
<1> SUFFICES ASSUME worker.kind = "human", worker.approval,
                    world.hard \/ \A i \in DOMAIN world.text : world.text[i] = " "
             PROVE  updates = <<>> \/ updates[1].status = "failed"
  BY Zenon DEF SilenceIsNoApproval
<1>1. updates = HumanRun(worker, st, world).updates
  BY DEF Run
<1>2. CASE world.hard
  BY <1>1, <1>2 DEF HumanRun, Asks, Unless
<1>3. CASE ~world.hard
  <2>1. \A i \in DOMAIN world.text : world.text[i] \notin {"y", "yes", "Yes", "ok"}
    BY <1>3
  <2>2. ~Affirmative(world.text)
    BY <2>1, Zenon DEF Affirmative
  <2>3. updates = <<From(worker.name, <<"declined">>, FALSE)>>
    BY <1>1, <1>3, <2>2 DEF HumanRun, Asks, Unless
  <2>4. QED
    <3> DEFINE x == From(worker.name, <<"declined">>, FALSE)
    <3>1. x.status = "failed"
      BY DEF From
    <3>2. updates = <<x>>
      BY <2>3
    <3> HIDE DEF x, updates
    <3>3. updates[1] = x
      BY <3>2
    <3>4. QED
      BY <3>1, <3>3, Zenon DEF updates
<1>4. QED
  BY <1>2, <1>3

\* What sequences of none and of one hold.
LEMMA ToldOnce ==
  /\ ToSet(<<>>) = {} /\ \A x : ToSet(<<x>>) = {x}
BY DEF ToSet

\* The variables of a container: those of the process, a blank one being none,
\* before those of the configuration.
ForwardedSo(env, process, defaults) ==
  LET own == {v \in ToSet(env) \cap DOMAIN process : process[v] # " "}
  IN  ToSet(Forwarded(env, process, defaults))
        = {<<v, process[v]>> : v \in own}
            \cup {<<v, defaults[v]>> : v \in (ToSet(env) \cap DOMAIN defaults) \ own}

\* Variable by variable (resolve_env).
LEMMA ForwardedFacts ==
  ASSUME NEW S, NEW env \in Seq(S), NEW process, NEW defaults
  PROVE  ForwardedSo(env, process, defaults)
<1> DEFINE n == Len(env)
           own == {v \in ToSet(env) \cap DOMAIN process : process[v] # " "}
           A == {<<v, process[v]>> : v \in DOMAIN process} \cup {<<v, defaults[v]>> : v \in DOMAIN defaults}
           R(v) == Resolved(v, process, defaults)
           f == [i \in DOMAIN env |-> R(env[i])]
           mine == {<<v, process[v]>> : v \in own}
           theirs == {<<v, defaults[v]>> : v \in (ToSet(env) \cap DOMAIN defaults) \ own}
<1>1. n \in Nat /\ DOMAIN env = 1..n
  OBVIOUS
<1>2. ASSUME NEW v PROVE R(v) \in Seq(A)
  <2>1. CASE v \in DOMAIN process /\ process[v] # " "
    <3>1. R(v) = <<<<v, process[v]>>>>
      BY <2>1, Zenon DEF Resolved
    <3>2. <<v, process[v]>> \in A
      BY <2>1, Zenon
    <3> HIDE DEF A, R
    <3>3. QED
      BY <3>1, <3>2, OneSeq
  <2>2. CASE ~(v \in DOMAIN process /\ process[v] # " ") /\ v \in DOMAIN defaults
    <3>1. R(v) = <<<<v, defaults[v]>>>>
      BY <2>2, Zenon DEF Resolved
    <3>2. <<v, defaults[v]>> \in A
      BY <2>2, Zenon
    <3> HIDE DEF A, R
    <3>3. QED
      BY <3>1, <3>2, OneSeq
  <2>3. CASE ~(v \in DOMAIN process /\ process[v] # " ") /\ v \notin DOMAIN defaults
    <3>1. R(v) = <<>>
      BY <2>3, Zenon DEF Resolved
    <3> HIDE DEF A, R
    <3>2. QED
      BY <3>1, NoneIsASeq
  <2>4. QED
    BY <2>1, <2>2, <2>3
<1>3. ASSUME NEW v \in ToSet(env)
      PROVE  ToSet(R(v)) = IF v \in own THEN {<<v, process[v]>>}
                           ELSE IF v \in DOMAIN defaults THEN {<<v, defaults[v]>>} ELSE {}
  <2>1. CASE v \in own
    <3>1. R(v) = <<<<v, process[v]>>>>
      BY <2>1, Zenon DEF Resolved
    <3>2. QED
      BY <2>1, <3>1, ToldOnce, Zenon
  <2>2. CASE v \notin own /\ v \in DOMAIN defaults
    <3>1. R(v) = <<<<v, defaults[v]>>>>
      BY <2>2, Zenon DEF Resolved
    <3>2. QED
      BY <2>2, <3>1, ToldOnce, Zenon
  <2>3. CASE v \notin own /\ v \notin DOMAIN defaults
    <3>1. R(v) = <<>>
      BY <2>3, Zenon DEF Resolved
    <3>2. QED
      BY <2>3, <3>1, ToldOnce, Zenon
  <2>4. QED
    BY <2>1, <2>2, <2>3
<1>4. ToSet(Forwarded(env, process, defaults)) = UNION {ToSet(R(env[i])) : i \in 1..n}
  <2>1. f \in [1..n -> Seq(A)]
    <3> HIDE DEF A, R, n
    <3>1. QED
      BY <1>1, <1>2
  <2>2. ToSet(FlattenSeq(f)) = UNION {ToSet(f[i]) : i \in 1..n}
    <3> HIDE DEF f, A, n
    <3>1. QED
      BY <1>1, <2>1, RangeOfFlat
  <2>3. \A i \in 1..n : f[i] = R(env[i])
    BY <1>1, Zenon
  <2>4. Forwarded(env, process, defaults) = FlattenSeq(f)
    BY Zenon DEF Forwarded
  <2> HIDE DEF f, R
  <2>5. QED
    BY <2>2, <2>3, <2>4, Zenon
<1>5. ToSet(env) = {env[i] : i \in 1..n}
  BY <1>1, Zenon DEF ToSet
<1> HIDE DEF R, n, A
<1>6. UNION {ToSet(R(env[i])) : i \in 1..n} = UNION {ToSet(R(v)) : v \in ToSet(env)}
  BY <1>5, Zenon
<1>7. UNION {ToSet(R(v)) : v \in ToSet(env)} \subseteq mine \cup theirs
  <2> SUFFICES ASSUME NEW v \in ToSet(env), NEW x \in ToSet(R(v)) PROVE x \in mine \cup theirs
    BY Zenon
  <2>1. CASE v \in own
    BY <1>3, <2>1, Zenon
  <2>2. CASE v \notin own /\ v \in DOMAIN defaults
    BY <1>3, <2>2, Zenon
  <2>3. CASE v \notin own /\ v \notin DOMAIN defaults
    BY <1>3, <2>3, Zenon
  <2>4. QED
    BY <2>1, <2>2, <2>3
<1>8. mine \cup theirs \subseteq UNION {ToSet(R(v)) : v \in ToSet(env)}
  <2>1. ASSUME NEW v \in own PROVE v \in ToSet(env) /\ <<v, process[v]>> \in ToSet(R(v))
    BY <1>3, Zenon
  <2>2. ASSUME NEW v \in (ToSet(env) \cap DOMAIN defaults) \ own
        PROVE  v \in ToSet(env) /\ <<v, defaults[v]>> \in ToSet(R(v))
    BY <1>3, Zenon
  <2> DEFINE all == UNION {ToSet(R(v)) : v \in ToSet(env)}
  <2>3. \A v \in ToSet(env) : \A x : x \in ToSet(R(v)) => x \in all
    BY Zenon
  <2> HIDE DEF own, all
  <2>4. mine \subseteq all
    BY <2>1, <2>3, Zenon
  <2>5. theirs \subseteq all
    BY <2>2, <2>3, Zenon
  <2> HIDE DEF mine, theirs
  <2>6. QED
    BY <2>4, <2>5, Zenon DEF all
<1>9. QED
  BY <1>4, <1>6, <1>7, <1>8, Zenon DEF ForwardedSo

\* A container is provisioned for the image as rendered, with the variables asked
\* for (ProvisionNode::run, resolve_env), whatever they are.
THEOREM ContainersAreProvisioned ==
  ASSUME NEW S, NEW worker, worker.env \in Seq(S), NEW st, NEW world
  PROVE  ProvisionsAsAsked(worker, st, world)
<1> DEFINE asked == Run(worker, st, world).asked
           own   == {v \in ToSet(worker.env) \cap DOMAIN worker.process : worker.process[v] # " "}
<1> SUFFICES ASSUME worker.kind = "provision"
             PROVE  /\ asked[1] = Render(worker.prompt, st, FALSE)
                    /\ ToSet(asked[2]) = {<<v, worker.process[v]>> : v \in own}
                         \cup {<<v, worker.defaults[v]>> : v \in (ToSet(worker.env) \cap DOMAIN worker.defaults) \ own}
  BY Zenon DEF ProvisionsAsAsked
<1>1. asked = <<Render(worker.prompt, st, FALSE),
                Forwarded(worker.env, worker.process, worker.defaults)>>
  BY DEF Run, ProvisionRun, Asks
<1>2. /\ asked[1] = Render(worker.prompt, st, FALSE)
      /\ asked[2] = Forwarded(worker.env, worker.process, worker.defaults)
  BY <1>1
<1>3. ForwardedSo(worker.env, worker.process, worker.defaults)
  BY ForwardedFacts
<1>4. QED
  BY <1>2, <1>3, Zenon DEF ForwardedSo

-----------------------------------------------------------------------------
(* The output of commands.                                                 *)

\* How wide a text is, character by character.
WidthsSo(text) ==
  /\ \A k \in 0..Len(text) : Widths(text)[k] \in Nat
  /\ Widths(text)[0] = 0
  /\ \A k \in 1..Len(text) : Widths(text)[k] = Widths(text)[k - 1] + text[k]

\* The widths of a text add up character by character.
LEMMA WidthsFacts ==
  ASSUME NEW text \in Seq(Nat)
  PROVE  WidthsSo(text)
<1> DEFINE n == Len(text)
           moves == [k \in 1..n |-> [a \in Nat |-> a + text[k]]]
           Is(h) == h = [k \in 0..n |-> IF k = 0 THEN 0 ELSE h[k - 1] + text[k]]
<1>1. n \in Nat /\ \A k \in 1..n : text[k] \in Nat
  OBVIOUS
<1> HIDE DEF n
<1>2. moves \in [1..n -> [Nat -> Nat]]
  BY <1>1
<1>3. PICK g : Follows(g, Nat, 0, n, moves)
  <2> HIDE DEF moves
  <2>1. QED
    BY <1>1, <1>2, RecursionExists
<1>4. g \in [0..n -> Nat] /\ g[0] = 0 /\ \A k \in 1..n : g[k] = moves[k][g[k - 1]]
  <2> HIDE DEF moves
  <2>1. QED
    BY <1>3 DEF Follows
<1>5. \A k \in 1..n : g[k] = g[k - 1] + text[k]
  <2> TAKE k \in 1..n
  <2>1. g[k - 1] \in Nat
    BY <1>1, <1>4
  <2>2. QED
    BY <1>4, <2>1
<1>6. Is(g)
  <2> HIDE DEF moves
  <2>1. g = [k \in 0..n |-> g[k]]
    BY <1>4
  <2>2. \A k \in 0..n : g[k] = IF k = 0 THEN 0 ELSE g[k - 1] + text[k]
    BY <1>1, <1>4, <1>5
  <2>3. QED
    BY <2>1, <2>2
<1> DEFINE h == Widths(text)
<1>7. h = CHOOSE x : Is(x)
  BY DEF Widths, n
<1>8. Is(h)
  <2> HIDE DEF Is, h
  <2>1. QED
    BY <1>6, <1>7, Zenon
<1> HIDE DEF moves, h
<1>9. h[0] = 0 /\ \A k \in 1..n : h[k] = h[k - 1] + text[k]
  BY <1>1, <1>8
<1> DEFINE Good == {k \in 0..n : h[k] \in Nat}
<1>10. 0 \in Good
  BY <1>1, <1>9
<1>11. \A k \in 1..n : k - 1 \in Good => k \in Good
  BY <1>1, <1>9
<1>12. \A k \in 0..n : h[k] \in Nat
  <2> HIDE DEF Good
  <2>1. \A k \in 0..n : k \in Good
    BY <1>1, <1>10, <1>11, Climb
  <2>2. QED
    BY <2>1 DEF Good
<1>13. QED
  BY <1>9, <1>12, Zenon DEF WidthsSo, h, n

\* A text that begins like another is as wide as it, as far as they agree.
LEMMA WidthsAgree ==
  ASSUME NEW a \in Seq(Nat), NEW c \in Seq(Nat), NEW n \in Nat, n <= Len(a), n <= Len(c),
         \A i \in 1..n : c[i] = a[i]
  PROVE  \A k \in 0..n : Widths(c)[k] = Widths(a)[k]
<1> DEFINE Good == {k \in 0..n : Widths(c)[k] = Widths(a)[k]}
<1>1. /\ Widths(a)[0] = 0 /\ \A k \in 1..Len(a) : Widths(a)[k] = Widths(a)[k - 1] + a[k]
      /\ Widths(c)[0] = 0 /\ \A k \in 1..Len(c) : Widths(c)[k] = Widths(c)[k - 1] + c[k]
  BY WidthsFacts, Zenon DEF WidthsSo
<1>2. 0 \in Good
  BY <1>1
<1>3. ASSUME NEW k \in 1..n, k - 1 \in Good PROVE k \in Good
  <2>1. k \in 1..Len(a) /\ k \in 1..Len(c) /\ k \in 0..n
    OBVIOUS
  <2>2. QED
    BY <1>1, <1>3, <2>1
<1> HIDE DEF Good
<1>4. \A k \in 0..n : k \in Good
  BY <1>2, <1>3, Climb
<1>5. QED
  BY <1>4 DEF Good

\* Two texts side by side.
LEMMA WidthsJoin ==
  ASSUME NEW a \in Seq(Nat), NEW b \in Seq(Nat)
  PROVE  /\ \A k \in 0..Len(a) : Widths(a \o b)[k] = Widths(a)[k]
         /\ \A k \in 0..Len(b) : Widths(a \o b)[Len(a) + k] = Width(a) + Widths(b)[k]
<1> DEFINE m == Len(a)
           n == Len(b)
           c == a \o b
<1>1. /\ c \in Seq(Nat) /\ m \in Nat /\ n \in Nat /\ Len(c) = m + n
      /\ \A i \in 1..m : c[i] = a[i]
      /\ \A i \in 1..n : m + i \in 1..Len(c) /\ c[m + i] = b[i]
  BY Meet, SMTT(40)
<1> HIDE DEF c
<1>2. \A k \in 0..m : Widths(c)[k] = Widths(a)[k]
  <2>1. m <= Len(a) /\ m <= Len(c)
    BY <1>1
  <2> HIDE DEF m, n
  <2>2. QED
    BY <1>1, <2>1, WidthsAgree
<1>3. /\ \A k \in 0..n : Widths(b)[k] \in Nat
      /\ Widths(b)[0] = 0 /\ \A k \in 1..n : Widths(b)[k] = Widths(b)[k - 1] + b[k]
  BY WidthsFacts, Zenon DEF WidthsSo
<1>4. \A k \in 1..Len(c) : Widths(c)[k] = Widths(c)[k - 1] + c[k]
  BY <1>1, WidthsFacts, Zenon DEF WidthsSo
<1>5. \A k \in 0..m : Widths(a)[k] \in Nat
  BY WidthsFacts, Zenon DEF WidthsSo
<1> DEFINE w == Width(a)
           Good == {k \in 0..n : Widths(c)[m + k] = w + Widths(b)[k]}
<1>6. w \in Nat /\ Widths(c)[m] = w
  <2>1. m \in 0..m
    BY <1>1
  <2>2. QED
    BY <1>2, <1>5, <2>1 DEF Width
<1>7. \A i \in 1..n : b[i] \in Nat
  OBVIOUS
<1> HIDE DEF m, n, w
<1>8. 0 \in Good
  BY <1>1, <1>3, <1>6
<1>9. ASSUME NEW k \in 1..n, k - 1 \in Good PROVE k \in Good
  <2>1. m + k \in 1..Len(c) /\ (m + k) - 1 = m + (k - 1) /\ k \in 0..n /\ k - 1 \in 0..n
    BY <1>1
  <2>2. Widths(c)[m + k] = Widths(c)[m + (k - 1)] + b[k]
    BY <1>1, <1>4, <2>1
  <2>3. Widths(c)[m + (k - 1)] = w + Widths(b)[k - 1]
    BY <1>9
  <2>4. Widths(b)[k] = Widths(b)[k - 1] + b[k] /\ Widths(b)[k - 1] \in Nat /\ b[k] \in Nat
    BY <1>3, <1>7, <2>1
  <2>5. Widths(c)[m + k] = w + Widths(b)[k]
    BY <1>6, <2>2, <2>3, <2>4
  <2>6. QED
    BY <2>1, <2>5
<1>10. \A k \in 0..n : k \in Good
  <2> HIDE DEF Good
  <2>1. QED
    BY <1>1, <1>8, <1>9, Climb
<1>11. QED
  BY <1>2, <1>10 DEF m, n, c, w

\* What holds of some numbers up to n holds of a greatest one.
LEMMA GreatestNat ==
  ASSUME NEW n \in Nat, NEW T, T \subseteq 0..n, T # {}
  PROVE  \E x \in T : \A y \in T : y <= x
<1> DEFINE D == {n - x : x \in T}
<1>1. \A x \in T : x \in Nat /\ x <= n /\ n - x \in Nat
  OBVIOUS
<1>2. D \subseteq Nat /\ D # {}
  BY <1>1, Zenon
<1>3. PICK d \in D : \A e \in D : d <= e
  <2> HIDE DEF D
  <2>1. QED
    BY <1>2, LeastNat
<1>4. PICK x \in T : d = n - x
  BY Zenon
<1>5. ASSUME NEW y \in T PROVE y <= x
  <2>1. n - y \in D
    BY Zenon
  <2>2. n - x <= n - y
    BY <1>3, <1>4, <2>1, Zenon
  <2>3. QED
    BY <1>1, <2>2
<1>6. QED
  BY <1>5

\* Of a chunk, as many characters as the room left allows, and no fewer.
Chars == Nat \ {0}
Got(max) == {x \in [kept : Seq(Chars), cut : BOOLEAN] : Width(x.kept) <= max}
CaptureSo(got, chunk, max) ==
  \E n \in 0..Len(chunk) :
    /\ Capture(got, chunk, max).kept = got.kept \o SubSeq(chunk, 1, n)
    /\ Capture(got, chunk, max).cut <=> Room(got.kept, max) = 0 \/ got.cut \/ n < Len(chunk)
    /\ Widths(chunk)[n] <= Room(got.kept, max)
    /\ n < Len(chunk) => Widths(chunk)[n + 1] > Room(got.kept, max)
    /\ Capture(got, chunk, max) \in Got(max)

\* Characters have widths, and so have texts of them.
LEMMA CharsAreWide ==
  ASSUME NEW a \in Seq(Chars)
  PROVE  a \in Seq(Nat) /\ Width(a) \in Nat /\ \A i \in 1..Len(a) : a[i] \in Nat /\ a[i] > 0
<1>1. \A i \in 1..Len(a) : a[i] \in Chars
  OBVIOUS
<1>2. \A i \in 1..Len(a) : a[i] \in Nat /\ a[i] > 0
  BY <1>1 DEF Chars
<1>3. a \in Seq(Nat)
  BY <1>2
<1>4. Len(a) \in 0..Len(a)
  BY <1>3
<1>5. Width(a) \in Nat
  BY <1>3, <1>4, WidthsFacts, Zenon DEF WidthsSo, Width
<1>6. QED
  BY <1>2, <1>3, <1>5

\* One chunk: the longest front that fits is kept (append_capped).
LEMMA CaptureFacts ==
  ASSUME NEW max \in Nat, NEW got \in Got(max), NEW chunk \in Seq(Chars)
  PROVE  CaptureSo(got, chunk, max)
<1> DEFINE kept == got.kept
           room == Room(kept, max)
           l == Len(chunk)
           fits == {n \in 0..l : Widths(chunk)[n] <= room}
           best == CHOOSE k \in fits : \A j \in fits : j <= k
           piece == SubSeq(chunk, 1, best)
           new == Capture(got, chunk, max)
<1>1. kept \in Seq(Chars) /\ got.cut \in BOOLEAN /\ Width(kept) <= max
  BY DEF Got
<1>2. kept \in Seq(Nat) /\ Width(kept) \in Nat
  <2> HIDE DEF kept
  <2>1. QED
    BY <1>1, CharsAreWide
<1>3. room \in Nat /\ room = max - Width(kept)
  <2> HIDE DEF kept
  <2>1. QED
    BY <1>1, <1>2 DEF Room
<1>4. chunk \in Seq(Nat)
  BY CharsAreWide
<1>5. l \in Nat /\ 0 \in 0..l
  BY <1>4
<1>6. Widths(chunk)[0] = 0
  BY <1>4, WidthsFacts, Zenon DEF WidthsSo
<1>7. best \in fits /\ \A j \in fits : j <= best
  <2>1. 0 \in fits
    BY <1>3, <1>5, <1>6
  <2>2. fits \subseteq 0..l
    BY Zenon
  <2> HIDE DEF fits, l
  <2>3. \E k \in fits : \A j \in fits : j <= k
    BY <1>5, <2>1, <2>2, GreatestNat
  <2>4. QED
    BY <2>3, Zenon
<1>8. new.kept = kept \o piece /\ (new.cut <=> room = 0 \/ got.cut \/ best < l)
      /\ new = [kept |-> kept \o piece, cut |-> IF room = 0 THEN TRUE ELSE got.cut \/ best < l]
  <2>1. new = [kept |-> kept \o piece, cut |-> IF room = 0 THEN TRUE ELSE got.cut \/ best < l]
    BY Zenon DEF Capture
  <2> HIDE DEF room, best, l, piece, kept, new
  <2>2. QED
    BY <2>1
<1> HIDE DEF best
<1>9. best \in 0..l /\ Widths(chunk)[best] <= room
  BY <1>7
<1>10. best < l => Widths(chunk)[best + 1] > room
  <2> HAVE best < l
  <2>1. best + 1 \in 0..l /\ ~(best + 1 <= best)
    BY <1>5, <1>9
  <2>2. ~(Widths(chunk)[best + 1] <= room)
    BY <1>7, <2>1, Zenon
  <2>3. Widths(chunk)[best + 1] \in Nat
    BY <1>4, <2>1, WidthsFacts, Zenon DEF WidthsSo
  <2> HIDE DEF room
  <2>4. QED
    BY <1>3, <2>2, <2>3
<1>11. piece \in Seq(Chars) /\ Len(piece) = best /\ \A i \in 1..best : piece[i] = chunk[i]
  <2> DEFINE C == Chars
  <2> HIDE DEF C
  <2>1. chunk \in Seq(C) /\ best \in 0..Len(chunk)
    BY <1>9 DEF C
  <2>2. SubSeq(chunk, 1, best) \in Seq(C) /\ Len(SubSeq(chunk, 1, best)) = best
        /\ \A i \in 1..best : SubSeq(chunk, 1, best)[i] = chunk[i]
    BY <2>1
  <2>3. QED
    BY <2>2 DEF C
<1> HIDE DEF piece
<1>12. Width(piece) = Widths(chunk)[best]
  <2>1. piece \in Seq(Nat)
    BY <1>11, CharsAreWide
  <2>2. best \in Nat /\ best <= Len(piece) /\ best <= Len(chunk) /\ best \in 0..best
    BY <1>5, <1>9, <1>11
  <2>3. Widths(piece)[best] = Widths(chunk)[best]
    <3>1. \A i \in 1..best : chunk[i] = piece[i]
      BY <1>11
    <3>2. \A k \in 0..best : Widths(chunk)[k] = Widths(piece)[k]
      BY <1>4, <2>1, <2>2, <3>1, WidthsAgree
    <3>3. QED
      BY <2>2, <3>2, Zenon
  <2>4. QED
    BY <1>11, <2>3, Zenon DEF Width
<1>13. kept \o piece \in Seq(Chars) /\ Width(kept \o piece) <= max
  <2> HIDE DEF kept, room
  <2>1. kept \o piece \in Seq(Chars)
    BY <1>1, <1>11, Meet
  <2>2. piece \in Seq(Nat) /\ Width(piece) \in Nat
    BY <1>11, CharsAreWide
  <2>3. Len(piece) \in 0..Len(piece) /\ Len(kept \o piece) = Len(kept) + Len(piece)
    BY <1>2, <2>2
  <2>4. Widths(kept \o piece)[Len(kept) + Len(piece)] = Width(kept) + Widths(piece)[Len(piece)]
    BY <1>2, <2>2, <2>3, WidthsJoin
  <2>5. Width(kept \o piece) = Width(kept) + Width(piece)
    BY <2>3, <2>4, Zenon DEF Width
  <2>6. QED
    BY <1>2, <1>3, <1>9, <1>12, <2>1, <2>2, <2>5
<1>14. new \in Got(max)
  <2> HIDE DEF kept, room, l, new
  <2>1. new.cut \in BOOLEAN
    BY <1>1, <1>8
  <2>2. new \in [kept : Seq(Chars), cut : BOOLEAN] /\ new.kept = kept \o piece
    BY <1>1, <1>8, <1>13
  <2>3. QED
    BY <1>13, <2>2 DEF Got
<1>15. QED
  BY <1>8, <1>9, <1>10, <1>14, Zenon DEF CaptureSo, kept, room, l, piece, new

\* What there is of what was written: without a cut all of it, up to the first cut
\* its beginning; and less than all of it after a cut.
KeptSo(got, all, max) ==
  /\ ~got.cut => got.kept = all
  /\ Len(got.kept) <= Len(all)
  /\ \E p \in 0..Len(got.kept) :
       /\ p <= Len(all) /\ \A i \in 1..p : got.kept[i] = all[i]
       /\ p < Len(all) => Widths(all)[p + 1] > max
LessSo(got, all) == got.cut => Len(got.kept) < Len(all)

\* Two texts that go on as the same chunk does, the first one only so far.
LEMMA PieceFacts ==
  ASSUME NEW A, NEW kept \in Seq(A), NEW all \in Seq(A), NEW chunk \in Seq(A),
         NEW n \in 0..Len(chunk)
  PROVE  /\ kept \o SubSeq(chunk, 1, n) \in Seq(A) /\ all \o chunk \in Seq(A)
         /\ Len(kept) \in Nat /\ Len(all) \in Nat /\ Len(chunk) \in Nat /\ n \in Nat /\ n <= Len(chunk)
         /\ Len(kept \o SubSeq(chunk, 1, n)) = Len(kept) + n
         /\ Len(all \o chunk) = Len(all) + Len(chunk)
         /\ \A i \in 1..Len(kept) : (kept \o SubSeq(chunk, 1, n))[i] = kept[i]
         /\ \A i \in 1..n : (kept \o SubSeq(chunk, 1, n))[Len(kept) + i] = chunk[i]
         /\ \A i \in 1..Len(all) : (all \o chunk)[i] = all[i]
         /\ \A i \in 1..Len(chunk) : (all \o chunk)[Len(all) + i] = chunk[i]
         /\ n = Len(chunk) => SubSeq(chunk, 1, n) = chunk
<1> DEFINE piece == SubSeq(chunk, 1, n)
<1>1. piece \in Seq(A) /\ Len(piece) = n /\ \A i \in 1..n : piece[i] = chunk[i]
  OBVIOUS
<1>2. n \in Nat /\ n <= Len(chunk) /\ (n = Len(chunk) => piece = chunk)
  BY SubSeqFull
<1> HIDE DEF piece
<1>3. /\ kept \o piece \in Seq(A) /\ Len(kept) \in Nat
      /\ Len(kept \o piece) = Len(kept) + Len(piece)
      /\ \A i \in 1..Len(kept) : (kept \o piece)[i] = kept[i]
      /\ \A i \in 1..Len(piece) : (kept \o piece)[Len(kept) + i] = piece[i]
  <2>1. piece \in Seq(A)
    BY <1>1
  <2>2. QED
    BY <2>1, Meet, SMTT(40)
<1>4. /\ all \o chunk \in Seq(A) /\ Len(all) \in Nat /\ Len(chunk) \in Nat
      /\ Len(all \o chunk) = Len(all) + Len(chunk)
      /\ \A i \in 1..Len(all) : (all \o chunk)[i] = all[i]
      /\ \A i \in 1..Len(chunk) : (all \o chunk)[Len(all) + i] = chunk[i]
  BY Meet, SMTT(40)
<1>5. QED
  BY <1>1, <1>2, <1>3, <1>4 DEF piece

\* Texts with the same characters are the same.
LEMMA SameTexts ==
  ASSUME NEW A, NEW a \in Seq(A), NEW b \in Seq(A), Len(a) = Len(b),
         \A i \in 1..Len(a) : a[i] = b[i]
  PROVE  a = b
OBVIOUS

\* A chunk keeps the place of the first cut, or makes it.
LEMMA KeptNext ==
  ASSUME NEW max \in Nat, NEW got \in Got(max), NEW all \in Seq(Chars), NEW chunk \in Seq(Chars),
         KeptSo(got, all, max)
  PROVE  /\ KeptSo(Capture(got, chunk, max), all \o chunk, max)
         /\ LessSo(got, all) /\ chunk # <<>> => LessSo(Capture(got, chunk, max), all \o chunk)
<1> DEFINE kept == got.kept
           new == Capture(got, chunk, max)
           m == Len(kept)
           l == Len(all)
           c == Len(chunk)
           more == all \o chunk
           room == Room(kept, max)
<1>1. PICK n \in 0..c :
        /\ new.kept = kept \o SubSeq(chunk, 1, n)
        /\ new.cut <=> room = 0 \/ got.cut \/ n < c
        /\ Widths(chunk)[n] <= room
        /\ n < c => Widths(chunk)[n + 1] > room
  <2>1. CaptureSo(got, chunk, max)
    BY CaptureFacts
  <2>2. QED
    BY <2>1, Zenon DEF CaptureSo
<1>2. kept \in Seq(Chars) /\ Width(kept) \in Nat /\ Width(kept) <= max
  <2>1. kept \in Seq(Chars) /\ Width(kept) <= max
    BY DEF Got
  <2> HIDE DEF kept
  <2>2. QED
    BY <2>1, CharsAreWide
<1>3. all \in Seq(Nat) /\ chunk \in Seq(Nat) /\ kept \in Seq(Nat) /\ Width(all) \in Nat
      /\ \A i \in 1..c : chunk[i] \in Nat /\ chunk[i] > 0
  <2> HIDE DEF kept
  <2>1. QED
    BY <1>2, CharsAreWide
<1> DEFINE next == kept \o SubSeq(chunk, 1, n)
<1>4. /\ next \in Seq(Chars) /\ more \in Seq(Chars)
      /\ m \in Nat /\ l \in Nat /\ c \in Nat /\ n \in Nat /\ n <= c
      /\ Len(next) = m + n
      /\ Len(more) = l + c
      /\ \A i \in 1..m : next[i] = kept[i]
      /\ \A i \in 1..n : next[m + i] = chunk[i]
      /\ \A i \in 1..l : more[i] = all[i]
      /\ \A i \in 1..c : more[l + i] = chunk[i]
      /\ n = c => SubSeq(chunk, 1, n) = chunk
  <2> HIDE DEF kept
  <2>1. QED
    BY <1>2, PieceFacts
<1>5. /\ ~got.cut => kept = all
      /\ m <= l
      /\ \E p \in 0..m : p <= l /\ (\A i \in 1..p : kept[i] = all[i]) /\ (p < l => Widths(all)[p + 1] > max)
  BY Zenon DEF KeptSo
<1>6. /\ \A k \in 0..l : Widths(more)[k] = Widths(all)[k]
      /\ \A k \in 0..c : Widths(more)[l + k] = Width(all) + Widths(chunk)[k]
  BY <1>3, WidthsJoin
<1>7. /\ \A k \in 0..c : Widths(chunk)[k] \in Nat
      /\ \A k \in 1..c : Widths(chunk)[k] = Widths(chunk)[k - 1] + chunk[k]
  BY <1>3, WidthsFacts, Zenon DEF WidthsSo
<1>8. room = max - Width(kept)
  BY DEF Room
<1> HIDE DEF kept, m, l, c, more, room, next, new
<1>9. ~new.cut => new.kept = more
  <2> HAVE ~new.cut
  <2>1. ~got.cut /\ n = c
    <3>1. ~got.cut /\ ~(n < c)
      BY <1>1, Zenon
    <3>2. QED
      BY <1>4, <3>1
  <2>2. kept = all /\ SubSeq(chunk, 1, n) = chunk
    BY <1>4, <1>5, <2>1, Zenon
  <2>3. QED
    BY <1>1, <2>2, Zenon DEF more
<1>10. new.kept = next
  BY <1>1, Zenon DEF next
<1>11. Len(next) <= Len(more)
  BY <1>4, <1>5
<1>12. \E p \in 0..Len(next) :
         /\ p <= Len(more) /\ \A i \in 1..p : next[i] = more[i]
         /\ p < Len(more) => Widths(more)[p + 1] > max
  <2>1. PICK p \in 0..m : p <= l /\ (\A i \in 1..p : kept[i] = all[i]) /\ (p < l => Widths(all)[p + 1] > max)
    BY <1>5
  <2>2. CASE p < l
    <3>1. p \in 0..Len(next) /\ p <= Len(more) /\ p + 1 \in 0..l
      BY <1>4, <2>1, <2>2
    <3>2. \A i \in 1..p : i \in 1..m /\ i \in 1..l
      BY <1>4, <2>1
    <3>3. \A i \in 1..p : next[i] = more[i]
      BY <1>4, <2>1, <3>2, Zenon
    <3>4. Widths(more)[p + 1] > max
      BY <1>6, <2>1, <2>2, <3>1
    <3>5. QED
      BY <3>1, <3>3, <3>4, Zenon
  <2>3. CASE ~(p < l)
    <3>1. p = l /\ m = l
      BY <1>4, <1>5, <2>1, <2>3
    <3>2. kept = all
      <4>1. Len(kept) = Len(all) /\ \A i \in 1..Len(kept) : kept[i] = all[i]
        BY <2>1, <3>1 DEF m, l
      <4>2. QED
        BY <1>2, <4>1, SameTexts
    <3>3. l + n \in 0..Len(next) /\ l + n <= Len(more)
      BY <1>4, <3>1
    <3>4. ASSUME NEW i \in 1..(l + n) PROVE next[i] = more[i]
      <4>1. CASE i <= l
        <5>1. i \in 1..m /\ i \in 1..l
          BY <1>4, <3>1, <4>1
        <5>2. QED
          BY <1>4, <3>2, <5>1, Zenon
      <4>2. CASE ~(i <= l)
        <5>1. i - l \in 1..n /\ i - l \in 1..c /\ i = l + (i - l) /\ i = m + (i - l)
          BY <1>4, <3>1, <4>2
        <5>2. next[m + (i - l)] = chunk[i - l] /\ more[l + (i - l)] = chunk[i - l]
          BY <1>4, <5>1, Zenon
        <5>3. QED
          BY <5>1, <5>2
      <4>3. QED
        BY <4>1, <4>2
    <3>5. l + n < Len(more) => Widths(more)[(l + n) + 1] > max
      <4> HAVE l + n < Len(more)
      <4>1. n < c /\ n + 1 \in 0..c /\ (l + n) + 1 = l + (n + 1)
        BY <1>4
      <4>2. Widths(more)[l + (n + 1)] = Width(all) + Widths(chunk)[n + 1]
        BY <1>6, <4>1
      <4>3. Widths(chunk)[n + 1] > max - Width(all) /\ Widths(chunk)[n + 1] \in Nat
        BY <1>1, <1>7, <1>8, <3>2, <4>1
      <4>4. QED
        BY <1>3, <4>1, <4>2, <4>3
    <3>6. QED
      BY <3>3, <3>4, <3>5, Zenon
  <2>4. QED
    BY <2>2, <2>3
<1>13. KeptSo(new, more, max)
  BY <1>9, <1>10, <1>11, <1>12, Zenon DEF KeptSo
<1>14. LessSo(got, all) /\ chunk # <<>> => LessSo(new, more)
  <2> SUFFICES ASSUME LessSo(got, all), chunk # <<>>, new.cut PROVE Len(next) < Len(more)
    BY <1>10, Zenon DEF LessSo
  <2>1. c > 0
    BY DEF c
  <2>2. CASE got.cut
    <3>1. m < l
      BY <2>2, Zenon DEF LessSo, m, l, kept
    <3>2. QED
      BY <1>4, <3>1
  <2>3. CASE n < c
    BY <1>4, <1>5, <2>3
  <2>4. CASE room = 0
    <3>1. n = 0
      <4> SUFFICES ASSUME n # 0 PROVE FALSE
        OBVIOUS
      <4>1. n \in 1..c /\ n - 1 \in 0..c
        BY <1>4
      <4>2. Widths(chunk)[n] = Widths(chunk)[n - 1] + chunk[n] /\ Widths(chunk)[n - 1] \in Nat
            /\ chunk[n] \in Nat /\ chunk[n] > 0
        BY <1>3, <1>7, <4>1 DEF c
      <4>3. Widths(chunk)[n] <= 0
        BY <1>1, <2>4
      <4>4. QED
        BY <4>2, <4>3
    <3>2. QED
      BY <1>4, <1>5, <2>1, <3>1
  <2>5. QED
    BY <1>1, <2>2, <2>3, <2>4
<1>15. QED
  BY <1>13, <1>14, Zenon DEF new, more

CapturingSo(chunks, max) ==
  LET got == Capturing(chunks, max)
  IN  /\ \A k \in 0..Len(chunks) : got[k] \in Got(max)
      /\ got[0] = [kept |-> <<>>, cut |-> FALSE]
      /\ \A k \in 1..Len(chunks) : got[k] = Capture(got[k - 1], chunks[k], max)

\* The function of what was captured exists and goes chunk by chunk.
LEMMA CapturingFacts ==
  ASSUME NEW max \in Nat, NEW chunks \in Seq(Seq(Chars))
  PROVE  CapturingSo(chunks, max)
<1> DEFINE n == Len(chunks)
           A == Got(max)
           r == [kept |-> <<>>, cut |-> FALSE]
           On(a, c) == Capture(a, c, max)
           moves == [k \in 1..n |-> [a \in A |-> On(a, chunks[k])]]
           Is(h) == h = [k \in 0..n |-> IF k = 0 THEN r ELSE On(h[k - 1], chunks[k])]
<1>1. n \in Nat /\ r \in A
  <2>1. <<>> \in Seq(Chars)
    BY NoneIsASeq
  <2>2. Width(<<>>) = 0
    <3>1. <<>> \in Seq(Nat) /\ Len(<<>>) = 0
      OBVIOUS
    <3>2. Widths(<<>>)[0] = 0
      BY <3>1, WidthsFacts, Zenon DEF WidthsSo
    <3>3. QED
      BY <3>1, <3>2, Zenon DEF Width
  <2>3. QED
    BY <2>1, <2>2 DEF Got
<1>2. \A a \in A, c \in Seq(Chars) : On(a, c) \in A
  BY CaptureFacts, Zenon DEF CaptureSo
<1> HIDE DEF On
<1>3. \A k \in 1..n : chunks[k] \in Seq(Chars)
  <2> DEFINE C == Seq(Chars)
  <2> HIDE DEF C
  <2>1. chunks \in Seq(C)
    BY DEF C
  <2>2. \A k \in 1..n : chunks[k] \in C
    BY <2>1
  <2>3. QED
    BY <2>2 DEF C
<1> HIDE DEF n, A, r
<1>4. moves \in [1..n -> [A -> A]]
  BY <1>2, <1>3
<1>5. PICK g : Follows(g, A, r, n, moves)
  <2> HIDE DEF moves
  <2>1. QED
    BY <1>1, <1>4, RecursionExists
<1>6. g \in [0..n -> A] /\ g[0] = r /\ \A k \in 1..n : g[k] = moves[k][g[k - 1]]
  <2> HIDE DEF moves
  <2>1. QED
    BY <1>5 DEF Follows
<1>7. \A k \in 1..n : g[k] = On(g[k - 1], chunks[k])
  <2> TAKE k \in 1..n
  <2>1. g[k - 1] \in A
    BY <1>1, <1>6
  <2>2. QED
    BY <1>6, <2>1
<1>8. Is(g)
  <2> HIDE DEF moves
  <2>1. g = [k \in 0..n |-> g[k]]
    BY <1>6
  <2>2. \A k \in 0..n : g[k] = IF k = 0 THEN r ELSE On(g[k - 1], chunks[k])
    BY <1>1, <1>6, <1>7
  <2>3. QED
    BY <2>1, <2>2
<1> DEFINE h == Capturing(chunks, max)
<1>9. h = CHOOSE x : Is(x)
  BY DEF Capturing, On, n, r
<1>10. Is(h)
  <2> HIDE DEF Is, h
  <2>1. QED
    BY <1>8, <1>9, Zenon
<1> HIDE DEF moves, h
<1>11. h[0] = r /\ \A k \in 1..n : h[k] = On(h[k - 1], chunks[k])
  BY <1>1, <1>10
<1>12. \A k \in 0..n : h[k] \in A
  <2> DEFINE Good == {k \in 0..n : h[k] \in A}
  <2>1. 0 \in Good
    BY <1>1, <1>11
  <2>2. ASSUME NEW k \in 1..n, k - 1 \in Good PROVE k \in Good
    <3>1. h[k - 1] \in A /\ chunks[k] \in Seq(Chars) /\ k \in 0..n
      BY <1>1, <1>3, <2>2
    <3>2. On(h[k - 1], chunks[k]) \in A
      BY <1>2, <3>1
    <3>3. QED
      BY <1>11, <3>1, <3>2
  <2> HIDE DEF Good
  <2>3. \A k \in 0..n : k \in Good
    BY <1>1, <2>1, <2>2, Climb
  <2>4. QED
    BY <2>3 DEF Good
<1>13. QED
  BY <1>11, <1>12, Zenon DEF CapturingSo, h, n, A, r, On

\* Command output is cut to the limit and never without saying so; up to the first
\* cut it is what was written (append_capped, exec), however it comes in chunks.
THEOREM OutputIsCutHonestly ==
  ASSUME NEW max \in Nat, NEW chunks \in Seq(Seq(Chars))
  PROVE  CutIsTold(chunks, max)
<1> DEFINE n == Len(chunks)
           h == Capturing(chunks, max)
           Solid(k) == \A i \in 1..k : chunks[i] # <<>>
<1>1. n \in Nat /\ \A k \in 1..n : chunks[k] \in Seq(Chars)
  <2> DEFINE C == Seq(Chars)
  <2> HIDE DEF C
  <2>1. chunks \in Seq(C)
    BY DEF C
  <2>2. Len(chunks) \in Nat /\ \A k \in 1..Len(chunks) : chunks[k] \in C
    BY <2>1
  <2>3. QED
    BY <2>2 DEF C
<1>2. chunks \in [1..n -> Seq(Chars)] /\ DOMAIN chunks = 1..n
  <2> DEFINE C == Seq(Chars)
  <2> HIDE DEF C
  <2>1. chunks \in Seq(C)
    BY DEF C
  <2>2. chunks \in [1..n -> C] /\ DOMAIN chunks = 1..n
    BY <2>1
  <2>3. QED
    BY <2>2 DEF C
<1>3. PICK g : Together(g, Chars, n, chunks) /\ FlattenSeq(chunks) = g[n]
  BY <1>1, <1>2, FlattenFacts
<1>4. (\A k \in 0..n : g[k] \in Seq(Chars)) /\ g[0] = <<>> /\ \A k \in 1..n : g[k] = g[k - 1] \o chunks[k]
  BY <1>3 DEF Together
<1>5. /\ \A k \in 0..n : h[k] \in Got(max)
      /\ h[0] = [kept |-> <<>>, cut |-> FALSE]
      /\ \A k \in 1..n : h[k] = Capture(h[k - 1], chunks[k], max)
  <2>1. CapturingSo(chunks, max)
    BY CapturingFacts
  <2>2. QED
    BY <2>1, Zenon DEF CapturingSo
<1> HIDE DEF n, h
<1> DEFINE Good == {k \in 0..n : KeptSo(h[k], g[k], max) /\ (Solid(k) => LessSo(h[k], g[k]))}
<1>6. 0 \in Good
  <2>1. 0 \in 0..n
    BY <1>1
  <2> DEFINE none == <<>>
  <2>2. h[0].kept = none /\ ~h[0].cut /\ g[0] = none /\ Len(none) = 0
    BY <1>4, <1>5
  <2>3. 0 \in 0..Len(none) /\ Len(none) <= Len(none) /\ ~(0 < Len(none)) /\ 1..0 = {} /\ 0 <= Len(none)
    BY <2>2
  <2> HIDE DEF none
  <2>4. KeptSo(h[0], g[0], max)
    BY <2>2, <2>3, Zenon DEF KeptSo
  <2>5. LessSo(h[0], g[0])
    BY <2>2, Zenon DEF LessSo
  <2>6. QED
    BY <2>1, <2>4, <2>5, Zenon
<1>7. ASSUME NEW k \in 1..n, k - 1 \in Good PROVE k \in Good
  <2>1. k - 1 \in 0..n /\ k \in 0..n /\ k \in 1..k /\ \A i \in 1..(k - 1) : i \in 1..k
    BY <1>1
  <2>2. /\ h[k - 1] \in Got(max) /\ g[k - 1] \in Seq(Chars) /\ chunks[k] \in Seq(Chars)
        /\ h[k] = Capture(h[k - 1], chunks[k], max) /\ g[k] = g[k - 1] \o chunks[k]
    BY <1>1, <1>4, <1>5, <2>1, Zenon
  <2>3. KeptSo(h[k - 1], g[k - 1], max) /\ (Solid(k - 1) => LessSo(h[k - 1], g[k - 1]))
    BY <1>7, Zenon
  <2> HIDE DEF Good
  <2> DEFINE old == h[k - 1]
             all == g[k - 1]
             chunk == chunks[k]
  <2>4. old \in Got(max) /\ all \in Seq(Chars) /\ chunk \in Seq(Chars) /\ KeptSo(old, all, max)
    BY <2>2, <2>3, Zenon
  <2> HIDE DEF old, all, chunk
  <2>5. KeptSo(Capture(old, chunk, max), all \o chunk, max)
    BY <2>4, KeptNext
  <2>6. LessSo(old, all) /\ chunk # <<>> => LessSo(Capture(old, chunk, max), all \o chunk)
    BY <2>4, KeptNext
  <2>7. KeptSo(h[k], g[k], max)
    BY <2>2, <2>5, Zenon DEF old, all, chunk
  <2>8. Solid(k) => Solid(k - 1) /\ chunk # <<>>
    BY <2>1, Zenon DEF chunk
  <2>9. Solid(k) => LessSo(h[k], g[k])
    BY <2>2, <2>3, <2>6, <2>8, Zenon DEF old, all, chunk
  <2>10. QED
    BY <2>1, <2>7, <2>9, Zenon DEF Good
<1>8. KeptSo(h[n], g[n], max) /\ (Solid(n) => LessSo(h[n], g[n])) /\ n \in 0..n
  <2> HIDE DEF Good
  <2>1. \A k \in 0..n : k \in Good
    BY <1>1, <1>6, <1>7, Climb
  <2>2. n \in 0..n
    BY <1>1
  <2>3. QED
    BY <2>1, <2>2, Zenon DEF Good
<1> DEFINE got == Captured(chunks, max)
           kept == got.kept
           all == FlattenSeq(chunks)
<1>9. got = h[n] /\ all = g[n]
  BY <1>3, Zenon DEF Captured, h, n
<1>10. kept \in Seq(Chars) /\ Width(kept) <= max /\ all \in Seq(Chars)
  <2>1. got \in Got(max) /\ all \in Seq(Chars)
    BY <1>4, <1>5, <1>8, <1>9, Zenon
  <2> HIDE DEF got, all
  <2>2. QED
    BY <2>1 DEF Got
<1>11. KeptSo(got, all, max) /\ (Solid(n) => LessSo(got, all))
  BY <1>8, <1>9, Zenon
<1> HIDE DEF got, all, kept, Good
<1>12. kept # all => got.cut
  BY <1>11, Zenon DEF KeptSo, kept
<1>13. got.cut /\ Solid(n) => kept # all
  <2> SUFFICES ASSUME got.cut, Solid(n), kept = all PROVE FALSE
    BY Zenon
  <2>1. Len(kept) < Len(all)
    BY <1>11, Zenon DEF LessSo, kept
  <2>2. Len(kept) \in Nat /\ Len(kept) = Len(all)
    BY <1>10
  <2>3. QED
    BY <2>1, <2>2
<1>14. \E k \in 0..Len(kept) :
         /\ SubSeq(kept, 1, k) = SubSeq(all, 1, k)
         /\ k < Len(all) => Widths(all)[k + 1] > max
  <2>1. PICK p \in 0..Len(kept) :
          /\ p <= Len(all) /\ \A i \in 1..p : kept[i] = all[i]
          /\ p < Len(all) => Widths(all)[p + 1] > max
    BY <1>11, Zenon DEF KeptSo, kept
  <2>2. SubSeq(kept, 1, p) = SubSeq(all, 1, p)
    BY <1>10, <2>1
  <2>3. QED
    BY <2>1, <2>2, Zenon
<1>15. QED
  BY <1>2, <1>10, <1>12, <1>13, <1>14, Zenon DEF CutIsTold, got, kept, all

-----------------------------------------------------------------------------
(* What nodes say, and who remembers it.                                   *)

\* What nodes with names in N say, of texts in T: messages, updates, and the states
\* they make of a task.
Voices(N, T) == [node : N, text : T]
Speaks(u, n, t) ==
  /\ u.messages = <<[node |-> n, text |-> t]>>
  /\ u.vars = [key \in {<<n>>} |-> t]
  /\ u.status \in {"ok", "failed"}
Spoken(N, T) == {From(n, t, ok) : n \in N, t \in T, ok \in BOOLEAN}
Hearsay(N, T) == UNION {[D -> T] : D \in SUBSET {<<n>> : n \in N}}
Memories(task, N, T) ==
  [task : {task}, messages : Seq(Voices(N, T)), status : {"none", "ok", "failed"}, vars : Hearsay(N, T)]

\* Every variable is somebody's, and of everybody the latest words.
Latest(heard, messages) ==
  /\ \A key \in DOMAIN heard : \E i \in 1..Len(messages) : key = <<messages[i].node>>
  /\ \A i \in 1..Len(messages) :
       (\A j \in 1..Len(messages) : j > i => messages[j].node # messages[i].node)
         => /\ <<messages[i].node>> \in DOMAIN heard
            /\ heard[<<messages[i].node>>] = messages[i].text

\* An update has the one message of its node and the variable of its name.
LEMMA SpokenFacts ==
  ASSUME NEW N, NEW T, NEW u \in Spoken(N, T)
  PROVE  \E n \in N, t \in T : Speaks(u, n, t)
<1>1. PICK n \in N, t \in T, ok \in BOOLEAN : u = From(n, t, ok)
  BY DEF Spoken
<1>2. Speaks(From(n, t, ok), n, t)
  BY DEF From, Speaks
<1>3. QED
  BY <1>1, <1>2, Zenon

OverSo(heard, n, t, N, T) ==
  LET new == Over([key \in {<<n>>} |-> t], heard)
  IN  /\ new \in Hearsay(N, T)
      /\ DOMAIN new = {<<n>>} \cup DOMAIN heard
      /\ new[<<n>>] = t
      /\ \A key \in DOMAIN heard : key # <<n>> => new[key] = heard[key]

\* One new variable over those there are.
LEMMA OverFacts ==
  ASSUME NEW N, NEW T, NEW heard \in Hearsay(N, T), NEW n \in N, NEW t \in T
  PROVE  OverSo(heard, n, t, N, T)
<1> DEFINE one == [key \in {<<n>>} |-> t]
           new == Over(one, heard)
           me == <<n>>
           K == {<<x>> : x \in N}
<1>1. PICK D \in SUBSET K : heard \in [D -> T]
  BY Zenon DEF Hearsay
<1>2. me \in K
  BY Zenon
<1> HIDE DEF me, K
<1>3. DOMAIN one = {me} /\ one[me] = t
  BY DEF me
<1> HIDE DEF one
<1>4. /\ DOMAIN new = {me} \cup D /\ new[me] = t
      /\ \A key \in D : key # me => new[key] = heard[key]
      /\ new \in [{me} \cup D -> T]
  BY <1>1, <1>3 DEF Over
<1> HIDE DEF new
<1>5. {me} \cup D \in SUBSET K
  BY <1>2
<1>6. new \in Hearsay(N, T)
  <2>1. new \in UNION {[E -> T] : E \in SUBSET K}
    BY <1>4, <1>5, Zenon
  <2>2. QED
    BY <2>1, Zenon DEF Hearsay, K
<1>7. DOMAIN heard = D
  BY <1>1
<1>8. QED
  BY <1>4, <1>6, <1>7, Zenon DEF OverSo, new, one, me

\* Once a node has spoken, its latest words are what it just said.
LEMMA LatestNext ==
  ASSUME NEW N, NEW T, NEW heard \in Hearsay(N, T), NEW messages \in Seq(Voices(N, T)),
         NEW n \in N, NEW t \in T, Latest(heard, messages)
  PROVE  Latest(Over([key \in {<<n>>} |-> t], heard), Append(messages, [node |-> n, text |-> t]))
<1> DEFINE new == Over([key \in {<<n>>} |-> t], heard)
           m == [node |-> n, text |-> t]
           V == Voices(N, T)
           l == Len(messages)
           more == Append(messages, m)
           who(i) == <<messages[i].node>>
<1>1. /\ DOMAIN new = {<<n>>} \cup DOMAIN heard /\ new[<<n>>] = t
      /\ \A key \in DOMAIN heard : key # <<n>> => new[key] = heard[key]
  <2>1. OverSo(heard, n, t, N, T)
    BY OverFacts
  <2>2. QED
    BY <2>1, Zenon DEF OverSo
<1>2. m \in V /\ m.node = n /\ m.text = t
  BY DEF Voices
<1> HIDE DEF m, V, new
<1>3. /\ l \in Nat /\ Len(more) = l + 1 /\ more[l + 1] = m
      /\ \A i \in 1..l : more[i] = messages[i]
  <2>1. messages \in Seq(V)
    BY DEF V
  <2>2. QED
    BY <1>2, <2>1
<1>4. /\ \A key \in DOMAIN heard : \E i \in 1..l : key = <<messages[i].node>>
      /\ \A i \in 1..l : (\A j \in 1..l : j > i => messages[j].node # messages[i].node)
           => <<messages[i].node>> \in DOMAIN heard /\ heard[<<messages[i].node>>] = messages[i].text
  BY Zenon DEF Latest
<1> HIDE DEF l, more
<1>5. 1..(l + 1) = 1..l \cup {l + 1} /\ l + 1 \in 1..(l + 1) /\ (\A i \in 1..l : l + 1 > i /\ i \in 1..(l + 1))
  BY <1>3
<1>6. ASSUME NEW key \in DOMAIN new PROVE \E i \in 1..(l + 1) : key = <<more[i].node>>
  <2>1. CASE key = <<n>>
    BY <1>2, <1>3, <1>5, <2>1, Zenon
  <2>2. CASE key \in DOMAIN heard
    <3>1. PICK i \in 1..l : key = <<messages[i].node>>
      BY <1>4, <2>2, Zenon
    <3>2. more[i] = messages[i] /\ i \in 1..(l + 1)
      BY <1>3, <1>5, Zenon
    <3>3. QED
      BY <3>1, <3>2, Zenon
  <2>3. QED
    BY <1>1, <2>1, <2>2
<1>7. ASSUME NEW i \in 1..(l + 1),
             \A j \in 1..(l + 1) : j > i => more[j].node # more[i].node
      PROVE  <<more[i].node>> \in DOMAIN new /\ new[<<more[i].node>>] = more[i].text
  <2>1. CASE i = l + 1
    <3>1. more[i] = m
      BY <1>3, <2>1, Zenon
    <3>2. <<more[i].node>> = <<n>> /\ more[i].text = t
      BY <1>2, <3>1, Zenon
    <3>3. QED
      BY <1>1, <3>2, Zenon
  <2>2. CASE i \in 1..l
    <3>1. more[i] = messages[i]
      BY <1>3, <2>2, Zenon
    <3>2. messages[i].node # n
      BY <1>2, <1>3, <1>5, <1>7, <2>2, <3>1, Zenon
    <3>3. \A j \in 1..l : j > i => messages[j].node # messages[i].node
      BY <1>3, <1>5, <1>7, <3>1, Zenon
    <3>4. <<messages[i].node>> \in DOMAIN heard /\ heard[<<messages[i].node>>] = messages[i].text
      BY <1>4, <2>2, <3>3, Zenon
    <3>5. <<messages[i].node>> # <<n>>
      BY <3>2
    <3>6. QED
      BY <1>1, <3>1, <3>4, <3>5, Zenon
  <2>3. QED
    BY <1>5, <2>1, <2>2, Zenon
<1>8. QED
  <2>1. Len(more) = l + 1
    BY <1>3
  <2>2. Latest(new, more)
    BY <1>6, <1>7, <2>1, Zenon DEF Latest
  <2>3. QED
    BY <2>2, Zenon DEF new, more, m

\* The transcript has every word.
SaidBy(N, T) == [u \in Spoken(N, T) |-> u.messages]
Recalls(st, ran, N, T) == st.messages = Spread(SaidBy(N, T), ran) /\ Latest(st.vars, st.messages)

\* An update is remembered: its message behind the others, its variable over them.
LEMMA RecallsNext ==
  ASSUME NEW N, NEW T, NEW task, NEW st \in Memories(task, N, T), NEW ran \in Seq(Spoken(N, T)),
         NEW u \in Spoken(N, T), Recalls(st, ran, N, T)
  PROVE  Recalls(Apply(st, u), Append(ran, u), N, T)
<1> DEFINE V == Voices(N, T)
           U == Spoken(N, T)
           F == SaidBy(N, T)
           K == Hearsay(N, T)
           past == st.messages
           known == st.vars
<1>1. past \in Seq(V) /\ known \in K /\ st.task = task
  BY DEF Memories
<1>2. PICK n \in N, t \in T : Speaks(u, n, t)
  BY SpokenFacts
<1> DEFINE m == [node |-> n, text |-> t]
           one == [key \in {<<n>>} |-> t]
<1>3. u.messages = <<m>> /\ u.vars = one /\ u.status \in {"ok", "failed"}
  BY <1>2, Zenon DEF Speaks
<1>4. m \in V
  BY DEF Voices
<1> DEFINE all == Append(past, m)
           new == Over(one, known)
<1>5. all \in Seq(V) /\ all = past \o <<m>>
  <2> HIDE DEF V, m, past
  <2>1. all \in Seq(V)
    BY <1>1, <1>4
  <2>2. all = past \o <<m>>
    BY <1>1, <1>4, AppendIsConcat
  <2>3. QED
    BY <2>1, <2>2
<1>6. Latest(new, all)
  <2>1. Latest(known, past)
    BY Zenon DEF Recalls
  <2> HIDE DEF known, past
  <2>2. QED
    BY <1>1, <2>1, LatestNext, Zenon
<1> HIDE DEF all, new, past, known, one, m, V, K
<1>7. Apply(st, u) = [task |-> task, messages |-> all, status |-> u.status, vars |-> new]
  <2>1. Apply(st, u) = [st EXCEPT !.messages = past \o u.messages, !.status = u.status,
                                  !.vars = Over(u.vars, known)]
    BY Zenon DEF Apply, past, known
  <2>2. Apply(st, u) = [st EXCEPT !.messages = all, !.status = u.status, !.vars = new]
    BY <1>3, <1>5, <2>1, Zenon DEF new
  <2>3. QED
    BY <1>1, <2>2 DEF Memories
<1>8. all = Spread(F, Append(ran, u))
  <2>1. past = Spread(F, ran)
    BY Zenon DEF Recalls, past
  <2>2. F \in [U -> Seq(V)] /\ F[u] = <<m>>
    <3>1. \A x \in U : x.messages \in Seq(V)
      <4> TAKE x \in U
      <4>1. PICK y \in N, z \in T : Speaks(x, y, z)
        BY SpokenFacts
      <4>2. x.messages = <<[node |-> y, text |-> z]>>
        BY <4>1, Zenon DEF Speaks
      <4>3. [node |-> y, text |-> z] \in V
        BY DEF V, Voices
      <4>4. QED
        BY <4>2, <4>3, OneSeq
    <3> HIDE DEF U
    <3>2. QED
      BY <1>3, <3>1 DEF SaidBy, U
  <2> HIDE DEF F, U
  <2>3. <<u>> \in Seq(U) /\ Append(ran, u) = ran \o <<u>>
    BY AppendIsConcat, OneSeq DEF U
  <2>4. Spread(F, <<u>>) = F[u]
    BY <2>2, SpreadOne DEF U
  <2>5. Spread(F, ran \o <<u>>) = Spread(F, ran) \o Spread(F, <<u>>)
    <3>1. ran \in Seq(U) /\ {} \in SUBSET U
      BY DEF U
    <3>2. Spreads(F, U, V, {})
      BY <2>2, <3>1, SpreadsFacts
    <3>3. QED
      BY <2>3, <3>1, <3>2, Zenon DEF Spreads
  <2>6. QED
    BY <1>5, <2>1, <2>2, <2>3, <2>4, <2>5, Zenon
<1>9. Recalls(Apply(st, u), Append(ran, u), N, T)
  <2>1. Apply(st, u).messages = all /\ Apply(st, u).vars = new
    BY <1>7
  <2>2. QED
    BY <1>6, <1>8, <2>1, Zenon DEF Recalls
<1>10. QED
  BY <1>9

ApplyingSo(st, updates, A) ==
  LET after == Applying(st, updates)
  IN  /\ \A k \in 0..Len(updates) : after[k] \in A
      /\ after[0] = st
      /\ \A k \in 1..Len(updates) : after[k] = Apply(after[k - 1], updates[k])

\* The function of what was applied exists and goes update by update.
LEMMA ApplyingFacts ==
  ASSUME NEW A, NEW U, NEW st \in A, NEW updates \in Seq(U),
         \A x \in A, u \in U : Apply(x, u) \in A
  PROVE  ApplyingSo(st, updates, A)
<1> DEFINE n == Len(updates)
           On(a, u) == Apply(a, u)
           moves == [k \in 1..n |-> [a \in A |-> On(a, updates[k])]]
           Is(h) == h = [k \in 0..n |-> IF k = 0 THEN st ELSE On(h[k - 1], updates[k])]
<1>1. n \in Nat
  OBVIOUS
<1>2. \A a \in A, u \in U : On(a, u) \in A
  OBVIOUS
<1> HIDE DEF On
<1>3. \A k \in 1..n : updates[k] \in U
  OBVIOUS
<1> HIDE DEF n
<1>4. moves \in [1..n -> [A -> A]]
  BY <1>2, <1>3
<1>5. PICK g : Follows(g, A, st, n, moves)
  <2> HIDE DEF moves
  <2>1. QED
    BY <1>1, <1>4, RecursionExists
<1>6. g \in [0..n -> A] /\ g[0] = st /\ \A k \in 1..n : g[k] = moves[k][g[k - 1]]
  <2> HIDE DEF moves
  <2>1. QED
    BY <1>5 DEF Follows
<1>7. \A k \in 1..n : g[k] = On(g[k - 1], updates[k])
  <2> TAKE k \in 1..n
  <2>1. g[k - 1] \in A
    BY <1>1, <1>6
  <2>2. QED
    BY <1>6, <2>1
<1>8. Is(g)
  <2> HIDE DEF moves
  <2>1. g = [k \in 0..n |-> g[k]]
    BY <1>6
  <2>2. \A k \in 0..n : g[k] = IF k = 0 THEN st ELSE On(g[k - 1], updates[k])
    BY <1>1, <1>6, <1>7
  <2>3. QED
    BY <2>1, <2>2
<1> DEFINE h == Applying(st, updates)
<1>9. h = CHOOSE x : Is(x)
  BY DEF Applying, On, n
<1>10. Is(h)
  <2> HIDE DEF Is, h
  <2>1. QED
    BY <1>8, <1>9, Zenon
<1> HIDE DEF moves, h
<1>11. h[0] = st /\ \A k \in 1..n : h[k] = On(h[k - 1], updates[k])
  BY <1>1, <1>10
<1>12. \A k \in 0..n : h[k] \in A
  <2> DEFINE Good == {k \in 0..n : h[k] \in A}
  <2>1. 0 \in Good
    BY <1>1, <1>11
  <2>2. ASSUME NEW k \in 1..n, k - 1 \in Good PROVE k \in Good
    <3>1. h[k - 1] \in A /\ updates[k] \in U /\ k \in 0..n
      BY <1>1, <1>3, <2>2
    <3>2. On(h[k - 1], updates[k]) \in A
      BY <1>2, <3>1
    <3>3. QED
      BY <1>11, <3>1, <3>2
  <2> HIDE DEF Good
  <2>3. \A k \in 0..n : k \in Good
    BY <1>1, <2>1, <2>2, Climb
  <2>4. QED
    BY <2>3 DEF Good
<1>13. QED
  BY <1>11, <1>12, Zenon DEF ApplyingSo, h, n, On

\* A text that grows by another, element by element.
Grown(a, b, k) == a \o SubSeq(b, 1, k)

\* A text grows element by element into both put together.
LEMMA GrownFacts ==
  ASSUME NEW A, NEW a \in Seq(A), NEW b \in Seq(A)
  PROVE  /\ Grown(a, b, 0) = a /\ Grown(a, b, Len(b)) = a \o b
         /\ \A k \in 0..Len(b) : Grown(a, b, k) \in Seq(A)
         /\ \A k \in 1..Len(b) : Append(Grown(a, b, k - 1), b[k]) = Grown(a, b, k)
<1>1. Grown(a, b, 0) = a
  BY DEF Grown
<1>2. Grown(a, b, Len(b)) = a \o b
  <2>1. SubSeq(b, 1, Len(b)) = b
    BY SubSeqFull
  <2>2. QED
    BY <2>1, Zenon DEF Grown
<1>3. \A k \in 0..Len(b) : Grown(a, b, k) \in Seq(A)
  <2> TAKE k \in 0..Len(b)
  <2> DEFINE u == SubSeq(b, 1, k)
  <2>1. u \in Seq(A)
    OBVIOUS
  <2> HIDE DEF u
  <2>2. a \o u \in Seq(A)
    BY <2>1
  <2>3. QED
    BY <2>2 DEF Grown, u
<1>4. ASSUME NEW k \in 1..Len(b) PROVE Append(Grown(a, b, k - 1), b[k]) = Grown(a, b, k)
  <2> DEFINE u == SubSeq(b, 1, k - 1)
             x == b[k]
  <2>1. Append(u, x) = SubSeq(b, 1, k)
    OBVIOUS
  <2>2. u \in Seq(A) /\ x \in A
    OBVIOUS
  <2> HIDE DEF u, x
  <2>3. Append(a \o u, x) = a \o Append(u, x)
    <3>1. JoinsSo(A)
      BY JoinsFacts
    <3>2. QED
      BY <2>2, <3>1, Zenon DEF JoinsSo
  <2>4. QED
    BY <2>1, <2>3, Zenon DEF Grown, u, x
<1>5. QED
  BY <1>1, <1>2, <1>3, <1>4

\* A super-step is merged as one: the state remembers all of it, and is a success
\* exactly when each of its updates is.
LEMMA MergeFacts ==
  ASSUME NEW N, NEW T, NEW task, NEW st \in Memories(task, N, T), NEW ran \in Seq(Spoken(N, T)),
         NEW updates \in Seq(Spoken(N, T)), Recalls(st, ran, N, T)
  PROVE  /\ Merge(st, updates) \in Memories(task, N, T)
         /\ Recalls(Merge(st, updates), ran \o updates, N, T)
         /\ Merge(st, updates).status = "ok" <=> \A i \in DOMAIN updates : updates[i].status = "ok"
<1> DEFINE n == Len(updates)
           U == Spoken(N, T)
           h == Applying(st, updates)
           A == Memories(task, N, T)
           past(k) == Grown(ran, updates, k)
           worst == IF \E i \in DOMAIN updates : updates[i].status = "failed" THEN "failed" ELSE "ok"
<1>1. ASSUME NEW x \in A, NEW u \in U PROVE Apply(x, u) \in A
  <2>1. u.messages \in Seq(Voices(N, T)) /\ \E m \in N, t \in T : Speaks(u, m, t)
    <3>1. PICK m \in N, t \in T : Speaks(u, m, t)
      BY SpokenFacts
    <3>2. u.messages = <<[node |-> m, text |-> t]>>
      BY <3>1, Zenon DEF Speaks
    <3>3. [node |-> m, text |-> t] \in Voices(N, T)
      BY DEF Voices
    <3>4. QED
      BY <3>1, <3>2, <3>3, OneSeq
  <2>2. PICK m \in N, t \in T : Speaks(u, m, t)
    BY <2>1
  <2> DEFINE V == Voices(N, T)
             new == Over(u.vars, x.vars)
             all == x.messages \o u.messages
  <2>3. x.messages \in Seq(V) /\ x.vars \in Hearsay(N, T) /\ x.task = task
    BY DEF Memories
  <2>4. new \in Hearsay(N, T)
    <3> DEFINE known == x.vars
    <3>1. known \in Hearsay(N, T)
      BY <2>3
    <3> HIDE DEF known
    <3>2. OverSo(known, m, t, N, T)
      BY <3>1, OverFacts
    <3>3. u.vars = [key \in {<<m>>} |-> t]
      BY <2>2, Zenon DEF Speaks
    <3>4. QED
      BY <3>2, <3>3, Zenon DEF OverSo, known
  <2>5. all \in Seq(V)
    <3> DEFINE a == x.messages
               b == u.messages
    <3>1. a \in Seq(V) /\ b \in Seq(V)
      BY <2>1, <2>3
    <3> HIDE DEF a, b, V
    <3>2. a \o b \in Seq(V)
      BY <3>1
    <3>3. QED
      BY <3>2 DEF a, b
  <2>6. u.status \in {"ok", "failed"}
    BY <2>2, Zenon DEF Speaks
  <2>7. Apply(x, u) = [x EXCEPT !.messages = all, !.status = u.status, !.vars = new]
    BY Zenon DEF Apply
  <2> HIDE DEF all, new, V
  <2>8. QED
    BY <2>4, <2>5, <2>6, <2>7 DEF Memories, V
<1>2. /\ \A k \in 0..n : h[k] \in A
      /\ h[0] = st
      /\ \A k \in 1..n : h[k] = Apply(h[k - 1], updates[k])
  <2> HIDE DEF A
  <2>1. st \in A
    BY DEF A
  <2> HIDE DEF U
  <2>2. updates \in Seq(U)
    BY DEF U
  <2>3. ApplyingSo(st, updates, A)
    BY <1>1, <2>1, <2>2, ApplyingFacts
  <2>4. QED
    BY <2>3, Zenon DEF ApplyingSo
<1>3. /\ past(0) = ran /\ past(n) = ran \o updates
      /\ \A k \in 0..n : past(k) \in Seq(U)
      /\ \A k \in 1..n : Append(past(k - 1), updates[k]) = past(k)
  <2> HIDE DEF U
  <2>1. ran \in Seq(U) /\ updates \in Seq(U)
    BY DEF U
  <2>2. QED
    BY <2>1, GrownFacts
<1>4. n \in Nat /\ DOMAIN updates = 1..n /\ \A k \in 1..n : updates[k] \in U
  <2> HIDE DEF U
  <2>1. updates \in Seq(U)
    BY DEF U
  <2>2. QED
    BY <2>1
<1> HIDE DEF n, h, past
<1> DEFINE Good == {k \in 0..n : Recalls(h[k], past(k), N, T)}
<1>5. 0 \in Good
  <2>1. 0 \in 0..n
    BY <1>4
  <2>2. QED
    BY <1>2, <1>3, <2>1, Zenon
<1>6. ASSUME NEW k \in 1..n, k - 1 \in Good PROVE k \in Good
  <2>1. k \in 0..n /\ k - 1 \in 0..n
    BY <1>4
  <2> DEFINE x == h[k - 1]
             r == past(k - 1)
             u == updates[k]
  <2>2. x \in A /\ r \in Seq(U) /\ u \in U /\ Recalls(x, r, N, T)
    BY <1>2, <1>3, <1>4, <1>6, <2>1, Zenon
  <2> HIDE DEF x, r, u
  <2>3. Recalls(Apply(x, u), Append(r, u), N, T)
    BY <2>2, RecallsNext
  <2>4. h[k] = Apply(x, u) /\ past(k) = Append(r, u)
    BY <1>2, <1>3, Zenon DEF x, r, u
  <2>5. QED
    BY <2>1, <2>3, <2>4, Zenon
<1>7. n \in 0..n /\ Recalls(h[n], past(n), N, T)
  <2> HIDE DEF Good
  <2>1. \A k \in 0..n : k \in Good
    BY <1>4, <1>5, <1>6, Climb
  <2>2. n \in 0..n
    BY <1>4
  <2>3. QED
    BY <2>1, <2>2, Zenon DEF Good
<1> DEFINE last == h[n]
<1>8. Merge(st, updates) = [last EXCEPT !.status = worst]
  BY Zenon DEF Merge, n, h
<1>9. last \in A /\ worst \in {"ok", "failed"}
  BY <1>2, <1>7
<1> HIDE DEF last, worst
<1>10. /\ Merge(st, updates) \in A
       /\ Merge(st, updates).messages = last.messages /\ Merge(st, updates).vars = last.vars
       /\ Merge(st, updates).status = worst
  BY <1>8, <1>9 DEF Memories
<1>11. Recalls(Merge(st, updates), ran \o updates, N, T)
  <2>1. Recalls(last, ran \o updates, N, T)
    BY <1>3, <1>7, Zenon DEF last
  <2>2. QED
    BY <1>10, <2>1, Zenon DEF Recalls
<1>12. worst = "ok" <=> \A i \in DOMAIN updates : updates[i].status = "ok"
  <2>1. \A i \in DOMAIN updates : updates[i].status \in {"ok", "failed"}
    <3> TAKE i \in DOMAIN updates
    <3>1. updates[i] \in Spoken(N, T)
      BY <1>4
    <3>2. PICK m \in N, t \in T : Speaks(updates[i], m, t)
      BY <3>1, SpokenFacts
    <3>3. QED
      BY <3>2, Zenon DEF Speaks
  <2>2. QED
    BY <2>1 DEF worst
<1>13. QED
  BY <1>10, <1>11, <1>12, Zenon

\* What a node may say: nothing, or one update.
Says(updates, N, T) == updates = <<>> \/ \E u \in Spoken(N, T) : updates = <<u>>
Phrased(T) ==
  <<"nothing">> \in T /\ <<"error">> \in T /\ <<"approved">> \in T /\ <<"declined">> \in T

\* An update made from a node's words, or none.
LEMMA SaysFacts ==
  ASSUME NEW N, NEW T, NEW n \in N, NEW t \in T, NEW ok \in BOOLEAN, NEW hard \in BOOLEAN
  PROVE  Says(Unless(hard, From(n, t, ok)), N, T) /\ Says(<<From(n, t, ok)>>, N, T)
<1>1. From(n, t, ok) \in Spoken(N, T)
  BY DEF Spoken
<1>2. Says(<<From(n, t, ok)>>, N, T)
  BY <1>1, Zenon DEF Says
<1>3. Says(Unless(hard, From(n, t, ok)), N, T)
  <2> DEFINE u == From(n, t, ok)
  <2> HIDE DEF u
  <2>1. Unless(hard, u) = <<>> \/ Unless(hard, u) = <<u>>
    BY DEF Unless
  <2>2. QED
    BY <1>1, <2>1, Zenon DEF Says, u
<1>4. QED
  BY <1>2, <1>3

\* A call: of a worker with a name in N, and answered in T.
CallSo(worker, world, N, T) ==
  /\ worker.kind \in Kinds /\ worker.name \in N
  /\ world.hard \in BOOLEAN /\ world.ok \in BOOLEAN /\ world.text \in T

\* Whatever its kind and the answer, a node says nothing or one thing.
LEMMA RunFacts ==
  ASSUME NEW N, NEW T, Phrased(T), NEW worker, NEW st, NEW world, CallSo(worker, world, N, T)
  PROVE  Says(Run(worker, st, world).updates, N, T)
<1> DEFINE n == worker.name
           hard == world.hard
           ok == world.ok
           t == world.text
           Good(us) == Says(us, N, T)
<1>1. n \in N /\ hard \in BOOLEAN /\ ok \in BOOLEAN /\ t \in T
  BY Zenon DEF CallSo
<1>2. <<"nothing">> \in T /\ <<"error">> \in T /\ <<"approved">> \in T /\ <<"declined">> \in T
  BY Zenon DEF Phrased
<1> HIDE DEF n, hard, ok, t
<1>3. /\ \A x \in T : Good(Unless(hard, From(n, x, ok))) /\ Good(<<From(n, x, ok)>>)
      /\ \A x \in T : Good(Unless(hard, From(n, x, TRUE))) /\ Good(<<From(n, x, TRUE)>>)
      /\ \A x \in T : Good(Unless(hard, From(n, x, FALSE))) /\ Good(<<From(n, x, FALSE)>>)
  BY <1>1, SaysFacts
<1>4. Good(<<>>)
  BY Zenon DEF Says
<1> HIDE DEF Good
<1>5. CASE worker.kind = "agent"
  <2> DEFINE x == IF t = NoAnswer THEN <<"nothing">> ELSE t
  <2>1. x \in T
    BY <1>1, <1>2, Zenon
  <2>2. Run(worker, st, world).updates
          = IF ~(worker.tools \subseteq worker.registry) THEN <<>> ELSE Unless(hard, From(n, x, ok))
    BY <1>5 DEF Run, AgentRun, Asks, n, hard, ok, t
  <2> HIDE DEF x
  <2>3. QED
    BY <1>3, <1>4, <2>1, <2>2, Zenon DEF Good
<1>6. CASE worker.kind = "tool"
  <2>1. Run(worker, st, world).updates
          = <<IF hard THEN From(n, <<"error">>, FALSE) ELSE From(n, t, TRUE)>>
    BY <1>6 DEF Run, ToolRun, Asks, Failing, n, hard, t
  <2>2. QED
    BY <1>1, <1>2, <1>3, <2>1 DEF Good
<1>7. CASE worker.kind = "script"
  <2>1. Run(worker, st, world).updates
          = <<IF hard THEN From(n, <<"error">>, FALSE) ELSE From(n, t, ok)>>
    BY <1>7 DEF Run, ScriptRun, Asks, Failing, n, hard, t, ok
  <2>2. QED
    BY <1>1, <1>2, <1>3, <2>1 DEF Good
<1>8. CASE worker.kind = "human"
  <2>1. Run(worker, st, world).updates
          = Unless(hard, IF ~worker.approval THEN From(n, t, TRUE)
                         ELSE IF Affirmative(t) THEN From(n, <<"approved">>, TRUE)
                         ELSE From(n, <<"declined">>, FALSE))
    BY <1>8 DEF Run, HumanRun, Asks, n, hard, t
  <2>2. QED
    BY <1>1, <1>2, <1>3, <2>1 DEF Good
<1>9. CASE worker.kind = "provision"
  <2>1. Run(worker, st, world).updates = Unless(hard, From(n, t, TRUE))
    BY <1>9 DEF Run, ProvisionRun, Asks, n, hard, t
  <2>2. QED
    BY <1>1, <1>3, <2>1, Zenon DEF Good
<1>10. CASE worker.kind = "checkout"
  <2>1. Run(worker, st, world).updates = Unless(hard, From(n, t, ok))
    BY <1>10 DEF Run, CheckoutRun, Asks, n, hard, t, ok
  <2>2. QED
    BY <1>1, <1>3, <2>1, Zenon DEF Good
<1>11. CASE worker.kind = "exec"
  <2>1. Run(worker, st, world).updates = Unless(hard, From(n, t, ok))
    BY <1>11 DEF Run, ExecRun, Asks, n, hard, t, ok
  <2>2. QED
    BY <1>1, <1>3, <2>1, Zenon DEF Good
<1>12. QED
  BY <1>5, <1>6, <1>7, <1>8, <1>9, <1>10, <1>11 DEF CallSo, Kinds

\* A run so far: its state remembers what was said, and is a success exactly when
\* its last super-step is.
Successful(updates) == \A i \in DOMAIN updates : updates[i].status = "ok"
Accounts(task, N, T) ==
  {x \in [st : Memories(task, N, T), ran : Seq(Spoken(N, T)), last : Seq(Spoken(N, T))] :
     /\ Recalls(x.st, x.ran, N, T)
     /\ x.last # <<>> => (x.st.status = "ok" <=> Successful(x.last))}

Called(calls, N, T) == \A i \in DOMAIN calls : CallSo(calls[i].node, calls[i].world, N, T)

\* An attempt, merged or not, leaves a state that remembers all that was merged.
LEMMA AttemptFacts ==
  ASSUME NEW N, NEW T, Phrased(T), NEW task, NEW x \in Accounts(task, N, T),
         NEW S, NEW calls \in Seq(S), Called(calls, N, T)
  PROVE  Attempt(x, calls) \in Accounts(task, N, T)
<1> DEFINE U == Spoken(N, T)
           c == Len(calls)
           said == [i \in DOMAIN calls |-> Run(calls[i].node, x.st, calls[i].world).updates]
           us == FlattenSeq(said)
<1>1. c \in Nat /\ DOMAIN calls = 1..c
  OBVIOUS
<1>2. \A i \in 1..c : Says(said[i], N, T)
  <2> TAKE i \in 1..c
  <2> DEFINE w == calls[i].node
             o == calls[i].world
  <2>1. CallSo(w, o, N, T)
    BY <1>1, Zenon DEF Called
  <2>2. said[i] = Run(w, x.st, o).updates
    BY <1>1, Zenon
  <2> HIDE DEF w, o, said
  <2>3. Says(Run(w, x.st, o).updates, N, T)
    BY <2>1, RunFacts
  <2>4. QED
    BY <2>2, <2>3, Zenon
<1>3. x.st \in Memories(task, N, T) /\ x.ran \in Seq(U) /\ Recalls(x.st, x.ran, N, T)
  <2> HIDE DEF U
  <2>1. x \in [st : Memories(task, N, T), ran : Seq(U), last : Seq(U)] /\ Recalls(x.st, x.ran, N, T)
    BY Zenon DEF Accounts, U
  <2>2. QED
    BY <2>1
<1>4. Attempt(x, calls) = IF \E i \in DOMAIN calls : said[i] = <<>> THEN x
                          ELSE [st |-> Merge(x.st, us), ran |-> x.ran \o us, last |-> us]
  BY Zenon DEF Attempt
<1>5. CASE \E i \in DOMAIN calls : said[i] = <<>>
  BY <1>4, <1>5, Zenon
<1>6. CASE ~ \E i \in DOMAIN calls : said[i] = <<>>
  <2>1. \A i \in 1..c : said[i] \in Seq(U)
    <3> TAKE i \in 1..c
    <3>1. PICK u \in U : said[i] = <<u>>
      BY <1>1, <1>2, <1>6, Zenon DEF Says
    <3> HIDE DEF said, U
    <3>2. QED
      BY <3>1, OneSeq
  <2>2. said \in [1..c -> Seq(U)]
    <3> DEFINE B == Seq(U)
    <3>1. said = [i \in 1..c |-> said[i]]
      BY <1>1
    <3> HIDE DEF said, B
    <3>2. QED
      BY <2>1, <3>1 DEF B
  <2>3. us \in Seq(U)
    <3> HIDE DEF said, U
    <3>1. PICK g : Together(g, U, c, said) /\ FlattenSeq(said) = g[c]
      BY <1>1, <2>2, FlattenFacts
    <3>2. g \in [0..c -> Seq(U)] /\ c \in 0..c
      BY <1>1, <3>1 DEF Together
    <3>3. QED
      BY <3>1, <3>2
  <2> DEFINE st == x.st
             ran == x.ran
             new == [st |-> Merge(st, us), ran |-> ran \o us, last |-> us]
  <2> HIDE DEF us, said
  <2>4. st \in Memories(task, N, T) /\ ran \in Seq(U) /\ Recalls(st, ran, N, T)
    BY <1>3
  <2> HIDE DEF st, ran
  <2>5. /\ Merge(st, us) \in Memories(task, N, T)
        /\ Recalls(Merge(st, us), ran \o us, N, T)
        /\ Merge(st, us).status = "ok" <=> \A i \in DOMAIN us : us[i].status = "ok"
    BY <2>3, <2>4, MergeFacts
  <2>6. ran \o us \in Seq(U)
    <3> HIDE DEF U
    <3>1. QED
      BY <2>3, <2>4
  <2>7. new \in Accounts(task, N, T)
    <3> DEFINE m == Merge(st, us)
               r == ran \o us
    <3>1. m.status = "ok" <=> Successful(us)
      BY <2>5, Zenon DEF Successful
    <3> HIDE DEF m, r, U
    <3>2. new = [st |-> m, ran |-> r, last |-> us]
      BY Zenon DEF m, r
    <3>3. m \in Memories(task, N, T) /\ r \in Seq(U) /\ us \in Seq(U) /\ Recalls(m, r, N, T)
      BY <2>3, <2>5, <2>6, Zenon DEF m, r
    <3> HIDE DEF new
    <3>4. new \in [st : Memories(task, N, T), ran : Seq(U), last : Seq(U)]
          /\ new.st = m /\ new.ran = r /\ new.last = us
      BY <3>2, <3>3
    <3>5. QED
      BY <3>1, <3>3, <3>4, Zenon DEF Accounts, U
  <2>8. Attempt(x, calls) = new
    BY <1>4, <1>6, Zenon DEF st, ran
  <2>9. QED
    BY <2>7, <2>8, Zenon
<1>7. QED
  BY <1>5, <1>6

\* An empty text spreads into nothing.
LEMMA SpreadNone == \A F : Spread(F, <<>>) = <<>>
<1> TAKE F
<1> DEFINE none == <<>>
           f == [i \in DOMAIN none |-> F[none[i]]]
<1>1. DOMAIN none = 1..0 /\ 1..0 = {} /\ 0 \in Nat
  OBVIOUS
<1>2. f \in [1..0 -> Seq({})]
  BY <1>1
<1> HIDE DEF f
<1>3. PICK g : Together(g, {}, 0, f) /\ FlattenSeq(f) = g[0]
  BY <1>1, <1>2, FlattenFacts
<1>4. g[0] = <<>>
  BY <1>3, Zenon DEF Together
<1>5. QED
  BY <1>3, <1>4, Zenon DEF Spread, f

\* Each attempt of a run made of such calls.
Calls(history, N, T) == \A k \in DOMAIN history : Called(history[k], N, T)

\* So does a run of any number of them.
LEMMA AttemptsFacts ==
  ASSUME NEW N, NEW T, Phrased(T), NEW task, NEW S, NEW history \in Seq(Seq(S)), Calls(history, N, T)
  PROVE  Attempts(task, history)[Len(history)] \in Accounts(task, N, T)
<1> DEFINE n == Len(history)
           A == Accounts(task, N, T)
           r == [st |-> NewState(task), ran |-> <<>>, last |-> <<>>]
           On(a, c) == Attempt(a, c)
           moves == [k \in 1..n |-> [a \in A |-> On(a, history[k])]]
           Is(h) == h = [k \in 0..n |-> IF k = 0 THEN r ELSE On(h[k - 1], history[k])]
<1>1. n \in Nat /\ DOMAIN history = 1..n /\ \A k \in 1..n : history[k] \in Seq(S)
  <2> DEFINE B == Seq(S)
  <2> HIDE DEF B
  <2>1. history \in Seq(B)
    BY DEF B
  <2>2. n \in Nat /\ DOMAIN history = 1..n /\ \A k \in 1..n : history[k] \in B
    BY <2>1
  <2>3. QED
    BY <2>2 DEF B
<1>2. r \in A
  <2> DEFINE none == <<>>
             U == Spoken(N, T)
             V == Voices(N, T)
             s == NewState(task)
  <2>1. none \in Seq(U) /\ none \in Seq(V)
    BY NoneIsASeq
  <2>2. none \in Hearsay(N, T) /\ DOMAIN none = {}
    <3> DEFINE K == {<<x>> : x \in N}
    <3>1. none \in [{} -> T] /\ DOMAIN none = {} /\ {} \in SUBSET K
      OBVIOUS
    <3> HIDE DEF none, K
    <3>2. none \in UNION {[D -> T] : D \in SUBSET K}
      BY <3>1, Zenon
    <3>3. QED
      BY <3>1, <3>2, Zenon DEF Hearsay, K
  <2>3. s = [task |-> task, messages |-> none, status |-> "none", vars |-> none]
    BY Zenon DEF NewState
  <2>4. Spread(SaidBy(N, T), none) = none
    BY SpreadNone
  <2>5. Len(none) = 0 /\ 1..Len(none) = {}
    OBVIOUS
  <2> HIDE DEF none, U, V, s
  <2>6. s \in Memories(task, N, T) /\ s.messages = none /\ s.vars = none
    BY <2>1, <2>2, <2>3 DEF Memories, V
  <2>7. Recalls(s, none, N, T)
    <3>1. Latest(none, none)
      BY <2>2, <2>5, Zenon DEF Latest
    <3>2. QED
      BY <2>4, <2>6, <3>1, Zenon DEF Recalls
  <2> DEFINE q == [st |-> s, ran |-> none, last |-> none]
  <2>8. q \in [st : Memories(task, N, T), ran : Seq(U), last : Seq(U)]
        /\ q.st = s /\ q.ran = none /\ q.last = none
    BY <2>1, <2>6
  <2>9. r = q
    BY Zenon DEF s, none
  <2> HIDE DEF q, r
  <2>10. none = <<>>
    BY DEF none
  <2>11. q \in A
    BY <2>7, <2>8, <2>10, Zenon DEF Accounts, U
  <2>12. QED
    BY <2>9, <2>11, Zenon
<1>3. ASSUME NEW a \in A, NEW k \in 1..n PROVE On(a, history[k]) \in A
  <2> DEFINE c == history[k]
  <2>1. c \in Seq(S) /\ Called(c, N, T)
    BY <1>1, Zenon DEF Calls
  <2> HIDE DEF c
  <2>2. Attempt(a, c) \in A
    BY <2>1, AttemptFacts
  <2>3. QED
    BY <2>2, Zenon DEF c
<1> HIDE DEF On
<1> HIDE DEF n, A, r
<1>4. moves \in [1..n -> [A -> A]]
  BY <1>3
<1>5. PICK g : Follows(g, A, r, n, moves)
  <2> HIDE DEF moves
  <2>1. QED
    BY <1>1, <1>2, <1>4, RecursionExists
<1>6. g \in [0..n -> A] /\ g[0] = r /\ \A k \in 1..n : g[k] = moves[k][g[k - 1]]
  <2> HIDE DEF moves
  <2>1. QED
    BY <1>5 DEF Follows
<1>7. \A k \in 1..n : g[k] = On(g[k - 1], history[k])
  <2> TAKE k \in 1..n
  <2>1. g[k - 1] \in A
    BY <1>1, <1>6
  <2>2. QED
    BY <1>6, <2>1
<1>8. Is(g)
  <2> HIDE DEF moves
  <2>1. g = [k \in 0..n |-> g[k]]
    BY <1>6
  <2>2. \A k \in 0..n : g[k] = IF k = 0 THEN r ELSE On(g[k - 1], history[k])
    BY <1>1, <1>6, <1>7
  <2>3. QED
    BY <2>1, <2>2
<1> DEFINE h == Attempts(task, history)
<1>9. h = CHOOSE x : Is(x)
  BY DEF Attempts, On, n, r
<1>10. Is(h)
  <2> HIDE DEF Is, h
  <2>1. QED
    BY <1>8, <1>9, Zenon
<1> HIDE DEF moves, h
<1>11. h[0] = r /\ \A k \in 1..n : h[k] = On(h[k - 1], history[k])
  BY <1>1, <1>10
<1>12. \A k \in 0..n : h[k] \in A
  <2> DEFINE Good == {k \in 0..n : h[k] \in A}
  <2>1. 0 \in Good
    BY <1>1, <1>2, <1>11
  <2>2. ASSUME NEW k \in 1..n, k - 1 \in Good PROVE k \in Good
    <3>1. h[k - 1] \in A /\ k \in 0..n
      BY <1>1, <2>2
    <3>2. On(h[k - 1], history[k]) \in A
      BY <1>3, <3>1
    <3>3. QED
      BY <1>11, <3>1, <3>2
  <2> HIDE DEF Good
  <2>3. \A k \in 0..n : k \in Good
    BY <1>1, <2>1, <2>2, Climb
  <2>4. QED
    BY <2>3 DEF Good
<1>13. n \in 0..n
  BY <1>1
<1>14. QED
  BY <1>12, <1>13, Zenon DEF h, n, A

\* Every node that has spoken is known to templates by its name, with its latest
\* words; the transcript has every word and nothing of a failed attempt; and the run
\* is reported a success exactly when no node of its last super-step failed
\* (State::apply, run_frontier, RunResult::from_state), however long the run is.
THEOREM RunsAreToldWhatWasSaid ==
  ASSUME NEW N, NEW T, Phrased(T), NEW task, NEW S, NEW history \in Seq(Seq(S)), Calls(history, N, T)
  PROVE  ToldWhatWasSaid(task, history)
<1> DEFINE end == Attempts(task, history)[Len(history)]
           st == end.st
           said == st.messages
           ran == end.ran
           last == end.last
           held == st.vars
           U == Spoken(N, T)
           V == Voices(N, T)
           F == SaidBy(N, T)
<1>1. end \in Accounts(task, N, T)
  BY AttemptsFacts
<1>2. /\ st \in Memories(task, N, T) /\ ran \in Seq(U) /\ Recalls(st, ran, N, T)
      /\ last # <<>> => (st.status = "ok" <=> Successful(last))
  <2> HIDE DEF end, U
  <2>1. /\ end \in [st : Memories(task, N, T), ran : Seq(U), last : Seq(U)]
        /\ Recalls(end.st, end.ran, N, T)
        /\ end.last # <<>> => (end.st.status = "ok" <=> Successful(end.last))
    BY <1>1, Zenon DEF Accounts, U
  <2>2. end.st \in Memories(task, N, T) /\ end.ran \in Seq(U)
    BY <2>1
  <2>3. QED
    BY <2>1, <2>2, Zenon
<1> HIDE DEF end, st
<1>3. said \in Seq(V) /\ st.task = task /\ held \in Hearsay(N, T)
  BY <1>2 DEF Memories
<1>4. said = Spread(F, ran) /\ Latest(held, said)
  BY <1>2, Zenon DEF Recalls
<1> HIDE DEF ran, last
<1>5. said = FlattenSeq([i \in DOMAIN ran |-> ran[i].messages])
  <2>1. \A i \in DOMAIN ran : ran[i] \in U
    <3> HIDE DEF U
    <3>1. QED
      BY <1>2
  <2>2. \A i \in DOMAIN ran : F[ran[i]] = ran[i].messages
    BY <2>1, Zenon DEF SaidBy
  <2>3. [i \in DOMAIN ran |-> F[ran[i]]] = [i \in DOMAIN ran |-> ran[i].messages]
    <3> HIDE DEF F
    <3>1. QED
      BY <2>2, Zenon
  <2>4. QED
    BY <1>4, <2>3, Zenon DEF Spread
<1>6. DOMAIN said = 1..Len(said)
  <2> HIDE DEF said, V
  <2>1. QED
    BY <1>3
<1>7. /\ \A key \in DOMAIN held : \E i \in DOMAIN said : key = <<said[i].node>>
      /\ \A i \in DOMAIN said : (\A j \in DOMAIN said : j > i => said[j].node # said[i].node)
           => <<said[i].node>> \in DOMAIN held /\ held[<<said[i].node>>] = said[i].text
  BY <1>4, <1>6, Zenon DEF Latest
<1>8. ASSUME NEW i \in DOMAIN said, said[i].node # "task",
             \A j \in DOMAIN said : j > i => said[j].node # said[i].node
      PROVE  Known(st, <<said[i].node>>) = <<said[i].text>>
  <2> DEFINE n == said[i].node
  <2>1. <<n>> \in DOMAIN held /\ held[<<n>>] = said[i].text
    BY <1>7, <1>8, Zenon
  <2>2. n # "task"
    BY <1>8
  <2> HIDE DEF n
  <2>3. <<n>> # <<"task">>
    BY <2>2
  <2>4. Known(st, <<n>>) = <<held[<<n>>]>>
    BY <2>1, <2>3, Zenon DEF Known
  <2>5. QED
    BY <2>1, <2>4, Zenon DEF n
<1>9. Known(st, <<"task">>) = <<task>>
  BY <1>3, Zenon DEF Known
<1>10. last # <<>> => (FromState(st).success <=> \A i \in DOMAIN last : last[i].status = "ok")
  <2>1. FromState(st).success <=> st.status = "ok"
    BY DEF FromState
  <2>2. QED
    BY <1>2, <2>1, Zenon DEF Successful, last
<1>11. QED
  BY <1>5, <1>7, <1>8, <1>9, <1>10, Zenon DEF ToldWhatWasSaid, end, st, ran, last

-----------------------------------------------------------------------------
(* What a blueprint means.                                                 *)

\* The states of the templates: some of the keys known, and nothing said yet.
LEMMA StatesKnow ==
  ASSUME NEW st \in States
  PROVE  \E D \in SUBSET Keys : st \in StatesOf(Letter, D, {<<>>}, {"none"})
<1>1. PICK D \in SUBSET Keys :
        st \in [task : Values, messages : {<<>>}, status : {"none"}, vars : [D -> Values]]
  BY Zenon DEF States
<1>2. Values \subseteq Seq(Letter)
  BY TemplateAssumption, Zenon
<1>3. st.task \in Seq(Letter) /\ st.vars \in [D -> Seq(Letter)]
  <2> DEFINE L == Seq(Letter)
  <2> HIDE DEF L
  <2>1. Values \subseteq L
    BY <1>2 DEF L
  <2>2. st.task \in L /\ st.vars \in [D -> L]
    BY <1>1, <2>1
  <2>3. QED
    BY <2>2 DEF L
<1>4. st \in StatesOf(Letter, D, {<<>>}, {"none"})
  BY <1>1, <1>3 DEF StatesOf
<1>5. QED
  BY <1>4

\* The marks are what the theorems about templates ask of marks.
LEMMA MarksAreFit ==
  ASSUME NEW D \in SUBSET Keys
  PROVE  MarksFit(Mark, Keys \cup {<<"task">>}, {Mark[key] : key \in Keys \cup {<<"task">>}}, Token, D)
<1> DEFINE K == Keys \cup {<<"task">>}
           Q == {Mark[key] : key \in K}
<1>1. /\ Mark = [key \in K |-> Mark[key]]
      /\ \A key \in DOMAIN Mark : Mark[key] \notin Token
      /\ \A j, k \in DOMAIN Mark : Mark[j] = Mark[k] => j = k
  BY TemplateAssumption, Zenon
<1>2. D \cup {<<"task">>} \subseteq K
  OBVIOUS
<1> HIDE DEF K
<1>3. DOMAIN Mark = K
  BY <1>1
<1>4. Mark \in [K -> Q]
  BY <1>1
<1>5. Q \cap Token = {}
  <2> SUFFICES ASSUME NEW q \in Q PROVE q \notin Token
    OBVIOUS
  <2>1. PICK key \in K : q = Mark[key]
    OBVIOUS
  <2>2. QED
    BY <1>1, <1>3, <2>1, Zenon
<1>6. QED
  BY <1>1, <1>2, <1>3, <1>4, <1>5, Zenon DEF MarksFit, K

\* What a state knows is a text.
LEMMA StatesAreKnown ==
  ASSUME NEW D, NEW M, NEW N, NEW st \in StatesOf(Letter, D, M, N), NEW W, Letter \subseteq W
  PROVE  Knows(st, W)
<1>1. st.task \in Seq(Letter) /\ st.vars \in [D -> Seq(Letter)]
  BY DEF StatesOf
<1>2. \A v \in Seq(Letter) : v \in Seq(W)
  OBVIOUS
<1>3. ASSUME NEW key PROVE Known(st, key) = <<>> \/ \E v \in Seq(W) : Known(st, key) = <<v>>
  <2>1. CASE key = <<"task">>
    <3>1. Known(st, key) = <<st.task>>
      BY <2>1, Zenon DEF Known
    <3>2. QED
      BY <1>1, <1>2, <3>1, Zenon
  <2>2. CASE key # <<"task">> /\ key \in D
    <3> DEFINE known == st.vars
    <3>1. known \in [D -> Seq(Letter)]
      BY <1>1
    <3>2. Known(st, key) = IF key \in DOMAIN known THEN <<known[key]>> ELSE <<>>
      BY <2>2, Zenon DEF Known
    <3> HIDE DEF known
    <3>3. key \in DOMAIN known /\ known[key] \in Seq(Letter)
      <4> DEFINE L == Seq(Letter)
      <4> HIDE DEF L
      <4>1. known \in [D -> L]
        BY <3>1 DEF L
      <4>2. key \in DOMAIN known /\ known[key] \in L
        BY <2>2, <4>1, Zenon
      <4>3. QED
        BY <4>2 DEF L
    <3>4. QED
      BY <1>2, <3>2, <3>3, Zenon
  <2>3. CASE key # <<"task">> /\ key \notin D
    <3>1. DOMAIN st.vars = D
      BY <1>1
    <3>2. Known(st, key) = <<>>
      BY <2>3, <3>1, Zenon DEF Known
    <3>3. QED
      BY <3>2
  <2>4. QED
    BY <2>1, <2>2, <2>3, Zenon
<1>4. QED
  BY <1>3, Zenon DEF Knows

\* Templates and the commands around them, for the inputs of Meaning (render,
\* render_shell, checkout_command, launch_command).
LEMMA TemplatesRenderAsWritten == RendersAsWritten
<1> DEFINE W == Token \cup Letter \cup Specials \cup {"{", "}"}
           K == Keys \cup {<<"task">>}
           Q == {Mark[key] : key \in K}
<1>1. /\ \A t \in Templates : t \in Seq(Token)
      /\ \A v \in Values : v \in Seq(Letter)
      /\ Quote \notin Token /\ "\\" \notin Token
  BY TemplateAssumption, Zenon
<1>2. Bracing(W) /\ Token \subseteq W /\ Letter \subseteq W /\ Specials \subseteq W
  BY DEF Bracing
<1> HIDE DEF W
<1>3. ASSUME NEW t \in Templates, NEW st \in States
      PROVE  /\ FilledOnce(t, st, Mark) /\ ReadToTheLetter(t, st, Mark) /\ Piecewise(t, st)
             /\ "}" \notin ToSet(t) => PutIn(t, st)
  <2>1. t \in Seq(Token)
    BY <1>1
  <2>2. PICK D \in SUBSET Keys : st \in StatesOf(Letter, D, {<<>>}, {"none"})
    BY StatesKnow
  <2>3. MarksFit(Mark, K, Q, Token, D)
    BY MarksAreFit
  <2> HIDE DEF K, Q
  <2>4. FilledOnce(t, st, Mark)
    BY <2>1, <2>2, <2>3, TemplatesFillOnce
  <2>5. ReadToTheLetter(t, st, Mark)
    BY <1>1, <2>1, <2>2, <2>3, CommandsAreReadToTheLetter
  <2>6. t \in Seq(W)
    BY <1>2, <2>1, SeqGrows
  <2>7. Knows(st, W)
    BY <1>2, <2>2, StatesAreKnown
  <2>8. Piecewise(t, st)
    BY <1>2, <2>6, <2>7, TemplatesArePiecewise
  <2>9. ASSUME "}" \notin ToSet(t) PROVE PutIn(t, st)
    <3>1. Braceless(t)
      BY <2>9, Zenon DEF Braceless, ToSet
    <3>2. QED
      BY <1>2, <2>6, <2>7, <3>1, PlaceholdersArePutIn
  <2>10. QED
    BY <2>4, <2>5, <2>8, <2>9, Zenon
<1>4. ASSUME NEW repo \in Values, NEW path \in Values, NEW refs \in {<<>>} \cup {<<v>> : v \in Values}
      PROVE  CloneIsRead(repo, path, refs)
  <2>1. repo \in Seq(Letter) /\ path \in Seq(Letter)
    BY <1>1
  <2>2. refs \in Seq(Seq(Letter)) /\ Len(refs) <= 1
    <3> DEFINE L == Seq(Letter)
    <3>1. \A v \in Values : v \in L
      BY <1>1
    <3> HIDE DEF L
    <3>2. CASE refs = <<>>
      BY <3>2 DEF L
    <3>3. CASE \E v \in Values : refs = <<v>>
      <4>1. PICK v \in Values : refs = <<v>>
        BY <3>3
      <4>2. refs \in Seq(L) /\ Len(refs) <= 1
        BY <3>1, <4>1
      <4>3. QED
        BY <4>2 DEF L
    <3>4. QED
      BY <3>2, <3>3
  <2>3. QED
    BY <2>1, <2>2, ClonesAreRead
<1>5. ASSUME NEW v \in Values PROVE LaunchIsRead(v, "7777")
  <2>1. "7777" \notin Specials
    BY DEF Specials, Quote
  <2>2. v \in Seq(Letter)
    BY <1>1
  <2> DEFINE port == "7777"
  <2> HIDE DEF port
  <2>3. port \notin Specials
    BY <2>1 DEF port
  <2>4. LaunchIsRead(v, port)
    BY <2>2, <2>3, LaunchesAreRead
  <2>5. QED
    BY <2>4 DEF port
<1>6. QED
  BY <1>3, <1>4, <1>5, Zenon DEF RendersAsWritten

\* Runs, approvals and provisions, for the inputs of Meaning (nodes.rs, container.rs,
\* State::apply).
LEMMA PlainSpeech == NodesSpeakPlainly
<1> DEFINE N == {worker.name : worker \in Workers}
           T == Seq(Letter) \cup {<<"nothing">>, <<"error">>, <<"approved">>, <<"declined">>}
           C == [node : Workers, world : Answers]
<1>1. /\ \A worker \in Workers : worker.kind \in Kinds /\ worker.env \in Seq(Spelled)
      /\ \A world \in Answers : world.hard \in BOOLEAN /\ world.ok \in BOOLEAN /\ world.text \in Seq(Letter)
      /\ Histories \subseteq Seq(Seq(C))
  BY NodeAssumption, Zenon
<1>2. Phrased(T)
  BY Zenon DEF Phrased
<1>3. \A worker \in Workers, world \in Answers : CallSo(worker, world, N, T)
  BY <1>1, Zenon DEF CallSo
<1>4. ASSUME NEW task \in Values, NEW history \in Histories PROVE ToldWhatWasSaid(task, history)
  <2>1. history \in Seq(Seq(C))
    BY <1>1
  <2>2. \A k \in DOMAIN history : \A i \in DOMAIN history[k] : history[k][i] \in C
    <3> DEFINE B == Seq(C)
    <3> HIDE DEF C
    <3>1. \A b \in B : \A i \in DOMAIN b : b[i] \in C
      OBVIOUS
    <3> HIDE DEF B
    <3>2. history \in Seq(B)
      BY <2>1 DEF B
    <3>3. \A k \in DOMAIN history : history[k] \in B
      BY <3>2
    <3>4. QED
      BY <3>1, <3>3, Zenon
  <2>3. ASSUME NEW c \in C PROVE CallSo(c.node, c.world, N, T)
    <3>1. c.node \in Workers /\ c.world \in Answers
      OBVIOUS
    <3> HIDE DEF C, N, T
    <3>2. QED
      BY <1>3, <3>1, Zenon
  <2> HIDE DEF C, N, T
  <2>4. Calls(history, N, T)
    BY <2>2, <2>3, Zenon DEF Calls, Called
  <2>5. QED
    BY <1>2, <2>1, <2>4, RunsAreToldWhatWasSaid
<1>5. ASSUME NEW worker \in Workers, NEW st \in States, NEW world \in Answers
      PROVE  SilenceIsNoApproval(worker, st, world) /\ ProvisionsAsAsked(worker, st, world)
  <2>1. worker.env \in Seq(Spelled)
    BY <1>1
  <2>2. ProvisionsAsAsked(worker, st, world)
    BY <2>1, ContainersAreProvisioned
  <2>3. QED
    BY <2>2, SilenceDeclines, Zenon
<1>6. QED
  BY <1>4, <1>5, Zenon DEF NodesSpeakPlainly

\* Outputs and networks, for the inputs of Meaning (docker.rs).
LEMMA HonestContainers == ContainersAreReached
<1>1. /\ MaxExecOutput \in Nat
      /\ \A chunks \in Outputs : chunks \in Seq(Seq(Chars))
      /\ \A a \in Attached : a \in Seq([name : Nat, up : BOOLEAN])
  BY ContainerAssumption, Zenon DEF Chars
<1>2. \A chunks \in Outputs : CutIsTold(chunks, MaxExecOutput)
  BY <1>1, OutputIsCutHonestly
<1>3. \A a, b \in Attached : SameEndpoint(a, b)
  <2> DEFINE A == Seq([name : Nat, up : BOOLEAN])
  <2>1. \A a, b \in A : SameEndpoint(a, b)
    BY EndpointsAreTheSame
  <2> HIDE DEF A
  <2>2. \A a \in Attached : a \in A
    BY <1>1 DEF A
  <2>3. QED
    BY <2>1, <2>2, Zenon
<1>4. QED
  BY <1>2, <1>3, Zenon DEF ContainersAreReached

\* Documents and directories, for the inputs of Meaning (yaml.rs, library.rs).
LEMMA DocumentsAreTakenAsWritten ==
  /\ \A doc \in Documents : LoadsAsWritten(doc)
  /\ \A files \in Directories : CatalogIsSound(files)
<1> DEFINE File == [stem : Spelled, yaml : BOOLEAN, utf8 : BOOLEAN, doc : Documents]
<1>1. (\A doc \in Documents : IsDocument(doc, Spelled)) /\ Directories \subseteq Seq(File)
  BY DocumentAssumption, Zenon DEF IsDocument
<1>2. \A doc \in Documents : LoadsAsWritten(doc)
  BY <1>1, DocumentsLoadAsWritten, Zenon
<1>3. ASSUME NEW files \in Directories PROVE CatalogIsSound(files)
  <2>1. files \in Seq(File)
    BY <1>1, Zenon
  <2>2. \A f \in File : f.doc \in Documents
    OBVIOUS
  <2> HIDE DEF File
  <2> DEFINE m == Len(files)
  <2>3. m \in Nat /\ DOMAIN files = 1..m /\ \A i \in 1..m : files[i] \in File
    BY <2>1
  <2> HIDE DEF m
  <2>4. \A i \in 1..m : IsDocument(files[i].doc, Spelled)
    BY <1>1, <2>2, <2>3, Zenon
  <2>5. QED
    BY <2>3, <2>4, CatalogsAreSound
<1>4. QED
  BY <1>2, <1>3

\* A blueprint means what its text says (MeansItsText), whatever the documents, the
\* templates, the values, the nodes and what the world answers them are, however
\* long the runs and the output of the commands.
THEOREM BlueprintsMeanTheirText == Spec => []MeansItsText
<1>1. MeansItsText
  BY DocumentsAreTakenAsWritten, TemplatesRenderAsWritten, PlainSpeech, HonestContainers, Zenon
     DEF MeansItsText
<1>2. QED
  BY <1>1, PTL
=============================================================================
