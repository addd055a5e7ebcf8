----------------------------- MODULE RunRegistry ----------------------------
(***************************************************************************)
(* The runs of a boitata-server: the in-memory registry and its eviction   *)
(* (state.rs), the run slots, and the requests that create, resume and     *)
(* cancel runs (api.rs), with the checkpoint rows that outlive the server. *)
(*                                                                         *)
(* Requests and run tasks are concurrent; each action is the code between  *)
(* two points where another thread can change what it looks at.  What a    *)
(* run does inside is the matter of Executor; here it writes its row and   *)
(* comes back with an outcome.                                             *)
(***************************************************************************)
EXTENDS Integers, Sequences, FiniteSets

CONSTANTS
  Run,          \* run ids
  Handler,      \* requests served at the same time
  Slots,        \* MAX_CONCURRENT_RUNS
  MaxRuns,      \* MAX_RUNS
  MaxJobs,      \* model bound: run tasks ever spawned
  MaxRestarts,  \* model bound: server restarts
  MaxFaulted    \* model bound: runs with a failed checkpoint write

ASSUME RegistryAssumption ==
  /\ Slots \in Nat \ {0} /\ MaxRuns \in Nat /\ Slots <= MaxRuns
  /\ MaxJobs \in Nat /\ MaxRestarts \in Nat

VARIABLES
  runs,      \* AppState.runs: the job of each listed run, or 0
  jobs,      \* run tasks and their handles, in order of started_at
  free,      \* permits left in AppState.run_slots
  req,       \* what each request is doing, and about which run
  row,       \* the status column of the run's checkpoint, or "none"
  faulted,   \* history: runs with a failed checkpoint write
  restarts

vars == <<runs, jobs, free, req, row, faulted, restarts>>

RowState == {"none", "running", "suspended", "completed", "failed"}
Resumable == {"running", "suspended"}
RunStatus == {"running", "succeeded", "failed", "cancelled"}

\* A job holds its slot until it is done; it drives the run before it returns.
JobAt == {"starting", "driving", "returned", "recorded", "done", "killed"}
Live == {"starting", "driving", "returned"}
Holding == Live \cup {"recorded"}

Job == [run : Run, agent : BOOLEAN, resumed : BOOLEAN, pc : JobAt,
        outcome : {"none", "success", "failing", "error"},
        status : RunStatus, cancelled : BOOLEAN]

Idle == [pc |-> "idle"]
Request == {Idle} \cup
           [pc : {"read", "slot", "claim"}, kind : {"create", "resume"}, run : Run]

TypeOK ==
  /\ runs \in [Run -> 0..Len(jobs)]
  /\ jobs \in Seq(Job) /\ Len(jobs) <= MaxJobs
  /\ free \in 0..Slots
  /\ req \in [Handler -> Request]
  /\ row \in [Run -> RowState]
  /\ faulted \in SUBSET Run
  /\ restarts \in 0..MaxRestarts

Init ==
  /\ runs = [r \in Run |-> 0]
  /\ jobs = <<>>
  /\ free = Slots
  /\ req = [h \in Handler |-> Idle]
  /\ row = [r \in Run |-> "none"]
  /\ faulted = {}
  /\ restarts = 0

-----------------------------------------------------------------------------
(* The registry.                                                           *)

Listed(reg) == {r \in Run : reg[r] # 0}

\* The handle in the registry still says Running.
RunningIn(reg, js, r) == reg[r] # 0 /\ js[reg[r]].status = "running"

\* Mutant: running runs are evicted like any other.
Evictable_Any(reg, js) == Listed(reg)

Evictable(reg, js) == {r \in Listed(reg) : js[reg[r]].status # "running"}

Excess(reg) == Cardinality(Listed(reg)) - MaxRuns

\* insert_evicting: put the handle in, then drop the oldest finished runs
\* beyond MAX_RUNS.
Evicted(reg, js) ==
  {r \in Evictable(reg, js) :
     Cardinality({q \in Evictable(reg, js) : reg[q] < reg[r]}) < Excess(reg)}

Insert(r, js) ==
  LET reg == [runs EXCEPT ![r] = Len(js)]
  IN  [q \in Run |-> IF q \in Evicted(reg, js) THEN 0 ELSE reg[q]]

-----------------------------------------------------------------------------
(* create_run and resume_run.                                              *)

At(h, pc) == req[h].pc = pc
Goto(h, pc) == req' = [req EXCEPT ![h].pc = pc]
Answer(h) == req' = [req EXCEPT ![h] = Idle]

\* A request for a new run, past its validation; the id is fresh.
AskCreate(h, r) ==
  /\ At(h, "idle")
  /\ \A j \in 1..Len(jobs) : jobs[j].run # r
  /\ \A i \in Handler : req[i] # Idle => req[i].run # r
  /\ Len(jobs) < MaxJobs
  /\ req' = [req EXCEPT ![h] = [pc |-> "slot", kind |-> "create", run |-> r]]
  /\ UNCHANGED <<runs, jobs, free, row, faulted, restarts>>

\* A resume names a run create_run has answered for, and is refused at once
\* while that run is running.
AskResume(h, r) ==
  /\ At(h, "idle")
  /\ \E j \in 1..Len(jobs) : jobs[j].run = r
  /\ ~RunningIn(runs, jobs, r)
  /\ Len(jobs) < MaxJobs
  /\ req' = [req EXCEPT ![h] = [pc |-> "read", kind |-> "resume", run |-> r]]
  /\ UNCHANGED <<runs, jobs, free, row, faulted, restarts>>

\* get_checkpoint: the record must exist and be resumable; the read may fail,
\* or the blueprint may have left the catalog.
ReadRecord(h) ==
  /\ At(h, "read")
  /\ \/ row[req[h].run] \in Resumable /\ Goto(h, "slot")
     \/ Answer(h)
  /\ UNCHANGED <<runs, jobs, free, row, faulted, restarts>>

TakeSlot(h) ==
  /\ At(h, "slot")
  /\ free > 0
  /\ free' = free - 1
  /\ Goto(h, "claim")
  /\ UNCHANGED <<runs, jobs, row, faulted, restarts>>

NoSlot(h) ==
  /\ At(h, "slot")
  /\ free = 0
  /\ Answer(h)
  /\ UNCHANGED <<runs, jobs, free, row, faulted, restarts>>

\* Mutant: the id is claimed without looking at who holds it.
MayClaim_Always(h) == TRUE

\* register_run is unconditional; try_register_run wants no running holder.
MayClaim(h) == req[h].kind = "create" \/ ~RunningIn(runs, jobs, req[h].run)

\* Register the handle under the registry's lock and spawn the task.
Claim(h) ==
  /\ At(h, "claim")
  /\ MayClaim(h)
  /\ Len(jobs) < MaxJobs
  /\ \E agent \in BOOLEAN :
       /\ req[h].kind = "resume" => ~agent
       /\ jobs' = Append(jobs,
            [run |-> req[h].run, agent |-> agent, resumed |-> req[h].kind = "resume",
             pc |-> "starting", outcome |-> "none", status |-> "running",
             cancelled |-> FALSE])
  /\ runs' = Insert(req[h].run, jobs')
  /\ Answer(h)
  /\ UNCHANGED <<free, row, faulted, restarts>>

\* Mutant: the permit of a refused resume is forgotten.
Conflict_KeepsPermit(h) ==
  /\ At(h, "claim") /\ ~MayClaim(h)
  /\ Answer(h)
  /\ UNCHANGED <<runs, jobs, free, row, faulted, restarts>>

\* 409: somebody else claimed the id; the permit is dropped.
Conflict(h) ==
  /\ At(h, "claim")
  /\ ~MayClaim(h)
  /\ free' = free + 1
  /\ Answer(h)
  /\ UNCHANGED <<runs, jobs, row, faulted, restarts>>

\* cancel_run reaches the job the registry lists; on one that has recorded its
\* outcome it has no effect.
CancelRun(r) ==
  /\ runs[r] # 0
  /\ jobs[runs[r]].pc \in Live
  /\ ~jobs[runs[r]].cancelled
  /\ jobs' = [jobs EXCEPT ![runs[r]].cancelled = TRUE]
  /\ UNCHANGED <<runs, free, req, row, faulted, restarts>>

-----------------------------------------------------------------------------
(* run_job and resume_job.                                                 *)

JobIs(j, pc) == jobs[j].pc = pc
Return(j, outcome) ==
  jobs' = [jobs EXCEPT ![j].pc = "returned", ![j].outcome = outcome]

\* A write of the run's row, which may fail without the run noticing.
Write(j, s) ==
  \/ row' = [row EXCEPT ![jobs[j].run] = s] /\ UNCHANGED faulted
  \/ /\ faulted' = faulted \cup {jobs[j].run}
     /\ Cardinality(faulted') <= MaxFaulted
     /\ UNCHANGED row

\* set_checkpoint_status does nothing for a run without a row.
WriteStatus(j, s) ==
  IF row[jobs[j].run] = "none" THEN UNCHANGED <<row, faulted>> ELSE Write(j, s)

\* Mutant: the executor drives whatever row it loads.
Drivable_Any(j) == jobs[j].resumed => row[jobs[j].run] # "none"

\* A resumed run loads its row again and drives it only if it is resumable.
Drivable(j) == jobs[j].resumed => row[jobs[j].run] \in Resumable

Begin(j) ==
  /\ JobIs(j, "starting")
  /\ Drivable(j)
  /\ jobs' = [jobs EXCEPT ![j].pc = "driving"]
  /\ UNCHANGED <<runs, free, req, row, faulted, restarts>>

\* The blueprint does not load, or the row is not resumable (any more).
Refuse(j) ==
  /\ JobIs(j, "starting")
  /\ ~jobs[j].agent
  /\ Return(j, "error")
  /\ UNCHANGED <<runs, free, req, row, faulted, restarts>>

\* A super-step saves its snapshot with status running.
Save(j) ==
  /\ JobIs(j, "driving")
  /\ ~jobs[j].agent
  /\ Write(j, "running")
  /\ UNCHANGED <<runs, jobs, free, req, restarts>>

\* The run stores its status and returns; a blueprint that reached its end may
\* still have a failing status, and an interrupted one returns its state.
Drive(j) ==
  /\ JobIs(j, "driving")
  /\ \/ /\ ~jobs[j].agent
        /\ WriteStatus(j, "completed")
        /\ \E o \in {"success", "failing"} : Return(j, o)
     \/ /\ ~jobs[j].agent
        /\ jobs[j].cancelled
        /\ WriteStatus(j, "suspended")
        /\ \E o \in {"success", "failing"} : Return(j, o)
     \/ /\ ~jobs[j].agent
        /\ WriteStatus(j, "failed")
        /\ Return(j, "error")
     \/ /\ jobs[j].agent
        /\ \E o \in {"success", "failing", "error"} : Return(j, o)
        /\ UNCHANGED <<row, faulted>>
  /\ UNCHANGED <<runs, free, req, restarts>>

\* FinishGuard on the unwind path.
Panic(j) ==
  /\ JobIs(j, "driving")
  /\ jobs' = [jobs EXCEPT ![j].pc = "recorded", ![j].status = "failed"]
  /\ UNCHANGED <<runs, free, req, row, faulted, restarts>>

\* Mutant: the outcome alone decides the status.
Recorded_Outcome(job) == IF job.outcome = "success" THEN "succeeded" ELSE "failed"

\* record_outcome: a cancelled run is Cancelled whatever it returned.
Recorded(job) ==
  IF job.cancelled THEN "cancelled"
  ELSE IF job.outcome = "success" THEN "succeeded" ELSE "failed"

RecordOutcome(j) ==
  /\ JobIs(j, "returned")
  /\ jobs' = [jobs EXCEPT ![j].pc = "recorded", ![j].status = Recorded(jobs[j]),
                          ![j].outcome = "none"]
  /\ UNCHANGED <<runs, free, req, row, faulted, restarts>>

\* What is left of a task: its handle, or nothing when its server has died.
Left(job, pc, status) ==
  [run |-> job.run, agent |-> FALSE, resumed |-> FALSE, pc |-> pc,
   outcome |-> "none", status |-> status, cancelled |-> FALSE]

\* The guard fires finished (see EventStream), then the permit is dropped.
Release(j) ==
  /\ JobIs(j, "recorded")
  /\ jobs' = [jobs EXCEPT ![j] = Left(@, "done", @.status)]
  /\ free' = free + 1
  /\ UNCHANGED <<runs, req, row, faulted, restarts>>

-----------------------------------------------------------------------------
\* The server dies and comes back: only the rows survive.
Restart ==
  /\ restarts < MaxRestarts
  /\ restarts' = restarts + 1
  /\ runs' = [r \in Run |-> 0]
  /\ jobs' = [j \in 1..Len(jobs) |-> Left(jobs[j], "killed", "failed")]
  /\ free' = Slots
  /\ req' = [h \in Handler |-> Idle]
  /\ UNCHANGED <<row, faulted>>

Serve(h) ==
  \/ \E r \in Run : AskCreate(h, r) \/ AskResume(h, r)
  \/ ReadRecord(h) \/ TakeSlot(h) \/ NoSlot(h) \/ Claim(h) \/ Conflict(h)

Work(j) ==
  \/ Begin(j) \/ Refuse(j) \/ Save(j) \/ Drive(j) \/ Panic(j)
  \/ RecordOutcome(j) \/ Release(j)

Next ==
  \/ \E h \in Handler : Serve(h)
  \/ \E j \in 1..Len(jobs) : Work(j)
  \/ \E r \in Run : CancelRun(r)
  \/ Restart

Spec == Init /\ [][Next]_vars

-----------------------------------------------------------------------------
\* A checkpoint is never driven twice at a time, whatever resumes race and
\* whatever is evicted meanwhile (try_register_run).
OneDriver ==
  \A i, j \in 1..Len(jobs) :
    i # j /\ jobs[i].pc \in Live /\ jobs[j].pc \in Live => jobs[i].run # jobs[j].run

\* A live run is always the one the registry lists under its id, so that a
\* cancel reaches it and a resume conflicts with it ("In-flight runs are never
\* evicted", register_run); and eviction keeps up all the same, for there are no
\* more slots than entries (insert_evicting).
LiveIsListed ==
  /\ \A j \in 1..Len(jobs) : jobs[j].pc \in Live => runs[jobs[j].run] = j
  /\ Cardinality(Listed(runs)) <= MaxRuns

\* Slots are neither lost nor forged by refusals, conflicts, panics and
\* restarts, so no more runs execute than MAX_CONCURRENT_RUNS.
SlotsConserved ==
  free + Cardinality({j \in 1..Len(jobs) : jobs[j].pc \in Holding})
       + Cardinality({h \in Handler : At(h, "claim")}) = Slots

\* What a client is told succeeded is completed on disk, unless a write of
\* that run failed or it has no row (record_outcome, set_checkpoint_status).
SucceededIsCompleted ==
  \A j \in 1..Len(jobs) :
    LET r == jobs[j].run
    IN  jobs[j].status = "succeeded" /\ r \notin faulted /\ row[r] # "none"
          => row[r] = "completed"

\* A run that is over is never opened again: a resume that was let in on a
\* record that has meanwhile completed leaves the row alone (checkpoint.rs).
OverIsFinal ==
  [][\A r \in Run : row[r] \in {"completed", "failed"} => row'[r] = row[r]]_vars

\* The live job that holds a run, or 0.
HolderOf(r) == IF runs[r] # 0 /\ jobs[runs[r]].pc \in Live THEN runs[r] ELSE 0

\* From outside, being registered and live is a lease on the run: whatever races,
\* is evicted, panics or restarts, no second one is given while it is out, only its
\* holder touches the row, and no holder opens a row that was closed, not even one
\* let in on an older record (try_register_run, resume_job, checkpoint.rs).
Lease == INSTANCE RunLease WITH
           issued <- Len(jobs),
           lease  <- [r \in Run |-> HolderOf(r)],
           record <- row

ImplementsLease == Lease!Spec
=============================================================================
