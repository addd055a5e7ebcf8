------------------------- MODULE RunRegistryProofs --------------------------
(***************************************************************************)
(* Proofs about RunRegistry for every number of runs, requests, slots and  *)
(* entries: no run is driven twice at a time, eviction never drops a live  *)
(* one, slots are conserved, and what is over or succeeded stays so.       *)
(***************************************************************************)
EXTENDS RunRegistry, Recursion, FiniteSetTheorems, TLAPS

Jobs == 1..Len(jobs)
Claims == {h \in Handler : At(h, "claim")}
Holders == {j \in Jobs : jobs[j].pc \in Holding}
Asking(h) == req[h].pc # "idle"

\* Running is what the handle of a task says until its outcome is recorded.
StatusIsLive == \A j \in Jobs : jobs[j].pc \in Live <=> jobs[j].status = "running"

\* The registry lists a job under the id of its run.
ListsItsOwn == \A r \in Run : runs[r] # 0 => jobs[runs[r]].run = r

LiveListed == \A j \in Jobs : jobs[j].pc \in Live => runs[jobs[j].run] = j

\* The id of a run that is being created is nobody else's.
CreateIsFresh ==
  \A h \in Handler : Asking(h) /\ req[h].kind = "create" =>
    /\ \A j \in Jobs : jobs[j].run # req[h].run
    /\ \A i \in Handler \ {h} : Asking(i) => req[i].run # req[h].run

Bounded == IsFiniteSet(Listed(runs)) /\ Cardinality(Listed(runs)) <= MaxRuns

Conserved ==
  /\ IsFiniteSet(Claims)
  /\ free + Cardinality(Holders) + Cardinality(Claims) = Slots

RegistryInv ==
  TypeOK /\ StatusIsLive /\ ListsItsOwn /\ LiveListed /\ CreateIsFresh
    /\ Bounded /\ Conserved

\* Of the jobs of one run, a live one is the last, and the one that created the
\* run the first.
LiveIsLast ==
  \A i, j \in Jobs : i # j /\ jobs[i].run = jobs[j].run /\ jobs[j].pc \in Live =>
    i < j /\ jobs[j].resumed

\* The row a live job finds, until it has written its last status.
RowOfDriver ==
  \A j \in Jobs :
    LET s == row[jobs[j].run] IN
    /\ jobs[j].pc \in Live /\ jobs[j].agent => ~jobs[j].resumed /\ s = "none"
    /\ jobs[j].pc = "starting" /\ ~jobs[j].resumed => s = "none"
    /\ jobs[j].pc = "driving" => s \in Resumable \cup {"none"}
    /\ jobs[j].pc = "driving" /\ jobs[j].resumed => s \in Resumable

RowHasJob == \A r \in Run : row[r] # "none" => \E j \in Jobs : jobs[j].run = r

Succeeding(job) ==
  \/ job.status = "succeeded"
  \/ job.pc = "returned" /\ job.outcome = "success" /\ ~job.cancelled

SuccessIsStored ==
  \A j \in Jobs : Succeeding(jobs[j]) /\ jobs[j].run \notin faulted =>
    row[jobs[j].run] \in {"none", "completed"}

RowInv == LiveIsLast /\ RowOfDriver /\ RowHasJob /\ SuccessIsStored

-----------------------------------------------------------------------------
(* Lemmas about one step.                                                  *)

LEMMA Constants == Slots \in Nat \ {0} /\ MaxRuns \in Nat /\ Slots <= MaxRuns
                   /\ MaxJobs \in Nat /\ MaxRestarts \in Nat
BY RegistryAssumption

\* One job of several moves on.
LEMMA JobMoves ==
  ASSUME NEW s \in Seq(Job), NEW j \in 1..Len(s), NEW v \in Job
  PROVE  LET t == [s EXCEPT ![j] = v] IN
         /\ t \in Seq(Job) /\ Len(t) = Len(s) /\ t[j] = v
         /\ \A i \in 1..Len(s) : i # j => t[i] = s[i]
OBVIOUS

\* A request is either idle or about a run.
LEMMA Requests ==
  ASSUME TypeOK, NEW h \in Handler
  PROVE  /\ req[h] = Idle <=> At(h, "idle")
         /\ ~At(h, "idle") => /\ req[h].pc \in {"read", "slot", "claim"}
                              /\ req[h].kind \in {"create", "resume"}
                              /\ req[h].run \in Run
BY DEF TypeOK, Request, Idle, At

LEMMA GotoEffect ==
  ASSUME TypeOK, NEW h \in Handler, ~At(h, "idle"), NEW pc \in {"read", "slot", "claim"}, Goto(h, pc)
  PROVE  /\ req' \in [Handler -> Request]
         /\ req'[h].pc = pc /\ req'[h].kind = req[h].kind /\ req'[h].run = req[h].run
         /\ \A i \in Handler \ {h} : req'[i] = req[i]
<1>1. req[h] \in [pc : {"read", "slot", "claim"}, kind : {"create", "resume"}, run : Run]
  BY Requests DEF TypeOK, Request, At
<1>2. req' = [req EXCEPT ![h] = [req[h] EXCEPT !.pc = pc]]
  BY DEF Goto
<1>3. [req[h] EXCEPT !.pc = pc] \in [pc : {"read", "slot", "claim"}, kind : {"create", "resume"}, run : Run]
  BY <1>1
<1>4. [req[h] EXCEPT !.pc = pc] \in Request
  BY <1>3 DEF Request
<1>5. QED
  BY <1>1, <1>2, <1>3, <1>4 DEF TypeOK

LEMMA AnswerEffect ==
  ASSUME TypeOK, NEW h \in Handler, Answer(h)
  PROVE  /\ req' \in [Handler -> Request]
         /\ req'[h].pc = "idle"
         /\ \A i \in Handler \ {h} : req'[i] = req[i]
BY DEF TypeOK, Answer, Request, Idle

\* What a request asks for changes nothing for the others when it goes on.
LEMMA FreshAfter ==
  ASSUME TypeOK, CreateIsFresh, NEW h \in Handler,
         Goto(h, "slot") \/ Goto(h, "claim") \/ Answer(h), ~At(h, "idle"),
         UNCHANGED jobs
  PROVE  CreateIsFresh'
<1>1. \A i \in Handler : req'[i].pc # "idle" =>
        Asking(i) /\ req'[i].kind = req[i].kind /\ req'[i].run = req[i].run
  BY GotoEffect, AnswerEffect DEF Asking, At
<1>2. QED
  BY <1>1 DEF CreateIsFresh, Asking, Jobs

\* A job that moves on stays the job of its run, and only a live one is live after.
Moves(j, v) ==
  /\ jobs' = [jobs EXCEPT ![j] = v]
  /\ v \in Job /\ v.run = jobs[j].run
  /\ v.pc \in Live <=> v.status = "running"
  /\ v.pc \in Live => jobs[j].pc \in Live

LEMMA JobType ==
  ASSUME TypeOK, NEW j \in Jobs
  PROVE  /\ jobs[j] \in Job /\ jobs[j].run \in Run /\ jobs[j].pc \in JobAt
         /\ jobs[j].outcome \in {"none", "success", "failing", "error"}
         /\ jobs[j].status \in RunStatus
         /\ jobs[j].agent \in BOOLEAN /\ jobs[j].resumed \in BOOLEAN
         /\ jobs[j].cancelled \in BOOLEAN
<1>1. jobs[j] \in Job
  BY DEF TypeOK, Jobs
<1>2. QED
  BY <1>1 DEF Job

LEMMA BeginMoves ==
  ASSUME TypeOK, StatusIsLive, NEW j \in Jobs, Begin(j)
  PROVE  LET v == [jobs[j] EXCEPT !.pc = "driving"] IN Moves(j, v)
<1> DEFINE v == [jobs[j] EXCEPT !.pc = "driving"]
<1>1. v \in Job
  BY JobType DEF Job, JobAt
<1>2. v.pc = "driving" /\ v.status = jobs[j].status /\ v.run = jobs[j].run
  BY JobType DEF Job
<1>3. jobs' = [jobs EXCEPT ![j] = v]
  BY DEF Begin
<1>4. jobs[j].pc \in Live /\ jobs[j].status = "running"
  BY DEF Begin, JobIs, StatusIsLive, Live
<1>5. QED
  BY <1>1, <1>2, <1>3, <1>4 DEF Moves, Live

LEMMA ReturnMoves ==
  ASSUME TypeOK, StatusIsLive, NEW j \in Jobs, NEW o \in {"success", "failing", "error"},
         JobIs(j, "starting") \/ JobIs(j, "driving"), Return(j, o)
  PROVE  LET v == [jobs[j] EXCEPT !.pc = "returned", !.outcome = o] IN Moves(j, v)
<1> DEFINE v == [jobs[j] EXCEPT !.pc = "returned", !.outcome = o]
<1>1. v \in Job
  BY JobType DEF Job, JobAt
<1>2. v.pc = "returned" /\ v.status = jobs[j].status /\ v.run = jobs[j].run
  BY JobType DEF Job
<1>3. jobs' = [jobs EXCEPT ![j] = v]
  BY JobType DEF Return, TypeOK, Jobs
<1>4. jobs[j].pc \in Live /\ jobs[j].status = "running"
  BY DEF JobIs, StatusIsLive, Live
<1>5. QED
  BY <1>1, <1>2, <1>3, <1>4 DEF Moves, Live

LEMMA PanicMoves ==
  ASSUME TypeOK, NEW j \in Jobs, Panic(j)
  PROVE  LET v == [jobs[j] EXCEPT !.pc = "recorded", !.status = "failed"] IN Moves(j, v)
<1> DEFINE v == [jobs[j] EXCEPT !.pc = "recorded", !.status = "failed"]
<1>1. v \in Job /\ v.pc = "recorded" /\ v.status = "failed" /\ v.run = jobs[j].run
  BY JobType DEF Job, JobAt, RunStatus
<1>2. jobs' = [jobs EXCEPT ![j] = v]
  BY JobType DEF Panic, TypeOK, Jobs
<1>3. QED
  BY <1>1, <1>2 DEF Moves, Live

LEMMA RecordMoves ==
  ASSUME TypeOK, NEW j \in Jobs, RecordOutcome(j)
  PROVE  LET v == [jobs[j] EXCEPT !.pc = "recorded", !.status = Recorded(jobs[j]),
                                  !.outcome = "none"] IN Moves(j, v)
<1> DEFINE v == [jobs[j] EXCEPT !.pc = "recorded", !.status = Recorded(jobs[j]),
                                !.outcome = "none"]
<1>1. Recorded(jobs[j]) \in RunStatus \ {"running"}
  BY DEF Recorded, RunStatus
<1>2. v \in Job /\ v.pc = "recorded" /\ v.status # "running" /\ v.run = jobs[j].run
  BY JobType, <1>1 DEF Job, JobAt
<1>3. jobs' = [jobs EXCEPT ![j] = v]
  BY JobType DEF RecordOutcome, TypeOK, Jobs
<1>4. QED
  BY <1>2, <1>3 DEF Moves, Live

LEMMA LeftType ==
  ASSUME TypeOK, NEW j \in Jobs, NEW pc \in JobAt, NEW status \in RunStatus
  PROVE  /\ Left(jobs[j], pc, status) \in Job
         /\ Left(jobs[j], pc, status).run = jobs[j].run
         /\ Left(jobs[j], pc, status).pc = pc
         /\ Left(jobs[j], pc, status).status = status
BY JobType DEF Left, Job

LEMMA ReleaseMoves ==
  ASSUME TypeOK, StatusIsLive, NEW j \in Jobs, Release(j)
  PROVE  Moves(j, Left(jobs[j], "done", jobs[j].status))
<1>1. jobs[j].status # "running" /\ jobs[j].status \in RunStatus
  BY JobType DEF Release, JobIs, StatusIsLive, Live
<1>2. jobs' = [jobs EXCEPT ![j] = Left(jobs[j], "done", jobs[j].status)]
  BY DEF Release
<1>3. QED
  BY <1>1, <1>2, LeftType DEF Moves, JobAt, Live

LEMMA CancelMoves ==
  ASSUME TypeOK, StatusIsLive, NEW r \in Run, CancelRun(r)
  PROVE  /\ runs[r] \in Jobs
         /\ Moves(runs[r], [jobs[runs[r]] EXCEPT !.cancelled = TRUE])
<1> DEFINE j == runs[r]
           v == [jobs[j] EXCEPT !.cancelled = TRUE]
<1>1. j \in Jobs
  BY DEF CancelRun, TypeOK, Jobs
<1>2. v \in Job /\ v.pc = jobs[j].pc /\ v.status = jobs[j].status /\ v.run = jobs[j].run
  BY JobType, <1>1 DEF Job
<1>3. jobs' = [jobs EXCEPT ![j] = v]
  BY <1>1, JobType DEF CancelRun
<1>4. QED
  BY <1>1, <1>2, <1>3 DEF Moves, StatusIsLive

\* What a move of a job leaves true.
LEMMA MovePreserves ==
  ASSUME RegistryInv, NEW j \in Jobs, NEW v, Moves(j, v), runs' = runs, req' = req
  PROVE  /\ jobs' \in Seq(Job) /\ Len(jobs') = Len(jobs)
         /\ StatusIsLive' /\ ListsItsOwn' /\ LiveListed' /\ CreateIsFresh' /\ Bounded'
<1> USE DEF RegistryInv
<1>1. /\ jobs' \in Seq(Job) /\ Len(jobs') = Len(jobs) /\ jobs'[j] = v
      /\ \A i \in Jobs : i # j => jobs'[i] = jobs[i]
  BY JobMoves DEF TypeOK, Jobs, Moves
<1>2. \A i \in Jobs : jobs'[i].run = jobs[i].run
  BY <1>1 DEF Moves
<1>3. StatusIsLive'
  BY <1>1 DEF StatusIsLive, Moves, Jobs
<1>4. ListsItsOwn'
  BY <1>1, <1>2 DEF ListsItsOwn, TypeOK, Jobs
<1>5. LiveListed'
  BY <1>1, <1>2 DEF LiveListed, Moves, Jobs
<1>6. CreateIsFresh'
  BY <1>1, <1>2 DEF CreateIsFresh, Asking, Jobs
<1>7. Bounded'
  BY DEF Bounded, Listed
<1>8. QED
  BY <1>1, <1>3, <1>4, <1>5, <1>6, <1>7

-----------------------------------------------------------------------------
(* Registration and eviction.                                              *)

Running == {j \in Jobs : jobs[j].status = "running"}

LEMMA FiniteJobs ==
  ASSUME TypeOK
  PROVE  /\ IsFiniteSet(Jobs) /\ IsFiniteSet(Holders) /\ IsFiniteSet(Running)
         /\ Cardinality(Holders) \in Nat /\ Cardinality(Running) \in Nat
<1>1. Len(jobs) \in Nat
  BY DEF TypeOK
<1>2. IsFiniteSet(Jobs)
  BY <1>1, FS_Interval DEF Jobs
<1>3. Holders \in SUBSET Jobs /\ Running \in SUBSET Jobs
  BY DEF Holders, Running
<1>4. IsFiniteSet(Holders) /\ IsFiniteSet(Running)
  BY <1>2, <1>3, FS_Subset
<1>5. QED
  BY <1>2, <1>4, FS_CardinalityType

\* While a request holds a permit, fewer runs are running than may be listed.
LEMMA RoomForOne ==
  ASSUME RegistryInv, NEW h \in Handler, At(h, "claim")
  PROVE  Cardinality(Running) < MaxRuns
<1>1. Running \in SUBSET Holders
  BY DEF RegistryInv, StatusIsLive, Running, Holders, Holding
<1>2. Cardinality(Running) <= Cardinality(Holders)
  BY <1>1, FiniteJobs, FS_Subset DEF RegistryInv
<1>3. Claims # {} /\ IsFiniteSet(Claims)
  BY DEF Claims, RegistryInv, Conserved
<1>4. Cardinality(Claims) \in Nat /\ Cardinality(Claims) # 0
  BY <1>3, FS_EmptySet, FS_CardinalityType
<1>5. free + Cardinality(Holders) + Cardinality(Claims) = Slots /\ free \in Nat
  BY DEF RegistryInv, Conserved, TypeOK
<1>6. Cardinality(Holders) < Slots
  BY <1>4, <1>5, FiniteJobs, Constants DEF RegistryInv
<1>7. QED
  BY <1>2, <1>6, FiniteJobs, Constants DEF RegistryInv

\* insert_evicting: the new run is listed, no running one is dropped, and there
\* is room again.
LEMMA InsertEffect ==
  ASSUME TypeOK, ListsItsOwn, Bounded, Cardinality(Running) < MaxRuns,
         NEW r \in Run, runs[r] # 0 => jobs[runs[r]].status # "running",
         NEW v \in Job, v.status = "running", jobs' = Append(jobs, v)
  PROVE  LET new == Insert(r, jobs') IN
         /\ new \in [Run -> 0..Len(jobs')]
         /\ new[r] = Len(jobs')
         /\ \A q \in Run \ {r} : new[q] = 0 \/ new[q] = runs[q]
         /\ \A q \in Run : RunningIn(runs, jobs, q) => new[q] = runs[q]
         /\ IsFiniteSet(Listed(new)) /\ Cardinality(Listed(new)) <= MaxRuns
<1> DEFINE js == jobs'
           n == Len(js)
           reg == [runs EXCEPT ![r] = n]
           L == Listed(reg)
           Ev == Evictable(reg, js)
           E == Evicted(reg, js)
           new == Insert(r, js)
<1>1. n = Len(jobs) + 1 /\ n \in Nat /\ js[n] = v /\ \A j \in Jobs : js[j] = jobs[j]
  BY DEF TypeOK, Jobs
<1>2. reg \in [Run -> 0..n] /\ reg[r] = n /\ \A q \in Run \ {r} : reg[q] = runs[q]
  BY <1>1 DEF TypeOK
<1>3. \A q \in Run : reg[q] # 0 /\ q # r => runs[q] \in Jobs /\ js[reg[q]] = jobs[runs[q]]
  BY <1>1, <1>2 DEF TypeOK, Jobs
<1>4. new = [q \in Run |-> IF q \in E THEN 0 ELSE reg[q]]
  BY DEF Insert
<1>5. Ev = {q \in L : js[reg[q]].status # "running"} /\ E \subseteq Ev /\ r \notin Ev
  BY <1>1, <1>2 DEF Evictable, Evicted
<1>6. L = Listed(runs) \cup {r} /\ L = {q \in Run : reg[q] # 0}
  BY <1>1, <1>2 DEF Listed
<1> HIDE DEF n, reg, L, Ev, E, new
<1>7. IsFiniteSet(L) /\ Cardinality(L) \in Nat /\ Cardinality(L) <= MaxRuns + 1
  <2>1. IsFiniteSet(L) /\ (Cardinality(L) = Cardinality(Listed(runs)) \/
                           Cardinality(L) = Cardinality(Listed(runs)) + 1)
    BY <1>6, FS_AddElement DEF Bounded
  <2>2. Cardinality(Listed(runs)) \in Nat /\ Cardinality(Listed(runs)) <= MaxRuns
    BY FS_CardinalityType DEF Bounded
  <2>3. QED
    BY <2>1, <2>2, Constants
<1>8. Listed(new) \in SUBSET L
  BY <1>4, <1>6 DEF Listed
<1>9. Cardinality(Listed(new)) <= MaxRuns
  <2>1. CASE Cardinality(L) <= MaxRuns
    <3>1. Cardinality(Listed(new)) <= Cardinality(L) /\ IsFiniteSet(Listed(new))
      BY <1>7, <1>8, FS_Subset
    <3>2. Cardinality(Listed(new)) \in Nat
      BY <3>1, FS_CardinalityType
    <3>3. QED
      BY <1>7, <2>1, <3>1, <3>2, Constants
  <2>2. CASE Cardinality(L) = MaxRuns + 1
    <3>1. Excess(reg) = 1
      BY <2>2, Constants DEF Excess, L
    <3>2. Ev # {}
      <4>1. SUFFICES ASSUME Ev = {} PROVE FALSE
        OBVIOUS
      <4> DEFINE A == L \ {r}
                 f == [q \in A |-> runs[q]]
      <4>2. \A q \in A : runs[q] \in Running /\ jobs[runs[q]].run = q
        BY <1>1, <1>2, <1>3, <1>5, <1>6, <4>1 DEF Running, ListsItsOwn
      <4>3. f \in Injection(A, Running)
        <5>1. f \in [A -> Running]
          BY <4>2
        <5>2. \A a, b \in A : f[a] = f[b] => a = b
          BY <4>2
        <5>3. QED
          BY <5>1, <5>2 DEF Injection, IsInjective
      <4>4. Cardinality(A) <= Cardinality(Running)
        BY <4>3, FiniteJobs, FS_Injection
      <4>5. Cardinality(A) = Cardinality(L) - 1
        BY <1>6, <1>7, FS_RemoveElement
      <4>6. QED
        BY <2>2, <4>4, <4>5, FiniteJobs, Constants
    <3>3. PICK q0 \in Ev : \A q \in Ev : reg[q0] <= reg[q]
      <4> DEFINE T == {reg[q] : q \in Ev}
      <4>1. Ev \subseteq Run
        BY <1>5, <1>6
      <4>2. T \in SUBSET Nat /\ T # {}
        BY <1>1, <1>2, <3>2, <4>1
      <4>3. PICK x \in T : \A y \in T : x <= y
        BY <4>2, LeastNat
      <4>4. QED
        BY <4>3
    <3>4. q0 \in E
      <4>1. {q \in Ev : reg[q] < reg[q0]} = {}
        <5>1. Ev \subseteq Run
          BY <1>5, <1>6
        <5>2. \A q \in Ev : reg[q] \in Nat
          BY <1>1, <1>2, <5>1
        <5>3. QED
          BY <3>3, <5>2
      <4>2. Cardinality({q \in Ev : reg[q] < reg[q0]}) < Excess(reg)
        <5>1. Cardinality({q \in Ev : reg[q] < reg[q0]}) = 0
          BY <4>1, FS_EmptySet
        <5>2. QED
          BY <3>1, <5>1
      <4>3. QED
        BY <4>2 DEF E, Ev, Evicted
    <3>5. Listed(new) \in SUBSET (L \ {q0}) /\ q0 \in L
      BY <1>4, <1>5, <1>8, <3>4 DEF Listed
    <3>6. IsFiniteSet(L \ {q0}) /\ Cardinality(L \ {q0}) = MaxRuns
      BY <1>7, <2>2, <3>5, FS_RemoveElement, Constants
    <3>7. QED
      BY <3>5, <3>6, FS_Subset
  <2>3. QED
    BY <1>7, <2>1, <2>2, Constants
<1>10. new \in [Run -> 0..n] /\ new[r] = n
  BY <1>1, <1>2, <1>4, <1>5
<1>11. \A q \in Run \ {r} : new[q] = 0 \/ new[q] = runs[q]
  BY <1>2, <1>4
<1>12. ASSUME NEW q \in Run, RunningIn(runs, jobs, q) PROVE new[q] = runs[q]
  <2>1. q # r /\ reg[q] = runs[q] /\ reg[q] # 0
    BY <1>2, <1>12 DEF RunningIn
  <2>2. q \notin Ev
    BY <1>3, <1>5, <1>12, <2>1 DEF RunningIn
  <2>3. QED
    BY <1>4, <1>5, <2>1, <2>2
<1>13. IsFiniteSet(Listed(new))
  BY <1>7, <1>8, FS_Subset
<1>14. QED
  BY <1>9, <1>10, <1>11, <1>12, <1>13 DEF new, n

-----------------------------------------------------------------------------
(* The invariant of the registry.                                          *)

LEMMA InitRegistryInv == Init => RegistryInv
<1> SUFFICES ASSUME Init PROVE RegistryInv
  OBVIOUS
<1> USE DEF Init
<1>1. Jobs = {} /\ Len(jobs) = 0
  BY DEF Jobs
<1>2. TypeOK
  BY <1>1, Constants DEF TypeOK, RowState, Request
<1>3. Listed(runs) = {} /\ Claims = {} /\ Holders = {}
  BY <1>1 DEF Listed, Claims, At, Idle, Holders
<1>4. Bounded /\ Conserved
  <2>1. /\ IsFiniteSet(Listed(runs)) /\ Cardinality(Listed(runs)) = 0
        /\ IsFiniteSet(Claims) /\ Cardinality(Claims) = 0 /\ Cardinality(Holders) = 0
    BY <1>3, FS_EmptySet
  <2>2. QED
    BY <2>1, Constants DEF Bounded, Conserved
<1>5. CreateIsFresh
  BY DEF CreateIsFresh, Asking, Idle
<1>6. StatusIsLive /\ ListsItsOwn /\ LiveListed
  BY <1>1 DEF StatusIsLive, ListsItsOwn, LiveListed
<1>7. QED
  BY <1>2, <1>4, <1>5, <1>6 DEF RegistryInv

\* A request that goes on without a job.
LEMMA RequestPreserves ==
  ASSUME RegistryInv, UNCHANGED <<runs, jobs>>, CreateIsFresh',
         req' \in [Handler -> Request], free' \in 0..Slots, Conserved',
         row' \in [Run -> RowState], faulted' \in SUBSET Run, restarts' = restarts
  PROVE  RegistryInv'
<1>1. TypeOK' /\ StatusIsLive' /\ ListsItsOwn' /\ LiveListed' /\ Bounded'
  BY DEF RegistryInv, TypeOK, StatusIsLive, ListsItsOwn, LiveListed, Bounded, Listed, Jobs
<1>2. QED
  BY <1>1 DEF RegistryInv

LEMMA SameHolders ==
  ASSUME UNCHANGED jobs
  PROVE  Holders' = Holders
BY DEF Holders, Jobs

\* A request that does not end or begin to hold a permit.
LEMMA SameClaims ==
  ASSUME Conserved, UNCHANGED <<free, jobs>>, Claims' = Claims
  PROVE  Conserved'
BY SameHolders DEF Conserved

LEMMA AskCreatePreserves ==
  ASSUME RegistryInv, NEW h \in Handler, NEW r \in Run, AskCreate(h, r)
  PROVE  RegistryInv'
<1> USE DEF RegistryInv, AskCreate
<1> DEFINE new == [pc |-> "slot", kind |-> "create", run |-> r]
<1>1. new \in Request
  BY DEF Request
<1>2. /\ req' \in [Handler -> Request] /\ req'[h] = new
      /\ \A i \in Handler \ {h} : req'[i] = req[i]
  BY <1>1 DEF TypeOK
<1>3. \A i \in Handler : Asking(i) => req[i].run # r
  BY Requests DEF Asking, Idle
<1>4. CreateIsFresh'
  BY <1>2, <1>3 DEF CreateIsFresh, Asking, Jobs
<1>5. Claims' = Claims
  BY <1>2 DEF Claims, At
<1>6. QED
  BY <1>2, <1>4, <1>5, SameClaims, RequestPreserves DEF TypeOK

LEMMA AskResumePreserves ==
  ASSUME RegistryInv, NEW h \in Handler, NEW r \in Run, AskResume(h, r)
  PROVE  RegistryInv'
<1> USE DEF RegistryInv, AskResume
<1> DEFINE new == [pc |-> "read", kind |-> "resume", run |-> r]
<1>1. new \in Request
  BY DEF Request
<1>2. /\ req' \in [Handler -> Request] /\ req'[h] = new
      /\ \A i \in Handler \ {h} : req'[i] = req[i]
  BY <1>1 DEF TypeOK
<1>3. \A i \in Handler : Asking(i) /\ req[i].kind = "create" => req[i].run # r
  BY DEF CreateIsFresh, Jobs
<1>4. CreateIsFresh'
  BY <1>2, <1>3 DEF CreateIsFresh, Asking, Jobs
<1>5. Claims' = Claims
  BY <1>2 DEF Claims, At
<1>6. QED
  BY <1>2, <1>4, <1>5, SameClaims, RequestPreserves DEF TypeOK

LEMMA ReadRecordPreserves ==
  ASSUME RegistryInv, NEW h \in Handler, ReadRecord(h)
  PROVE  RegistryInv'
<1> USE DEF RegistryInv, ReadRecord
<1>1. ~At(h, "idle") /\ (Goto(h, "slot") \/ Answer(h))
  BY DEF At
<1>2. CreateIsFresh'
  BY <1>1, FreshAfter
<1>3. req' \in [Handler -> Request] /\ Claims' = Claims
  BY <1>1, GotoEffect, AnswerEffect DEF Claims, At
<1>4. QED
  BY <1>2, <1>3, SameClaims, RequestPreserves DEF TypeOK

LEMMA NoSlotPreserves ==
  ASSUME RegistryInv, NEW h \in Handler, NoSlot(h)
  PROVE  RegistryInv'
<1> USE DEF RegistryInv, NoSlot
<1>1. ~At(h, "idle") /\ Answer(h)
  BY DEF At
<1>2. CreateIsFresh'
  BY <1>1, FreshAfter
<1>3. req' \in [Handler -> Request] /\ Claims' = Claims
  BY <1>1, AnswerEffect DEF Claims, At
<1>4. QED
  BY <1>2, <1>3, SameClaims, RequestPreserves DEF TypeOK

LEMMA TakeSlotPreserves ==
  ASSUME RegistryInv, NEW h \in Handler, TakeSlot(h)
  PROVE  RegistryInv'
<1> USE DEF RegistryInv, TakeSlot
<1>1. ~At(h, "idle") /\ Goto(h, "claim")
  BY DEF At
<1>2. CreateIsFresh'
  BY <1>1, FreshAfter
<1>3. req' \in [Handler -> Request] /\ Claims' = Claims \cup {h} /\ h \notin Claims
  BY <1>1, GotoEffect DEF Claims, At
<1>4. free' \in 0..Slots /\ free \in Nat
  BY Constants DEF TypeOK
<1>5. Conserved'
  <2>1. IsFiniteSet(Claims') /\ Cardinality(Claims') = Cardinality(Claims) + 1
    BY <1>3, FS_AddElement DEF Conserved
  <2>2. Cardinality(Claims) \in Nat
    BY FS_CardinalityType DEF Conserved
  <2>3. QED
    BY <1>4, <2>1, <2>2, SameHolders, FiniteJobs DEF Conserved
<1>6. QED
  BY <1>2, <1>3, <1>4, <1>5, RequestPreserves DEF TypeOK

LEMMA ConflictPreserves ==
  ASSUME RegistryInv, NEW h \in Handler, Conflict(h)
  PROVE  RegistryInv'
<1> USE DEF RegistryInv, Conflict
<1>1. ~At(h, "idle") /\ Answer(h)
  BY DEF At
<1>2. CreateIsFresh'
  BY <1>1, FreshAfter
<1>3. req' \in [Handler -> Request] /\ Claims' = Claims \ {h} /\ h \in Claims
  BY <1>1, AnswerEffect DEF Claims, At
<1>4. IsFiniteSet(Claims') /\ Cardinality(Claims') = Cardinality(Claims) - 1
  BY <1>3, FS_RemoveElement DEF Conserved
<1>5. Cardinality(Claims) \in Nat /\ Cardinality(Claims') \in Nat /\ free \in Nat
  BY <1>4, FS_CardinalityType DEF Conserved, TypeOK
<1>6. Conserved'
  BY <1>4, <1>5, SameHolders, FiniteJobs DEF Conserved
<1>7. free' \in 0..Slots
  BY <1>4, <1>5, FiniteJobs, Constants DEF Conserved
<1>8. QED
  BY <1>2, <1>3, <1>6, <1>7, RequestPreserves DEF TypeOK

\* A claim that goes through finds no running holder: of a resume it is checked,
\* and the id of a new run has none.
LEMMA ClaimIsFree ==
  ASSUME RegistryInv, NEW h \in Handler, Claim(h)
  PROVE  runs[req[h].run] # 0 => jobs[runs[req[h].run]].status # "running"
<1>1. CASE req[h].kind = "create"
  <2>1. req[h].run \in Run /\ Asking(h)
    BY Requests DEF RegistryInv, Claim, At, Asking
  <2>2. \A j \in Jobs : jobs[j].run # req[h].run
    BY <1>1, <2>1 DEF RegistryInv, CreateIsFresh
  <2>3. runs[req[h].run] # 0 => /\ runs[req[h].run] \in Jobs
                               /\ jobs[runs[req[h].run]].run = req[h].run
    BY <2>1 DEF RegistryInv, TypeOK, ListsItsOwn, Jobs
  <2>4. QED
    BY <2>2, <2>3
<1>2. CASE req[h].kind # "create"
  BY <1>2 DEF Claim, MayClaim, RunningIn
<1>3. QED
  BY <1>1, <1>2

\* The job a request registers is listed and live; it takes over the permit.
LEMMA ClaimPreserves ==
  ASSUME RegistryInv, NEW h \in Handler, Claim(h)
  PROVE  RegistryInv'
<1> USE DEF RegistryInv
<1> DEFINE r == req[h].run
           n == Len(jobs) + 1
<1>1. ~At(h, "idle") /\ r \in Run /\ Answer(h) /\ UNCHANGED <<free, row, faulted, restarts>>
  BY Requests DEF Claim, At
<1>2. PICK agent \in BOOLEAN :
        jobs' = Append(jobs,
            [run |-> r, agent |-> agent, resumed |-> req[h].kind = "resume",
             pc |-> "starting", outcome |-> "none", status |-> "running",
             cancelled |-> FALSE])
  BY DEF Claim
<1> DEFINE v == [run |-> r, agent |-> agent, resumed |-> req[h].kind = "resume",
                 pc |-> "starting", outcome |-> "none", status |-> "running",
                 cancelled |-> FALSE]
<1>3. v \in Job /\ v.run = r /\ v.pc = "starting" /\ v.status = "running"
  BY <1>1 DEF Job, JobAt, RunStatus
<1>4. jobs' = Append(jobs, v)
  BY <1>2
<1> HIDE DEF v
<1>5. /\ jobs' \in Seq(Job) /\ Len(jobs') = n /\ n \in Nat /\ jobs'[n] = v
      /\ \A j \in Jobs : jobs'[j] = jobs[j]
  BY <1>3, <1>4 DEF TypeOK, Jobs
<1>6. Jobs' = Jobs \cup {n} /\ n \notin Jobs
  BY <1>5 DEF Jobs, TypeOK
<1>7. runs[r] # 0 => jobs[runs[r]].status # "running"
  BY ClaimIsFree
<1>8. Cardinality(Running) < MaxRuns
  BY RoomForOne DEF Claim
<1>9. /\ runs' \in [Run -> 0..n] /\ runs'[r] = n
      /\ \A q \in Run \ {r} : runs'[q] = 0 \/ runs'[q] = runs[q]
      /\ \A q \in Run : RunningIn(runs, jobs, q) => runs'[q] = runs[q]
      /\ IsFiniteSet(Listed(runs')) /\ Cardinality(Listed(runs')) <= MaxRuns
  <2>1. runs' = Insert(r, jobs')
    BY DEF Claim
  <2>2. /\ Insert(r, jobs') \in [Run -> 0..Len(jobs')]
        /\ Insert(r, jobs')[r] = Len(jobs')
        /\ \A q \in Run \ {r} : Insert(r, jobs')[q] = 0 \/ Insert(r, jobs')[q] = runs[q]
        /\ \A q \in Run : RunningIn(runs, jobs, q) => Insert(r, jobs')[q] = runs[q]
        /\ IsFiniteSet(Listed(Insert(r, jobs')))
        /\ Cardinality(Listed(Insert(r, jobs'))) <= MaxRuns
    <3> HIDE DEF r
    <3>1. QED
      BY <1>1, <1>3, <1>4, <1>7, <1>8, InsertEffect
  <2>3. QED
    BY <1>5, <2>1, <2>2
<1>10. /\ req' \in [Handler -> Request] /\ req'[h].pc = "idle"
       /\ \A i \in Handler \ {h} : req'[i] = req[i]
  BY <1>1, AnswerEffect
<1>11. StatusIsLive'
  BY <1>3, <1>5, <1>6 DEF StatusIsLive, Live
<1>12. ListsItsOwn'
  <2>1. ASSUME NEW q \in Run, runs'[q] # 0 PROVE jobs'[runs'[q]].run = q
    <3>1. CASE q = r
      BY <1>3, <1>5, <1>9, <3>1
    <3>2. CASE q # r
      <4>1. runs'[q] = runs[q] /\ runs[q] \in Jobs
        BY <1>9, <2>1, <3>2 DEF TypeOK, Jobs
      <4>2. QED
        BY <1>5, <2>1, <4>1 DEF ListsItsOwn
    <3>3. QED
      BY <3>1, <3>2
  <2>2. QED
    BY <2>1 DEF ListsItsOwn
<1>13. LiveListed'
  <2>1. ASSUME NEW j \in Jobs', jobs'[j].pc \in Live PROVE runs'[jobs'[j].run] = j
    <3>1. CASE j = n
      BY <1>3, <1>5, <1>9, <3>1
    <3>2. CASE j # n
      <4>1. j \in Jobs /\ jobs'[j] = jobs[j]
        BY <1>5, <1>6, <3>2
      <4>2. runs[jobs[j].run] = j /\ jobs[j].status = "running" /\ jobs[j].run \in Run
        BY <2>1, <4>1, JobType DEF LiveListed, StatusIsLive
      <4>3. j # 0
        BY <4>1 DEF Jobs
      <4>4. RunningIn(runs, jobs, jobs[j].run)
        BY <4>2, <4>3 DEF RunningIn
      <4>5. QED
        BY <1>9, <4>1, <4>2, <4>4
    <3>3. QED
      BY <3>1, <3>2
  <2>2. QED
    BY <2>1 DEF LiveListed
<1>14. CreateIsFresh'
  <2>1. ASSUME NEW i \in Handler, Asking(i)', req'[i].kind = "create"
        PROVE  /\ i # h /\ req'[i] = req[i] /\ Asking(i) /\ req[i].kind = "create"
               /\ req[i].run # r
    BY <1>1, <1>10, <2>1 DEF CreateIsFresh, Asking, At
  <2>2. \A j \in Handler : Asking(j)' => j # h /\ Asking(j) /\ req'[j] = req[j]
    BY <1>10 DEF Asking
  <2>3. QED
    BY <1>3, <1>5, <1>6, <2>1, <2>2 DEF CreateIsFresh
<1>15. Conserved'
  <2>1. Claims' = Claims \ {h} /\ h \in Claims
    BY <1>1, <1>10 DEF Claims, At, Claim
  <2>2. IsFiniteSet(Claims') /\ Cardinality(Claims') = Cardinality(Claims) - 1
    BY <2>1, FS_RemoveElement DEF Conserved
  <2>3. Holders' = Holders \cup {n} /\ n \notin Holders
    BY <1>3, <1>5, <1>6 DEF Holders, Holding, Live
  <2>4. Cardinality(Holders') = Cardinality(Holders) + 1
    BY <2>3, FiniteJobs, FS_AddElement
  <2>5. Cardinality(Claims) \in Nat /\ free \in Nat /\ free' = free
    BY <1>1, FS_CardinalityType DEF Conserved, TypeOK
  <2>6. QED
    BY <2>2, <2>4, <2>5, FiniteJobs DEF Conserved
<1>16. TypeOK'
  <2>1. Len(jobs') <= MaxJobs
    BY <1>5, Constants DEF Claim, TypeOK
  <2>2. QED
    BY <1>1, <1>5, <1>9, <1>10, <2>1 DEF TypeOK
<1>17. Bounded'
  BY <1>9 DEF Bounded, Listed
<1>18. QED
  BY <1>11, <1>12, <1>13, <1>14, <1>15, <1>16, <1>17

\* A step of a job that keeps its slot, or a cancellation.
LEMMA HoldingPreserves ==
  ASSUME RegistryInv, NEW j \in Jobs, NEW v, Moves(j, v),
         v.pc \in Holding <=> jobs[j].pc \in Holding,
         UNCHANGED <<runs, free, req, restarts>>,
         row' \in [Run -> RowState], faulted' \in SUBSET Run
  PROVE  RegistryInv'
<1>1. /\ jobs' \in Seq(Job) /\ Len(jobs') = Len(jobs)
      /\ StatusIsLive' /\ ListsItsOwn' /\ LiveListed' /\ CreateIsFresh' /\ Bounded'
  BY MovePreserves
<1>2. Holders' = Holders
  <2>1. jobs'[j] = v /\ \A i \in Jobs : i # j => jobs'[i] = jobs[i]
    BY JobMoves DEF RegistryInv, TypeOK, Jobs, Moves
  <2>2. QED
    BY <1>1, <2>1 DEF Holders, Jobs
<1>3. Claims' = Claims
  BY DEF Claims, At
<1>4. Conserved'
  BY <1>2, <1>3 DEF RegistryInv, Conserved
<1>5. TypeOK'
  BY <1>1 DEF RegistryInv, TypeOK
<1>6. QED
  BY <1>1, <1>4, <1>5 DEF RegistryInv

LEMMA ReleasePreserves ==
  ASSUME RegistryInv, NEW j \in Jobs, Release(j)
  PROVE  RegistryInv'
<1> DEFINE v == Left(jobs[j], "done", jobs[j].status)
<1> USE DEF RegistryInv
<1>1. Moves(j, v) /\ v.pc = "done"
  BY ReleaseMoves, JobType, LeftType DEF JobAt
<1>2. /\ jobs' \in Seq(Job) /\ Len(jobs') = Len(jobs)
      /\ StatusIsLive' /\ ListsItsOwn' /\ LiveListed' /\ CreateIsFresh' /\ Bounded'
  BY <1>1, MovePreserves DEF Release
<1>3. Holders' = Holders \ {j} /\ j \in Holders
  <2>1. jobs'[j] = v /\ \A i \in Jobs : i # j => jobs'[i] = jobs[i]
    BY <1>1, JobMoves DEF TypeOK, Jobs, Moves
  <2>2. QED
    BY <1>1, <1>2, <2>1 DEF Holders, Jobs, Release, JobIs, Holding, Live
<1>4. Cardinality(Holders') = Cardinality(Holders) - 1
  BY <1>3, FiniteJobs, FS_RemoveElement
<1>5. Claims' = Claims /\ IsFiniteSet(Claims) /\ Cardinality(Claims) \in Nat
  BY FS_CardinalityType DEF Claims, At, Release, Conserved
<1>6. Conserved' /\ free' \in 0..Slots
  <2>1. Holders # {} /\ Cardinality(Holders) # 0
    BY <1>3, FiniteJobs, FS_EmptySet
  <2>2. free' = free + 1 /\ free \in Nat
    BY DEF Release, TypeOK
  <2>3. QED
    BY <1>4, <1>5, <2>1, <2>2, FiniteJobs, Constants DEF Conserved
<1>7. TypeOK'
  BY <1>2, <1>6 DEF TypeOK, Release
<1>8. QED
  BY <1>2, <1>6, <1>7

LEMMA RestartPreserves ==
  ASSUME RegistryInv, Restart
  PROVE  RegistryInv'
<1> USE DEF RegistryInv
<1>1. Jobs' = Jobs /\ Len(jobs') = Len(jobs) /\ jobs' \in Seq(Job)
      /\ \A j \in Jobs : /\ jobs'[j].run = jobs[j].run
                         /\ jobs'[j].pc = "killed" /\ jobs'[j].status = "failed"
  <2>1. Len(jobs) \in Nat /\ jobs' = [j \in 1..Len(jobs) |-> Left(jobs[j], "killed", "failed")]
    BY DEF TypeOK, Restart
  <2>2. \A j \in Jobs : /\ jobs'[j] \in Job /\ jobs'[j].run = jobs[j].run
                        /\ jobs'[j].pc = "killed" /\ jobs'[j].status = "failed"
    BY <2>1, LeftType DEF Jobs, JobAt, RunStatus
  <2>3. QED
    BY <2>1, <2>2 DEF Jobs
<1>2. Listed(runs)' = {} /\ Claims' = {} /\ Holders' = {}
  BY <1>1 DEF Restart, Listed, Claims, At, Idle, Holders, Holding, Live
<1>3. Bounded' /\ Conserved'
  <2>1. /\ IsFiniteSet(Listed(runs)') /\ Cardinality(Listed(runs)') = 0
        /\ IsFiniteSet(Claims') /\ Cardinality(Claims') = 0 /\ Cardinality(Holders') = 0
    BY <1>2, FS_EmptySet
  <2>2. QED
    BY <2>1, Constants DEF Bounded, Conserved, Restart
<1>4. CreateIsFresh'
  BY DEF Restart, CreateIsFresh, Asking, Idle
<1>5. StatusIsLive' /\ ListsItsOwn' /\ LiveListed'
  BY <1>1 DEF StatusIsLive, ListsItsOwn, LiveListed, Live, Restart
<1>6. TypeOK'
  BY <1>1, Constants DEF TypeOK, Restart, Request
<1>7. QED
  BY <1>3, <1>4, <1>5, <1>6

\* Whatever a write does, the column holds a status.
LEMMA WriteType ==
  ASSUME TypeOK, NEW j \in Jobs, NEW s \in RowState, Write(j, s) \/ WriteStatus(j, s)
  PROVE  row' \in [Run -> RowState] /\ faulted' \in SUBSET Run
BY JobType DEF TypeOK, Write, WriteStatus

\* Drive returns, having written at most the status of its own run.
LEMMA DriveEffect ==
  ASSUME TypeOK, NEW j \in Jobs, Drive(j)
  PROVE  /\ JobIs(j, "driving") /\ UNCHANGED <<runs, free, req, restarts>>
         /\ \E o \in {"success", "failing", "error"} : Return(j, o)
         /\ row' \in [Run -> RowState] /\ faulted' \in SUBSET Run
<1>1. \/ \E s \in RowState : WriteStatus(j, s)
      \/ UNCHANGED <<row, faulted>>
  BY DEF Drive, RowState
<1>2. row' \in [Run -> RowState] /\ faulted' \in SUBSET Run
  BY <1>1, WriteType DEF TypeOK
<1>3. QED
  BY <1>2 DEF Drive

LEMMA WorkPreserves ==
  ASSUME RegistryInv, NEW j \in Jobs, Work(j)
  PROVE  RegistryInv'
<1> USE DEF RegistryInv
<1>1. CASE Begin(j)
  <2> DEFINE v == [jobs[j] EXCEPT !.pc = "driving"]
  <2>1. Moves(j, v) /\ v.pc = "driving" /\ jobs[j].pc = "starting"
    BY <1>1, BeginMoves, JobType DEF Begin, JobIs, Job
  <2>2. QED
    BY <1>1, <2>1, HoldingPreserves DEF Begin, TypeOK, Holding, Live
<1>2. CASE Refuse(j)
  <2> DEFINE v == [jobs[j] EXCEPT !.pc = "returned", !.outcome = "error"]
  <2>1. Moves(j, v) /\ v.pc = "returned" /\ jobs[j].pc = "starting"
    BY <1>2, ReturnMoves, JobType DEF Refuse, JobIs, Job
  <2>2. QED
    BY <1>2, <2>1, HoldingPreserves DEF Refuse, TypeOK, Holding, Live
<1>3. CASE Save(j)
  <2>1. row' \in [Run -> RowState] /\ faulted' \in SUBSET Run
    BY <1>3, WriteType DEF Save, RowState
  <2>2. CreateIsFresh' /\ Claims' = Claims
    BY <1>3 DEF Save, CreateIsFresh, Asking, Jobs, Claims, At
  <2>3. Conserved'
    BY <1>3, <2>2, SameClaims DEF Save
  <2>4. QED
    BY <1>3, <2>1, <2>2, <2>3, RequestPreserves DEF Save, TypeOK
<1>4. CASE Drive(j)
  <2>1. PICK o \in {"success", "failing", "error"} : Return(j, o)
    BY <1>4, DriveEffect
  <2> DEFINE v == [jobs[j] EXCEPT !.pc = "returned", !.outcome = o]
  <2>2. Moves(j, v) /\ v.pc = "returned" /\ jobs[j].pc = "driving"
    BY <1>4, <2>1, DriveEffect, ReturnMoves, JobType DEF JobIs, Job
  <2>3. QED
    BY <1>4, <2>2, DriveEffect, HoldingPreserves DEF Holding, Live
<1>5. CASE Panic(j)
  <2> DEFINE v == [jobs[j] EXCEPT !.pc = "recorded", !.status = "failed"]
  <2>1. Moves(j, v) /\ v.pc = "recorded" /\ jobs[j].pc = "driving"
    BY <1>5, PanicMoves, JobType DEF Panic, JobIs, Job
  <2>2. QED
    BY <1>5, <2>1, HoldingPreserves DEF Panic, TypeOK, Holding, Live
<1>6. CASE RecordOutcome(j)
  <2> DEFINE v == [jobs[j] EXCEPT !.pc = "recorded", !.status = Recorded(jobs[j]),
                                  !.outcome = "none"]
  <2>1. Moves(j, v) /\ v.pc = "recorded" /\ jobs[j].pc = "returned"
    BY <1>6, RecordMoves, JobType DEF RecordOutcome, JobIs, Job
  <2>2. QED
    BY <1>6, <2>1, HoldingPreserves DEF RecordOutcome, TypeOK, Holding, Live
<1>7. CASE Release(j)
  BY <1>7, ReleasePreserves
<1>8. QED
  BY <1>1, <1>2, <1>3, <1>4, <1>5, <1>6, <1>7 DEF Work

LEMMA CancelPreserves ==
  ASSUME RegistryInv, NEW r \in Run, CancelRun(r)
  PROVE  RegistryInv'
<1> USE DEF RegistryInv
<1> DEFINE j == runs[r]
           v == [jobs[j] EXCEPT !.cancelled = TRUE]
<1>1. j \in Jobs /\ Moves(j, v)
  BY CancelMoves
<1>2. v.pc = jobs[j].pc
  BY <1>1, JobType DEF Job
<1>3. QED
  BY <1>1, <1>2, HoldingPreserves DEF CancelRun, TypeOK

LEMMA NextRegistryInv == RegistryInv /\ [Next]_vars => RegistryInv'
<1> SUFFICES ASSUME RegistryInv, [Next]_vars PROVE RegistryInv'
  OBVIOUS
<1>1. ASSUME NEW h \in Handler, Serve(h) PROVE RegistryInv'
  BY <1>1, AskCreatePreserves, AskResumePreserves, ReadRecordPreserves,
     TakeSlotPreserves, NoSlotPreserves, ClaimPreserves, ConflictPreserves DEF Serve
<1>2. ASSUME NEW j \in 1..Len(jobs), Work(j) PROVE RegistryInv'
  BY <1>2, WorkPreserves DEF Jobs
<1>3. ASSUME NEW r \in Run, CancelRun(r) PROVE RegistryInv'
  BY <1>3, CancelPreserves
<1>4. CASE Restart
  BY <1>4, RestartPreserves
<1>5. CASE UNCHANGED vars
  BY <1>5 DEF vars, RegistryInv, TypeOK, StatusIsLive, ListsItsOwn, LiveListed,
              CreateIsFresh, Bounded, Conserved, Listed, Claims, Holders, At, Asking, Jobs
<1>6. QED
  BY <1>1, <1>2, <1>3, <1>4, <1>5 DEF Next

LEMMA RegistryInvariant == Spec => []RegistryInv
BY InitRegistryInv, NextRegistryInv, PTL DEF Spec

\* The registry's variables keep their types (AppState, api.rs).
THEOREM RegistryTypeCorrect == Spec => []TypeOK
<1>1. RegistryInv => TypeOK
  BY DEF RegistryInv
<1>2. QED
  BY RegistryInvariant, <1>1, PTL

\* However many resumes race and whatever is evicted, no checkpoint has two live
\* drivers (try_register_run).
THEOREM OneDriverHolds == Spec => []OneDriver
<1>1. RegistryInv => OneDriver
  BY JobType DEF RegistryInv, LiveListed, OneDriver, Jobs
<1>2. QED
  BY RegistryInvariant, <1>1, PTL

\* Eviction keeps every live run and still holds the registry to its size
\* (insert_evicting), whatever the sizes, as long as there are at least as many
\* entries as slots.
THEOREM LiveIsListedHolds == Spec => []LiveIsListed
<1>1. RegistryInv => LiveIsListed
  BY DEF RegistryInv, LiveListed, Bounded, LiveIsListed, Jobs
<1>2. QED
  BY RegistryInvariant, <1>1, PTL

\* No path through the handlers and the tasks loses or forges a permit
\* (run_slots).
THEOREM SlotsAreConserved == Spec => []SlotsConserved
<1>1. RegistryInv => SlotsConserved
  BY DEF RegistryInv, Conserved, SlotsConserved, Holders, Claims, Jobs
<1>2. QED
  BY RegistryInvariant, <1>1, PTL

-----------------------------------------------------------------------------
(* The rows.                                                               *)

LEMMA InitRowInv == Init => RowInv
BY DEF Init, RowInv, LiveIsLast, RowOfDriver, RowHasJob, SuccessIsStored, Jobs

\* Two live jobs have different runs.
LEMMA OneLive ==
  ASSUME RegistryInv, RowInv, NEW i \in Jobs, NEW j \in Jobs, i # j,
         jobs[i].run = jobs[j].run, jobs[j].pc \in Live
  PROVE  jobs[i].pc \notin Live /\ jobs[j].resumed
<1>1. i < j /\ jobs[j].resumed
  BY DEF RowInv, LiveIsLast
<1>2. jobs[i].pc \in Live => j < i
  BY DEF RowInv, LiveIsLast
<1>3. QED
  BY <1>1, <1>2 DEF Jobs

\* A job moves on and the rows stay.
LEMMA MoveKeepsRows ==
  ASSUME RegistryInv, RowInv, NEW j \in Jobs, NEW v, Moves(j, v),
         UNCHANGED <<row, faulted>>,
         v.pc \in Live => v.resumed = jobs[j].resumed /\ v.agent = jobs[j].agent,
         v.pc = "starting" => jobs[j].pc = "starting",
         v.pc = "driving" => /\ row[v.run] \in Resumable \cup {"none"}
                             /\ v.resumed => row[v.run] \in Resumable,
         Succeeding(v) => Succeeding(jobs[j]) \/ row[v.run] \in {"none", "completed"}
  PROVE  RowInv'
<1>1. /\ Jobs' = Jobs /\ jobs'[j] = v /\ v.run = jobs[j].run
      /\ v.pc \in Live => jobs[j].pc \in Live
      /\ \A i \in Jobs : i # j => jobs'[i] = jobs[i]
  BY JobMoves DEF RegistryInv, TypeOK, Jobs, Moves
<1>2. \A i \in Jobs : jobs'[i].run = jobs[i].run
  BY <1>1
<1>3. LiveIsLast'
  <2>1. \A i \in Jobs : jobs'[i].pc \in Live =>
          jobs[i].pc \in Live /\ jobs'[i].resumed = jobs[i].resumed
    BY <1>1
  <2>2. QED
    BY <1>1, <1>2, <2>1 DEF RowInv, LiveIsLast
<1>4. RowOfDriver'
  <2>1. ASSUME NEW i \in Jobs, i # j
        PROVE  jobs'[i] = jobs[i] /\ row'[jobs'[i].run] = row[jobs[i].run]
    BY <1>1, <2>1
  <2>2. /\ v.pc \in Live /\ v.agent => ~v.resumed /\ row[v.run] = "none"
        /\ v.pc = "starting" /\ ~v.resumed => row[v.run] = "none"
    BY <1>1 DEF RowInv, RowOfDriver, Live
  <2>3. QED
    BY <1>1, <2>1, <2>2 DEF RowInv, RowOfDriver
<1>5. RowHasJob'
  BY <1>1, <1>2 DEF RowInv, RowHasJob
<1>6. SuccessIsStored'
  <2>1. ASSUME NEW i \in Jobs, Succeeding(jobs'[i]), jobs'[i].run \notin faulted'
        PROVE  row'[jobs'[i].run] \in {"none", "completed"}
    <3>1. CASE i = j
      BY <1>1, <2>1, <3>1 DEF RowInv, SuccessIsStored
    <3>2. CASE i # j
      BY <1>1, <2>1, <3>2 DEF RowInv, SuccessIsStored
    <3>3. QED
      BY <3>1, <3>2
  <2>2. QED
    BY <1>1, <2>1 DEF SuccessIsStored
<1>7. QED
  BY <1>3, <1>4, <1>5, <1>6 DEF RowInv

\* The job that drives a run writes its row; v is the job afterwards.
LEMMA DriverWrites ==
  ASSUME RegistryInv, RowInv, NEW j \in Jobs, JobIs(j, "driving"), ~jobs[j].agent,
         NEW v, Moves(j, v), ~v.agent, NEW s \in RowState, Write(j, s),
         \/ v.pc = "driving" /\ s \in Resumable /\ v.resumed = jobs[j].resumed
         \/ v.pc = "returned" /\ v.resumed = jobs[j].resumed,
         Succeeding(v) => s = "completed"
  PROVE  RowInv'
<1> DEFINE r == jobs[j].run
<1>1. /\ Jobs' = Jobs /\ jobs'[j] = v /\ v.run = r /\ jobs[j].pc = "driving"
      /\ \A i \in Jobs : i # j => jobs'[i] = jobs[i]
  BY JobMoves DEF RegistryInv, TypeOK, Jobs, Moves, JobIs
<1>2. \A i \in Jobs : jobs'[i].run = jobs[i].run
  BY <1>1
<1>3. r \in Run /\ row \in [Run -> RowState] /\ \A q \in Run : q # r => row'[q] = row[q]
  BY JobType DEF RegistryInv, TypeOK, Write
<1>4. \/ row'[r] = s /\ faulted' = faulted
      \/ row' = row /\ r \in faulted' /\ faulted \subseteq faulted'
  BY <1>3 DEF Write
<1>5. LiveIsLast'
  <2>1. \A i \in Jobs : jobs'[i].pc \in Live =>
          jobs[i].pc \in Live /\ jobs'[i].resumed = jobs[i].resumed
    BY <1>1 DEF Live
  <2>2. QED
    BY <1>1, <1>2, <2>1 DEF RowInv, LiveIsLast
<1>6. row[r] \in Resumable \cup {"none"} /\ (jobs[j].resumed => row[r] \in Resumable)
  BY <1>1 DEF RowInv, RowOfDriver
<1>7. ASSUME NEW i \in Jobs, i # j
      PROVE  jobs'[i] = jobs[i] /\ jobs[i].run \in Run
             /\ (jobs[i].run = r => jobs[i].pc \notin Live /\ jobs[j].resumed)
  BY <1>1, <1>7, OneLive, JobType DEF RegistryInv, Live
<1>8. RowOfDriver'
  <2>1. ASSUME NEW i \in Jobs, i # j, jobs[i].pc \in Live
        PROVE  row'[jobs'[i].run] = row[jobs[i].run]
    BY <1>3, <1>7, <2>1
  <2>2. v.pc = "driving" => /\ row'[r] \in Resumable \cup {"none"}
                            /\ v.resumed => row'[r] \in Resumable
    BY <1>4, <1>6
  <2>3. QED
    BY <1>1, <1>7, <2>1, <2>2 DEF RowInv, RowOfDriver, Live
<1>9. RowHasJob'
  <2>1. ASSUME NEW q \in Run, row'[q] # "none" PROVE \E i \in Jobs : jobs[i].run = q
    <3>1. CASE q = r
      BY <3>1
    <3>2. CASE q # r
      BY <1>3, <2>1, <3>2 DEF RowInv, RowHasJob
    <3>3. QED
      BY <3>1, <3>2
  <2>2. QED
    BY <1>1, <1>2, <2>1 DEF RowHasJob
<1>10. SuccessIsStored'
  <2>1. ASSUME NEW i \in Jobs, Succeeding(jobs'[i]), jobs'[i].run \notin faulted'
        PROVE  row'[jobs'[i].run] \in {"none", "completed"}
    <3>1. CASE i = j
      BY <1>1, <1>4, <2>1, <3>1
    <3>2. CASE i # j /\ jobs[i].run # r
      BY <1>3, <1>4, <1>7, <2>1, <3>2 DEF RowInv, SuccessIsStored
    <3>3. CASE i # j /\ jobs[i].run = r
      <4>1. row[r] \in {"none", "completed"}
        BY <1>4, <1>7, <2>1, <3>3 DEF RowInv, SuccessIsStored
      <4>2. row[r] \in Resumable
        BY <1>6, <1>7, <3>3
      <4>3. QED
        BY <4>1, <4>2 DEF Resumable
    <3>4. QED
      BY <3>1, <3>2, <3>3
  <2>2. QED
    BY <1>1, <2>1 DEF SuccessIsStored
<1>11. QED
  BY <1>5, <1>8, <1>9, <1>10 DEF RowInv

LEMMA ClaimKeepsRows ==
  ASSUME RegistryInv, RegistryInv', RowInv, NEW h \in Handler, Claim(h)
  PROVE  RowInv'
<1> DEFINE r == req[h].run
           n == Len(jobs) + 1
<1>1. r \in Run /\ req[h].kind \in {"create", "resume"} /\ Asking(h)
      /\ UNCHANGED <<row, faulted>>
  BY Requests DEF RegistryInv, Claim, At, Asking
<1>2. PICK agent \in BOOLEAN :
        /\ req[h].kind = "resume" => ~agent
        /\ jobs' = Append(jobs,
            [run |-> r, agent |-> agent, resumed |-> req[h].kind = "resume",
             pc |-> "starting", outcome |-> "none", status |-> "running",
             cancelled |-> FALSE])
  BY DEF Claim
<1> DEFINE v == [run |-> r, agent |-> agent, resumed |-> req[h].kind = "resume",
                 pc |-> "starting", outcome |-> "none", status |-> "running",
                 cancelled |-> FALSE]
<1>3. /\ v \in Job /\ v.run = r /\ v.pc = "starting" /\ v.status = "running"
      /\ v.agent = agent /\ (v.resumed <=> req[h].kind = "resume")
  BY <1>1 DEF Job, JobAt, RunStatus
<1>4. jobs' = Append(jobs, v)
  BY <1>2
<1> HIDE DEF v
<1>5. /\ Jobs' = Jobs \cup {n} /\ jobs'[n] = v /\ n \in Nat
      /\ \A j \in Jobs : jobs'[j] = jobs[j] /\ j < n
  BY <1>3, <1>4 DEF RegistryInv, TypeOK, Jobs
<1>6. req[h].kind = "create" => row[r] = "none" /\ \A j \in Jobs : jobs[j].run # r
  BY <1>1 DEF RegistryInv, CreateIsFresh, RowInv, RowHasJob
<1>7. LiveIsLast'
  <2>1. ASSUME NEW i \in Jobs', NEW j \in Jobs', i # j,
               jobs'[i].run = jobs'[j].run, jobs'[j].pc \in Live
        PROVE  i < j /\ jobs'[j].resumed
    <3>1. CASE j = n
      BY <1>1, <1>3, <1>5, <1>6, <2>1, <3>1
    <3>2. CASE j # n /\ i = n
      <4>1. runs'[jobs'[n].run] = n /\ runs'[jobs'[j].run] = j
        BY <1>3, <1>5, <2>1, <3>2 DEF RegistryInv, LiveListed, Live
      <4>2. QED
        BY <2>1, <3>2, <4>1
    <3>3. CASE j # n /\ i # n
      BY <1>5, <2>1, <3>3 DEF RowInv, LiveIsLast
    <3>4. QED
      BY <3>1, <3>2, <3>3
  <2>2. QED
    BY <2>1 DEF LiveIsLast
<1>8. RowOfDriver'
  <2>1. /\ v.agent => ~v.resumed /\ row[r] = "none"
        /\ ~v.resumed => row[r] = "none"
    BY <1>1, <1>2, <1>3, <1>6
  <2>2. QED
    BY <1>1, <1>3, <1>5, <2>1 DEF RowInv, RowOfDriver
<1>9. RowHasJob'
  BY <1>1, <1>5 DEF RowInv, RowHasJob
<1>10. ~Succeeding(v)
  BY <1>3 DEF Succeeding
<1>11. SuccessIsStored'
  BY <1>1, <1>5, <1>10 DEF RowInv, SuccessIsStored
<1>12. QED
  BY <1>7, <1>8, <1>9, <1>11 DEF RowInv

LEMMA WorkKeepsRows ==
  ASSUME RegistryInv, RowInv, NEW j \in Jobs, Work(j)
  PROVE  RowInv'
<1> USE DEF RegistryInv
<1>1. CASE Begin(j)
  <2> DEFINE v == [jobs[j] EXCEPT !.pc = "driving"]
  <2>1. /\ v.pc = "driving" /\ v.resumed = jobs[j].resumed /\ v.agent = jobs[j].agent
        /\ v.run = jobs[j].run /\ v.status = jobs[j].status
    BY JobType DEF Job
  <2>2. Moves(j, v) /\ jobs[j].pc = "starting" /\ UNCHANGED <<row, faulted>>
    BY <1>1, BeginMoves DEF Begin, JobIs
  <2>3. row[v.run] \in Resumable \cup {"none"} /\ (v.resumed => row[v.run] \in Resumable)
    BY <1>1, <2>1, <2>2 DEF Begin, Drivable, RowInv, RowOfDriver
  <2>4. Succeeding(v) => Succeeding(jobs[j])
    BY <2>1 DEF Succeeding
  <2> HIDE DEF v
  <2>5. QED
    BY <2>1, <2>2, <2>3, <2>4, MoveKeepsRows
<1>2. CASE Refuse(j)
  <2> DEFINE v == [jobs[j] EXCEPT !.pc = "returned", !.outcome = "error"]
  <2>1. /\ v.pc = "returned" /\ v.resumed = jobs[j].resumed /\ v.agent = jobs[j].agent
        /\ v.outcome = "error" /\ v.status = jobs[j].status
    BY JobType DEF Job
  <2>2. Moves(j, v) /\ UNCHANGED <<row, faulted>>
    BY <1>2, ReturnMoves DEF Refuse
  <2>3. Succeeding(v) => Succeeding(jobs[j])
    BY <2>1 DEF Succeeding
  <2> HIDE DEF v
  <2>4. QED
    BY <2>1, <2>2, <2>3, MoveKeepsRows
<1>3. CASE Save(j)
  <2> DEFINE v == jobs[j]
  <2>1. jobs' = [jobs EXCEPT ![j] = v] /\ v \in Job
    BY <1>3, JobType DEF Save, TypeOK, Jobs
  <2>2. Moves(j, v) /\ v.pc = "driving" /\ ~v.agent /\ Write(j, "running")
    BY <1>3, <2>1 DEF Moves, Save, JobIs, StatusIsLive
  <2>3. ~Succeeding(v)
    BY <2>2 DEF Succeeding, StatusIsLive, Live
  <2>4. "running" \in RowState /\ "running" \in Resumable
    BY DEF RowState, Resumable
  <2> HIDE DEF v
  <2>5. JobIs(j, "driving") /\ ~jobs[j].agent /\ v.resumed = jobs[j].resumed
    BY <1>3 DEF v, Save
  <2>6. QED
    BY <2>2, <2>3, <2>4, <2>5, DriverWrites
<1>4. CASE Drive(j)
  <2>1. PICK o \in {"success", "failing", "error"} :
          /\ Return(j, o)
          /\ \/ ~jobs[j].agent /\ WriteStatus(j, "completed")
             \/ ~jobs[j].agent /\ jobs[j].cancelled /\ WriteStatus(j, "suspended")
             \/ ~jobs[j].agent /\ WriteStatus(j, "failed") /\ o = "error"
             \/ jobs[j].agent /\ UNCHANGED <<row, faulted>>
    BY <1>4 DEF Drive
  <2> DEFINE v == [jobs[j] EXCEPT !.pc = "returned", !.outcome = o]
  <2>2. /\ v.pc = "returned" /\ v.resumed = jobs[j].resumed /\ v.agent = jobs[j].agent
        /\ v.outcome = o /\ v.status = jobs[j].status /\ v.cancelled = jobs[j].cancelled
        /\ v.run = jobs[j].run
    BY JobType DEF Job
  <2>3. Moves(j, v) /\ JobIs(j, "driving") /\ jobs[j].status = "running"
    BY <1>4, <2>1, ReturnMoves DEF Drive, JobIs, StatusIsLive, Live
  <2>4. Succeeding(v) => o = "success" /\ ~jobs[j].cancelled
    BY <2>2, <2>3 DEF Succeeding
  <2> HIDE DEF v
  <2>5. CASE UNCHANGED <<row, faulted>> /\ (jobs[j].agent \/ row[jobs[j].run] = "none")
    <3>1. row[v.run] = "none"
      BY <2>2, <2>3, <2>5 DEF RowInv, RowOfDriver, JobIs, Live
    <3>2. QED
      BY <2>2, <2>3, <2>5, <3>1, MoveKeepsRows
  <2>6. ASSUME NEW s \in RowState, ~jobs[j].agent, Write(j, s), Succeeding(v) => s = "completed"
        PROVE  RowInv'
    BY <2>2, <2>3, <2>6, DriverWrites
  <2>7. QED
    BY <2>1, <2>4, <2>5, <2>6 DEF WriteStatus, RowState
<1>5. CASE Panic(j)
  <2> DEFINE v == [jobs[j] EXCEPT !.pc = "recorded", !.status = "failed"]
  <2>1. v.pc = "recorded" /\ v.status = "failed"
    BY JobType DEF Job
  <2>2. Moves(j, v) /\ UNCHANGED <<row, faulted>>
    BY <1>5, PanicMoves DEF Panic
  <2>3. v.pc \notin Live /\ ~Succeeding(v)
    BY <2>1 DEF Live, Succeeding
  <2> HIDE DEF v
  <2>4. QED
    BY <2>1, <2>2, <2>3, MoveKeepsRows
<1>6. CASE RecordOutcome(j)
  <2> DEFINE v == [jobs[j] EXCEPT !.pc = "recorded", !.status = Recorded(jobs[j]),
                                  !.outcome = "none"]
  <2>1. v.pc = "recorded" /\ v.status = Recorded(jobs[j])
    BY JobType DEF Job
  <2>2. Moves(j, v) /\ UNCHANGED <<row, faulted>> /\ jobs[j].pc = "returned"
    BY <1>6, RecordMoves DEF RecordOutcome, JobIs
  <2>3. v.pc \notin Live
    BY <2>1 DEF Live
  <2>4. Succeeding(v) => Succeeding(jobs[j])
    BY <2>1, <2>2 DEF Succeeding, Recorded
  <2> HIDE DEF v
  <2>5. QED
    BY <2>1, <2>2, <2>3, <2>4, MoveKeepsRows
<1>7. CASE Release(j)
  <2> DEFINE v == Left(jobs[j], "done", jobs[j].status)
  <2>1. v.pc = "done" /\ v.status = jobs[j].status
    BY JobType, LeftType DEF JobAt
  <2>2. Moves(j, v) /\ UNCHANGED <<row, faulted>>
    BY <1>7, ReleaseMoves DEF Release
  <2>3. v.pc \notin Live /\ (Succeeding(v) => Succeeding(jobs[j]))
    BY <2>1 DEF Live, Succeeding
  <2> HIDE DEF v
  <2>4. QED
    BY <2>1, <2>2, <2>3, MoveKeepsRows
<1>8. QED
  BY <1>1, <1>2, <1>3, <1>4, <1>5, <1>6, <1>7 DEF Work

LEMMA CancelKeepsRows ==
  ASSUME RegistryInv, RowInv, NEW r \in Run, CancelRun(r)
  PROVE  RowInv'
<1> USE DEF RegistryInv
<1> DEFINE j == runs[r]
           v == [jobs[j] EXCEPT !.cancelled = TRUE]
<1>1. j \in Jobs /\ Moves(j, v) /\ UNCHANGED <<row, faulted>>
  BY CancelMoves DEF CancelRun
<1>2. /\ v.pc = jobs[j].pc /\ v.resumed = jobs[j].resumed /\ v.agent = jobs[j].agent
      /\ v.run = jobs[j].run /\ v.status = jobs[j].status /\ v.cancelled
  BY <1>1, JobType DEF Job
<1>3. Succeeding(v) => Succeeding(jobs[j])
  BY <1>2 DEF Succeeding
<1>4. v.pc = "driving" => /\ row[v.run] \in Resumable \cup {"none"}
                          /\ v.resumed => row[v.run] \in Resumable
  BY <1>1, <1>2 DEF RowInv, RowOfDriver
<1> HIDE DEF v, j
<1>5. QED
  BY <1>1, <1>2, <1>3, <1>4, MoveKeepsRows

LEMMA RestartKeepsRows ==
  ASSUME RegistryInv, RowInv, Restart
  PROVE  RowInv'
<1>1. Jobs' = Jobs /\ \A j \in Jobs : /\ jobs'[j].run = jobs[j].run
                                      /\ jobs'[j].pc = "killed" /\ jobs'[j].status = "failed"
  <2>1. Len(jobs) \in Nat /\ jobs' = [j \in 1..Len(jobs) |-> Left(jobs[j], "killed", "failed")]
    BY DEF RegistryInv, TypeOK, Restart
  <2>2. QED
    BY <2>1, LeftType DEF RegistryInv, Jobs, JobAt, RunStatus
<1>2. \A j \in Jobs : ~Succeeding(jobs'[j]) /\ jobs'[j].pc \notin Live
  BY <1>1 DEF Succeeding, Live
<1>3. RowHasJob'
  <2>1. row' = row
    BY DEF Restart
  <2>2. QED
    BY <1>1, <2>1 DEF RowInv, RowHasJob
<1>4. RowOfDriver'
  BY <1>1, <1>2 DEF RowOfDriver
<1>5. QED
  BY <1>1, <1>2, <1>3, <1>4 DEF RowInv, LiveIsLast, SuccessIsStored

LEMMA NextRowInv == RegistryInv /\ RegistryInv' /\ RowInv /\ [Next]_vars => RowInv'
<1> SUFFICES ASSUME RegistryInv, RegistryInv', RowInv, [Next]_vars PROVE RowInv'
  OBVIOUS
<1>1. CASE UNCHANGED <<jobs, row, faulted>>
  BY <1>1 DEF RowInv, LiveIsLast, RowOfDriver, RowHasJob, SuccessIsStored, Jobs
<1>2. ASSUME NEW h \in Handler, Serve(h) PROVE RowInv'
  <2>1. CASE Claim(h)
    BY <2>1, ClaimKeepsRows
  <2>2. CASE ~Claim(h)
    <3>1. UNCHANGED <<jobs, row, faulted>>
      BY <1>2, <2>2 DEF Serve, AskCreate, AskResume, ReadRecord, TakeSlot, NoSlot, Conflict
    <3>2. QED
      BY <1>1, <3>1
  <2>3. QED
    BY <2>1, <2>2
<1>3. ASSUME NEW j \in 1..Len(jobs), Work(j) PROVE RowInv'
  BY <1>3, WorkKeepsRows DEF Jobs
<1>4. ASSUME NEW r \in Run, CancelRun(r) PROVE RowInv'
  BY <1>4, CancelKeepsRows
<1>5. CASE Restart
  BY <1>5, RestartKeepsRows
<1>6. CASE UNCHANGED vars
  BY <1>1, <1>6 DEF vars
<1>7. QED
  BY <1>2, <1>3, <1>4, <1>5, <1>6 DEF Next

LEMMA RowInvariant == Spec => [](RegistryInv /\ RowInv)
<1>1. Init => RegistryInv /\ RowInv
  BY InitRegistryInv, InitRowInv
<1>2. (RegistryInv /\ RowInv) /\ [Next]_vars => (RegistryInv /\ RowInv)'
  BY NextRegistryInv, NextRowInv
<1>3. QED
  BY <1>1, <1>2, PTL DEF Spec

\* A run told to have succeeded is completed in its row, unless one of its writes
\* failed or it never had one (record_outcome, set_checkpoint_status).
THEOREM SuccessIsOnDisk == Spec => []SucceededIsCompleted
<1>1. RegistryInv /\ RowInv => SucceededIsCompleted
  <2> SUFFICES ASSUME RegistryInv, RowInv, NEW j \in 1..Len(jobs),
                      jobs[j].status = "succeeded", jobs[j].run \notin faulted,
                      row[jobs[j].run] # "none"
               PROVE  row[jobs[j].run] = "completed"
    BY DEF SucceededIsCompleted
  <2>1. Succeeding(jobs[j])
    BY DEF Succeeding
  <2>2. QED
    BY <2>1 DEF RowInv, SuccessIsStored, Jobs
<1>2. QED
  BY RowInvariant, <1>1, PTL

\* No step reopens a run whose row says it is over, not even of a resume that
\* was let in on an older record (resume_job).
THEOREM OverStaysOver == Spec => OverIsFinal
<1> DEFINE Kept == \A r \in Run : row[r] \in {"completed", "failed"} => row'[r] = row[r]
<1>1. RegistryInv /\ RowInv /\ [Next]_vars => [Kept]_vars
  <2> SUFFICES ASSUME RegistryInv, RowInv, Next PROVE Kept
    OBVIOUS
  <2>1. CASE UNCHANGED row
    BY <2>1
  <2>2. ASSUME NEW j \in 1..Len(jobs), JobIs(j, "driving"), NEW s, Write(j, s) PROVE Kept
    <3>1. row[jobs[j].run] \notin {"completed", "failed"}
      BY <2>2 DEF RowInv, RowOfDriver, Resumable, JobIs, Jobs
    <3>2. \A q \in Run : q # jobs[j].run => row'[q] = row[q]
      BY <2>2 DEF Write, RegistryInv, TypeOK
    <3>3. QED
      BY <3>1, <3>2
  <2>3. ASSUME NEW j \in 1..Len(jobs), Work(j) PROVE Kept
    <3>1. \/ UNCHANGED row
          \/ JobIs(j, "driving") /\ \E s \in RowState : Write(j, s)
      BY <2>3 DEF Work, Begin, Refuse, Save, Drive, WriteStatus, Panic, RecordOutcome,
                  Release, RowState
    <3>2. QED
      BY <2>1, <2>2, <3>1
  <2>4. ASSUME NEW h \in Handler, Serve(h) PROVE UNCHANGED row
    BY <2>4 DEF Serve, AskCreate, AskResume, ReadRecord, TakeSlot, NoSlot, Claim, Conflict
  <2>5. QED
    BY <2>1, <2>3, <2>4 DEF Next, CancelRun, Restart
<1>2. QED
  BY RowInvariant, <1>1, PTL DEF Spec, OverIsFinal

-----------------------------------------------------------------------------
(* A registered live job is a lease on its run.                            *)

Leases == [r \in Run |-> HolderOf(r)]

LEMMA HolderIsLive ==
  ASSUME RegistryInv, NEW j \in Jobs, jobs[j].pc \in Live
  PROVE  jobs[j].run \in Run /\ HolderOf(jobs[j].run) = j /\ j # 0
BY JobType DEF RegistryInv, LiveListed, HolderOf, Jobs

\* A job gives its lease back when it stops being live, and no other way.
LEMMA MoveAndLease ==
  ASSUME RegistryInv, NEW j \in Jobs, NEW v, Moves(j, v), UNCHANGED runs
  PROVE  /\ v.pc \in Live \/ jobs[j].pc \notin Live => UNCHANGED <<Len(jobs), Leases>>
         /\ v.pc \notin Live /\ jobs[j].pc \in Live /\ UNCHANGED row
              => \E r \in Run : Lease!Give(r)
<1>1. /\ Len(jobs') = Len(jobs) /\ jobs'[j] = v
      /\ \A i \in Jobs : i # j => jobs'[i] = jobs[i]
  BY JobMoves DEF RegistryInv, TypeOK, Jobs, Moves
<1>2. \A r \in Run : runs[r] # 0 => runs[r] \in Jobs
  BY DEF RegistryInv, TypeOK, Jobs
<1>3. \A r \in Run : runs[r] # j => HolderOf(r)' = HolderOf(r)
  BY <1>1, <1>2 DEF HolderOf
<1>4. \A r \in Run : runs[r] = j => r = jobs[j].run
  BY DEF RegistryInv, ListsItsOwn, Jobs
<1>5. v.pc \in Live => jobs[j].pc \in Live
  BY DEF Moves
<1>6. CASE v.pc \in Live <=> jobs[j].pc \in Live
  <2>1. \A r \in Run : HolderOf(r)' = HolderOf(r)
    BY <1>1, <1>2, <1>3, <1>6 DEF HolderOf
  <2>2. Leases' = Leases
    BY <2>1 DEF Leases
  <2>3. QED
    BY <1>1, <1>6, <2>2
<1>7. CASE v.pc \notin Live /\ jobs[j].pc \in Live /\ UNCHANGED row
  <2>0. PICK r \in Run : r = jobs[j].run
    BY JobType DEF RegistryInv
  <2>1. HolderOf(r) = j /\ j # 0 /\ runs[r] = j
    BY <1>7, <2>0, HolderIsLive DEF RegistryInv, LiveListed
  <2>2. HolderOf(r)' = 0
    BY <1>1, <1>7, <2>1 DEF HolderOf
  <2>3. \A q \in Run \ {r} : HolderOf(q)' = HolderOf(q)
    BY <1>3, <1>4, <2>0
  <2>4. Leases[r] # 0 /\ Leases'[r] = 0 /\ Leases' = [Leases EXCEPT ![r] = 0]
    BY <2>1, <2>2, <2>3 DEF Leases, HolderOf
  <2>5. QED
    BY <1>1, <1>7, <2>4 DEF Lease!Give, Leases
<1>8. QED
  BY <1>5, <1>6, <1>7

\* Whoever claims a run finds no lease out on it, and what is evicted had none.
LEMMA ClaimTakes ==
  ASSUME RegistryInv, RegistryInv', NEW h \in Handler, Claim(h)
  PROVE  Lease!Take(req[h].run)
<1> USE DEF RegistryInv
<1>1. PICK r \in Run : r = req[h].run
  BY Requests DEF Claim, At
<1>2. ~At(h, "idle") /\ UNCHANGED row /\ runs' = Insert(r, jobs')
  BY <1>1 DEF Claim, At
<1>3. PICK v \in Job : /\ v.run = r /\ v.pc = "starting" /\ v.status = "running"
                       /\ jobs' = Append(jobs, v)
  <2>1. PICK agent \in BOOLEAN :
          jobs' = Append(jobs,
            [run |-> r, agent |-> agent, resumed |-> req[h].kind = "resume",
             pc |-> "starting", outcome |-> "none", status |-> "running",
             cancelled |-> FALSE])
    BY <1>1 DEF Claim
  <2> DEFINE w == [run |-> r, agent |-> agent, resumed |-> req[h].kind = "resume",
                   pc |-> "starting", outcome |-> "none", status |-> "running",
                   cancelled |-> FALSE]
  <2>2. w \in Job
    BY DEF Job, JobAt, RunStatus
  <2>3. QED
    BY <2>1, <2>2
<1>4. /\ Len(jobs') = Len(jobs) + 1 /\ Len(jobs) \in Nat /\ jobs'[Len(jobs')] = v
      /\ \A j \in Jobs : jobs'[j] = jobs[j]
  BY <1>3 DEF TypeOK, Jobs
<1>5. runs[r] # 0 => jobs[runs[r]].status # "running"
  BY <1>1, ClaimIsFree
<1>6. \A q \in Run : runs[q] # 0 =>
        /\ runs[q] \in Jobs
        /\ jobs[runs[q]].pc \in Live <=> jobs[runs[q]].status = "running"
  BY DEF TypeOK, StatusIsLive, Jobs
<1>7. Cardinality(Running) < MaxRuns
  BY RoomForOne DEF Claim
<1>8. /\ runs'[r] = Len(jobs')
      /\ \A q \in Run \ {r} : runs'[q] = 0 \/ runs'[q] = runs[q]
      /\ \A q \in Run : RunningIn(runs, jobs, q) => runs'[q] = runs[q]
  BY <1>2, <1>3, <1>5, <1>7, InsertEffect
<1>9. HolderOf(r) = 0 /\ HolderOf(r)' = Len(jobs')
  BY <1>3, <1>4, <1>5, <1>6, <1>8 DEF HolderOf, Live
<1>10. \A q \in Run \ {r} : HolderOf(q)' = HolderOf(q)
  BY <1>4, <1>6, <1>8 DEF HolderOf, RunningIn
<1>11. Leases[r] = 0 /\ Leases' = [Leases EXCEPT ![r] = Len(jobs')]
  BY <1>9, <1>10 DEF Leases, HolderOf
<1>12. QED
  BY <1>1, <1>2, <1>4, <1>11 DEF Lease!Take, Leases

\* The holder of the lease writes the row, which it has not closed.
LEMMA DriverWritesRow ==
  ASSUME RegistryInv, RowInv, NEW j \in Jobs, JobIs(j, "driving"), NEW s \in RowState \ {"none"},
         Write(j, s), row[jobs[j].run] = "none" => s = "running",
         UNCHANGED <<Len(jobs), Leases>>
  PROVE  (\E r \in Run : Lease!Write(r)) \/ UNCHANGED row
<1>1. PICK r \in Run : r = jobs[j].run
  BY JobType DEF RegistryInv
<1>2. Leases[r] # 0
  BY <1>1, HolderIsLive DEF Leases, JobIs, Live
<1>3. row[r] \notin Lease!Closed
  BY <1>1 DEF RowInv, RowOfDriver, Resumable, JobIs, Lease!Closed
<1>4. CASE row' = [row EXCEPT ![r] = s]
  <2>1. row'[r] = s /\ row' = [row EXCEPT ![r] = row'[r]]
    BY <1>4 DEF RegistryInv, TypeOK
  <2>2. s \in {"running", "suspended"} \cup Lease!Closed
    BY DEF RowState, Lease!Closed
  <2>3. QED
    BY <1>1, <1>2, <1>3, <2>1, <2>2 DEF Lease!Write, Leases
<1>5. QED
  BY <1>1, <1>4 DEF Write

LEMMA WorkUnderLease ==
  ASSUME RegistryInv, RowInv, NEW j \in Jobs, Work(j)
  PROVE  (\E r \in Run : Lease!Give(r) \/ Lease!Write(r)) \/ UNCHANGED <<Len(jobs), Leases, row>>
<1> USE DEF RegistryInv
<1>1. CASE Begin(j)
  <2> DEFINE v == [jobs[j] EXCEPT !.pc = "driving"]
  <2>1. Moves(j, v) /\ UNCHANGED <<runs, row>>
    BY <1>1, BeginMoves DEF Begin
  <2>2. v.pc \in Live
    BY JobType DEF Job, Live
  <2> HIDE DEF v
  <2>3. QED
    BY <2>1, <2>2, MoveAndLease
<1>2. CASE Refuse(j)
  <2> DEFINE v == [jobs[j] EXCEPT !.pc = "returned", !.outcome = "error"]
  <2>1. Moves(j, v) /\ UNCHANGED <<runs, row>>
    BY <1>2, ReturnMoves DEF Refuse
  <2>2. v.pc \in Live
    BY JobType DEF Job, Live
  <2> HIDE DEF v
  <2>3. QED
    BY <2>1, <2>2, MoveAndLease
<1>3. CASE Save(j)
  <2>1. UNCHANGED <<Len(jobs), Leases>>
    BY <1>3 DEF Save, Leases, HolderOf
  <2>2. JobIs(j, "driving") /\ Write(j, "running") /\ "running" \in RowState \ {"none"}
    BY <1>3 DEF Save, RowState
  <2>3. QED
    BY <2>1, <2>2, DriverWritesRow
<1>4. CASE Drive(j)
  <2>1. PICK o \in {"success", "failing", "error"} : Return(j, o)
    BY <1>4, DriveEffect
  <2> DEFINE v == [jobs[j] EXCEPT !.pc = "returned", !.outcome = o]
  <2>2. Moves(j, v) /\ JobIs(j, "driving") /\ UNCHANGED runs
    BY <1>4, <2>1, DriveEffect, ReturnMoves
  <2>3. v.pc \in Live
    BY JobType DEF Job, Live
  <2> HIDE DEF v
  <2>4. UNCHANGED <<Len(jobs), Leases>>
    BY <2>2, <2>3, MoveAndLease
  <2>5. \/ \E s \in RowState \ {"none"} : row[jobs[j].run] # "none" /\ Write(j, s)
        \/ UNCHANGED row
    BY <1>4 DEF Drive, WriteStatus, RowState
  <2>6. QED
    BY <2>2, <2>4, <2>5, DriverWritesRow
<1>5. CASE Panic(j)
  <2> DEFINE v == [jobs[j] EXCEPT !.pc = "recorded", !.status = "failed"]
  <2>1. Moves(j, v) /\ UNCHANGED <<runs, row>>
    BY <1>5, PanicMoves DEF Panic
  <2> HIDE DEF v
  <2>2. QED
    BY <2>1, MoveAndLease
<1>6. CASE RecordOutcome(j)
  <2> DEFINE v == [jobs[j] EXCEPT !.pc = "recorded", !.status = Recorded(jobs[j]),
                                  !.outcome = "none"]
  <2>1. Moves(j, v) /\ UNCHANGED <<runs, row>>
    BY <1>6, RecordMoves DEF RecordOutcome
  <2> HIDE DEF v
  <2>2. QED
    BY <2>1, MoveAndLease
<1>7. CASE Release(j)
  <2>1. Moves(j, Left(jobs[j], "done", jobs[j].status)) /\ UNCHANGED <<runs, row>>
    BY <1>7, ReleaseMoves DEF Release
  <2>2. QED
    BY <2>1, MoveAndLease
<1>8. QED
  BY <1>1, <1>2, <1>3, <1>4, <1>5, <1>6, <1>7 DEF Work

LEMMA RestartLoses ==
  ASSUME RegistryInv, Restart
  PROVE  Lease!Lose
<1>1. Len(jobs') = Len(jobs)
  BY DEF RegistryInv, TypeOK, Restart
<1>2. \A r \in Run : HolderOf(r)' = 0
  BY DEF Restart, HolderOf
<1>3. (\A r \in Run : Leases'[r] = 0) /\ Leases' = [r \in Run |-> 0]
  BY <1>2 DEF Leases, HolderOf
<1>4. QED
  BY <1>1, <1>3 DEF Lease!Lose, Leases, Restart

LEMMA StepUnderLease ==
  RegistryInv /\ RegistryInv' /\ RowInv /\ [Next]_vars => [Lease!Next]_(Lease!leases)
<1> SUFFICES ASSUME RegistryInv, RegistryInv', RowInv, [Next]_vars
             PROVE  Lease!Next \/ UNCHANGED <<Len(jobs), Leases, row>>
  BY DEF Lease!leases, Leases
<1>1. ASSUME NEW h \in Handler, Serve(h)
      PROVE  (\E r \in Run : Lease!Take(r)) \/ UNCHANGED <<Len(jobs), Leases, row>>
  <2>1. CASE Claim(h)
    <3>1. req[h].run \in Run
      BY <2>1, Requests DEF RegistryInv, Claim, At
    <3>2. QED
      BY <2>1, <3>1, ClaimTakes
  <2>2. CASE ~Claim(h)
    <3>1. UNCHANGED <<runs, jobs, row>>
      BY <1>1, <2>2 DEF Serve, AskCreate, AskResume, ReadRecord, TakeSlot, NoSlot, Conflict
    <3>2. QED
      BY <3>1 DEF Leases, HolderOf
  <2>3. QED
    BY <2>1, <2>2
<1>2. ASSUME NEW j \in 1..Len(jobs), Work(j)
      PROVE  (\E r \in Run : Lease!Give(r) \/ Lease!Write(r))
               \/ UNCHANGED <<Len(jobs), Leases, row>>
  BY <1>2, WorkUnderLease DEF Jobs
<1>3. ASSUME NEW r \in Run, CancelRun(r) PROVE UNCHANGED <<Len(jobs), Leases, row>>
  <2> DEFINE v == [jobs[runs[r]] EXCEPT !.cancelled = TRUE]
  <2>1. runs[r] \in Jobs /\ Moves(runs[r], v) /\ UNCHANGED <<runs, row>>
    BY <1>3, CancelMoves DEF CancelRun, RegistryInv
  <2>2. v.pc \in Live
    BY <1>3, <2>1, JobType DEF Job, CancelRun, RegistryInv
  <2> HIDE DEF v
  <2>3. QED
    BY <2>1, <2>2, MoveAndLease
<1>4. CASE Restart
  BY <1>4, RestartLoses DEF Lease!Next
<1>5. CASE UNCHANGED vars
  BY <1>5 DEF vars, Leases, HolderOf
<1>6. QED
  BY <1>1, <1>2, <1>3, <1>4, <1>5 DEF Next, Lease!Next

\* However many requests race, whatever is evicted and whenever the server dies,
\* its tasks hold the checkpoints under leases: one at a time, and no writing
\* without (try_register_run, insert_evicting, record_outcome).
THEOREM RegistryImplementsLease == Spec => ImplementsLease
<1>1. Init => Lease!Init
  <2> SUFFICES ASSUME Init PROVE Lease!Init
    OBVIOUS
  <2>1. \A r \in Run : HolderOf(r) = 0
    BY DEF Init, HolderOf
  <2>2. Leases = [r \in Run |-> 0]
    BY <2>1 DEF Leases
  <2>3. QED
    BY <2>2 DEF Init, Lease!Init, Leases
<1>2. QED
  BY RowInvariant, StepUnderLease, <1>1, PTL DEF Spec, ImplementsLease, Lease!Spec
=============================================================================
