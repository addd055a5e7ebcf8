------------------------------ MODULE Sandboxes -----------------------------
(***************************************************************************)
(* The containers of a run: how nodes of a super-step provision them and   *)
(* run commands in them, how the per-run manager records them, and how     *)
(* they are destroyed when the run ends (sandbox/mod.rs, sandbox/docker.rs,*)
(* container.rs and Executor::execute).                                    *)
(*                                                                         *)
(* The nodes of a frontier run concurrently; each action is the code       *)
(* between two answers of the Docker daemon.  Which node follows which is  *)
(* the matter of Executor: here a run moves on to any frontier.  The       *)
(* daemon itself does not fail, and its answer to a create is not lost.    *)
(***************************************************************************)
EXTENDS Integers, Sequences, FiniteSets

CONSTANTS
  Provision,   \* provision nodes
  Exec,        \* checkout and exec nodes
  Plain,       \* nodes that use no container, and may panic
  Uses,        \* the provision node an exec node takes its container from
  MaxRetries,  \* blueprint_max_retries
  MaxSteps,    \* model bound: super-steps begun
  MaxLives     \* model bound: processes that drive the run

Node == Provision \cup Exec \cup Plain

ASSUME SandboxAssumption ==
  /\ Uses \in [Exec -> Provision]
  /\ Provision \cap Exec = {} /\ Provision \cap Plain = {} /\ Exec \cap Plain = {}
  /\ MaxRetries \in Nat /\ MaxSteps \in Nat /\ MaxLives \in Nat \ {0}

VARIABLES
  cont,        \* the daemon's containers, by id
  phase,       \* where the process driving the run is
  frontier,    \* nodes of the current super-step
  pc,          \* what each node of the attempt is doing
  cid,         \* the container a provision node has created
  box,         \* state.vars: the container each provision node left
  saved,       \* the checkpoint: frontier and state before the super-step
  provisioned, \* Sandboxes.provisioned
  destroying,  \* containers cleanup_all is waiting for
  kept,        \* history: containers whose removal failed
  orphans,     \* commands still running after their node gave up
  retries, steps,
  cancelled,
  outcome,     \* how the run ended: the row's status, or a panic
  base,        \* containers older than this process
  lives

run == <<phase, frontier, saved, retries, steps>>
life == <<cancelled, outcome, base, lives>>
vars == <<cont, run, pc, cid, box, provisioned, destroying, kept, orphans, life>>

Phase == {"between", "stepping", "cleanup", "over", "crashed"}
At == {"idle", "start", "pulling", "creating", "created", "removing", "exec",
       "ok", "err"}
Id == 0..Len(cont)

TypeOK ==
  /\ cont \in Seq({"created", "running", "gone"})
  /\ phase \in Phase
  /\ frontier \in SUBSET Node
  /\ pc \in [Node -> At]
  /\ cid \in [Provision -> Id]
  /\ box \in [Provision -> Id]
  /\ saved \in [frontier : SUBSET Node, box : [Provision -> Id]]
  /\ provisioned \in SUBSET (Id \ {0})
  /\ destroying \in SUBSET (Id \ {0})
  /\ kept \in SUBSET (Id \ {0})
  /\ orphans \in SUBSET (Exec \X (Id \ {0}))
  /\ retries \in 0..MaxRetries /\ steps \in 0..MaxSteps
  /\ cancelled \in BOOLEAN
  /\ outcome \in {"none", "suspended", "final", "panicked"}
  /\ base \in Id /\ lives \in 1..MaxLives

NoBox == [p \in Provision |-> 0]
Quiet == [n \in Node |-> "idle"]

Init ==
  /\ cont = <<>>
  /\ phase = "between"
  /\ frontier \in SUBSET Node \ {{}}
  /\ pc = Quiet
  /\ cid = NoBox
  /\ box = NoBox
  /\ saved = [frontier |-> {}, box |-> NoBox]
  /\ provisioned = {} /\ destroying = {} /\ kept = {} /\ orphans = {}
  /\ retries = 0 /\ steps = 0
  /\ cancelled = FALSE /\ outcome = "none"
  /\ base = 0 /\ lives = 1

-----------------------------------------------------------------------------
(* The super-step loop, as far as containers see it.                       *)

Begun == [n \in Node |-> IF n \in frontier THEN "start" ELSE "idle"]

\* The token a node sees: the run's, or its super-step's once a sibling erred.
Signalled == cancelled \/ \E n \in frontier : pc[n] = "err"

StartStep ==
  /\ phase = "between"
  /\ frontier # {} /\ steps < MaxSteps
  /\ phase' = "stepping"
  /\ saved' = [frontier |-> frontier, box |-> box]
  /\ pc' = Begun
  /\ retries' = 0
  /\ steps' = steps + 1
  /\ UNCHANGED <<cont, frontier, cid, box, provisioned, destroying, kept, orphans, life>>

\* Mutant: one error is enough, the siblings are left behind.
Settled_FirstError ==
  \/ \A n \in frontier : pc[n] \in {"ok", "err"}
  \/ \E n \in frontier : pc[n] = "err"

\* join_all: the attempt is over when every node has returned.
Settled == \A n \in frontier : pc[n] \in {"ok", "err"}

Failed == \E n \in frontier : pc[n] = "err"

\* Every node succeeded: merge the containers into the state and move on.
Merge ==
  /\ phase = "stepping" /\ Settled /\ ~Failed /\ ~cancelled
  /\ box' = [p \in Provision |-> IF p \in frontier THEN cid[p] ELSE box[p]]
  /\ frontier' \in SUBSET Node
  /\ phase' = "between"
  /\ pc' = Quiet /\ cid' = NoBox
  /\ UNCHANGED <<cont, saved, retries, steps, provisioned, destroying, kept,
                 orphans, life>>

MayRetry == ~cancelled /\ retries < MaxRetries

\* A node returned an error: the whole frontier again, from the same state.
Retry ==
  /\ phase = "stepping" /\ Settled /\ Failed
  /\ MayRetry
  /\ retries' = retries + 1
  /\ pc' = Begun /\ cid' = NoBox
  /\ UNCHANGED <<cont, phase, frontier, saved, steps, box, provisioned,
                 destroying, kept, orphans, life>>

CancelRun ==
  /\ phase \in {"between", "stepping"}
  /\ ~cancelled
  /\ cancelled' = TRUE
  /\ UNCHANGED <<cont, run, pc, cid, box, provisioned, destroying, kept, orphans,
                 outcome, base, lives>>

-----------------------------------------------------------------------------
(* Provision nodes.                                                        *)

In(n, at) == phase = "stepping" /\ pc[n] = at
Go(n, at) == pc' = [pc EXCEPT ![n] = at]

\* The daemon is reached and the image looked up.
Inspect(n) ==
  /\ In(n, "start")
  /\ \E at \in {"creating", "pulling", "err"} : Go(n, at)
  /\ UNCHANGED <<cont, run, cid, box, provisioned, destroying, kept, orphans, life>>

\* The pull is drained, breaks, times out or is cancelled.
Pull(n) ==
  /\ In(n, "pulling")
  /\ \E at \in {"creating", "err"} : Go(n, at)
  /\ UNCHANGED <<cont, run, cid, box, provisioned, destroying, kept, orphans, life>>

Create(n) ==
  /\ In(n, "creating")
  /\ \/ /\ cont' = Append(cont, "created")
        /\ cid' = [cid EXCEPT ![n] = Len(cont')]
        /\ Go(n, "created")
     \/ /\ Go(n, "err")
        /\ UNCHANGED <<cont, cid>>
  /\ UNCHANGED <<run, box, provisioned, destroying, kept, orphans, life>>

\* Mutant: the id is recorded under the condition that nobody cancelled.
Recorded_UnlessSignalled(n) ==
  IF Signalled THEN provisioned ELSE provisioned \cup {cid[n]}

\* Sandboxes::provision records the id in the step that obtains it.
Recorded(n) == provisioned \cup {cid[n]}

Started(n) ==
  /\ In(n, "created")
  /\ cont' = [cont EXCEPT ![cid[n]] = "running"]
  /\ provisioned' = Recorded(n)
  /\ Go(n, "ok")
  /\ UNCHANGED <<run, cid, box, destroying, kept, orphans, life>>

StartFails(n) ==
  /\ In(n, "created")
  /\ Go(n, "removing")
  /\ UNCHANGED <<cont, run, cid, box, provisioned, destroying, kept, orphans, life>>

\* What the forced removal of a container takes with it.
Gone(c) ==
  /\ cont' = [cont EXCEPT ![c] = "gone"]
  /\ orphans' = {o \in orphans : o[2] # c}

\* A failed start removes the container; the removal may fail too.
RemoveUnstarted(n) ==
  /\ In(n, "removing")
  /\ \/ Gone(cid[n]) /\ UNCHANGED kept
     \/ kept' = kept \cup {cid[n]} /\ UNCHANGED <<cont, orphans>>
  /\ Go(n, "err")
  /\ UNCHANGED <<run, cid, box, provisioned, destroying, life>>

-----------------------------------------------------------------------------
(* Exec nodes and the others.                                              *)

Running(c) == c # 0 /\ cont[c] = "running"
Box(n) == box[Uses[n]]

\* create_exec wants a running container, and may fail anyway.
ExecStart(n) ==
  /\ In(n, "start")
  /\ \/ Running(Box(n)) /\ Go(n, "exec")
     \/ Go(n, "err")
  /\ UNCHANGED <<cont, run, cid, box, provisioned, destroying, kept, orphans, life>>

\* Whatever its exit code, the command ended: the graph routes on it.
ExecEnds(n) ==
  /\ In(n, "exec")
  /\ Go(n, "ok")
  /\ UNCHANGED <<cont, run, cid, box, provisioned, destroying, kept, orphans, life>>

\* Mutant: the exec does not watch the token.
ExecGivesUp_Deaf(n) ==
  /\ In(n, "exec") /\ ~Signalled
  /\ Go(n, "err")
  /\ orphans' = orphans \cup {<<n, Box(n)>>}
  /\ UNCHANGED <<cont, run, cid, box, provisioned, destroying, kept, life>>

\* Cancelled, or the stream broke: nothing stops the command in the container.
ExecGivesUp(n) ==
  /\ In(n, "exec")
  /\ Go(n, "err")
  /\ orphans' = orphans \cup {<<n, Box(n)>>}
  /\ UNCHANGED <<cont, run, cid, box, provisioned, destroying, kept, life>>

OrphanEnds(o) ==
  /\ orphans' = orphans \ {o}
  /\ UNCHANGED <<cont, run, pc, cid, box, provisioned, destroying, kept, life>>

PlainEnds(n) ==
  /\ In(n, "start")
  /\ \E at \in {"ok", "err"} : Go(n, at)
  /\ UNCHANGED <<cont, run, cid, box, provisioned, destroying, kept, orphans, life>>

-----------------------------------------------------------------------------
(* The end of the run: Executor::execute.                                  *)

\* cleanup_all takes the ids and destroys them concurrently.
CleanUp ==
  /\ phase' = "cleanup"
  /\ destroying' = provisioned
  /\ provisioned' = {}
  /\ UNCHANGED <<cont, frontier, saved, retries, steps, cid, box, kept, orphans,
                 cancelled, base, lives>>

\* The run returns: out of nodes or steps, cancelled, or failed for good.
EndRun ==
  /\ \/ /\ phase = "between" /\ (frontier = {} \/ steps = MaxSteps)
        /\ outcome' = "final"
     \/ /\ phase = "stepping" /\ Settled /\ cancelled
        /\ outcome' = "suspended"
     \/ /\ phase = "stepping" /\ Settled /\ ~cancelled
        /\ Failed /\ ~MayRetry
        /\ outcome' = "final"
  /\ pc' = [n \in Node |-> IF pc[n] \in {"ok", "err"} THEN "idle" ELSE pc[n]]
  /\ CleanUp

\* A node panics: the siblings' futures are dropped where they stand.
Panic(n) ==
  /\ In(n, "start")
  /\ outcome' = "panicked"
  /\ pc' = Quiet
  /\ CleanUp

Destroy(c) ==
  /\ phase = "cleanup" /\ c \in destroying
  /\ Gone(c)
  /\ destroying' = destroying \ {c}
  /\ UNCHANGED <<run, pc, cid, box, provisioned, kept, life>>

\* Mutant: a destroy that hangs is waited for.
GiveUpDestroy_Never(c) == FALSE /\ UNCHANGED vars

\* A destroy fails, or takes longer than DESTROY_TIMEOUT.
GiveUpDestroy(c) ==
  /\ phase = "cleanup" /\ c \in destroying
  /\ kept' = kept \cup {c}
  /\ destroying' = destroying \ {c}
  /\ UNCHANGED <<cont, run, pc, cid, box, provisioned, orphans, life>>

Return ==
  /\ phase = "cleanup" /\ destroying = {}
  /\ phase' = "over"
  /\ UNCHANGED <<cont, frontier, saved, retries, steps, pc, cid, box, provisioned,
                 destroying, kept, orphans, life>>

\* The process dies; nobody cleans up.
Crash ==
  /\ phase \notin {"over", "crashed"}
  /\ phase' = "crashed"
  /\ pc' = Quiet
  /\ provisioned' = {} /\ destroying' = {}
  /\ UNCHANGED <<cont, frontier, saved, retries, steps, cid, box, kept, orphans, life>>

\* Another process resumes a run whose row has no final status.
Resume ==
  /\ phase \in {"over", "crashed"} /\ outcome # "final"
  /\ saved.frontier # {} /\ lives < MaxLives
  /\ phase' = "between"
  /\ frontier' = saved.frontier
  /\ box' = saved.box
  /\ cid' = NoBox
  /\ cancelled' = FALSE /\ outcome' = "none"
  /\ base' = Len(cont)
  /\ lives' = lives + 1
  /\ UNCHANGED <<cont, saved, retries, steps, pc, provisioned, destroying, kept,
                 orphans>>

-----------------------------------------------------------------------------
Provisioning(n) ==
  \/ Inspect(n) \/ Pull(n) \/ Create(n) \/ Started(n) \/ StartFails(n)
  \/ RemoveUnstarted(n)

Executing(n) == ExecStart(n) \/ ExecEnds(n) \/ ExecGivesUp(n)

Loop == StartStep \/ Merge \/ Retry \/ EndRun \/ Return

Next ==
  \/ Loop \/ CancelRun \/ Crash \/ Resume
  \/ \E n \in Provision : Provisioning(n)
  \/ \E n \in Exec : Executing(n)
  \/ \E n \in Plain : PlainEnds(n) \/ Panic(n)
  \/ \E o \in orphans : OrphanEnds(o)
  \/ \E c \in destroying : Destroy(c) \/ GiveUpDestroy(c)

Spec == Init /\ [][Next]_vars

\* The daemon answers or its client times out, pulls and destroys are bounded
\* by their timeouts, and a node that sees its token cancelled returns.  A
\* command or a plain node nobody cancels may run forever, and a destroy that
\* hangs is given up on.
Fairness ==
  /\ WF_vars(Loop)
  /\ \A n \in Provision : WF_vars(Provisioning(n))
  /\ \A n \in Exec : WF_vars(ExecStart(n)) /\ WF_vars(Signalled /\ ExecGivesUp(n))
  /\ \A n \in Plain : WF_vars(Signalled /\ PlainEnds(n))
  /\ WF_vars(\E c \in destroying : GiveUpDestroy(c))

FairSpec == Spec /\ Fairness

-----------------------------------------------------------------------------
\* When the run has returned without a panic, every container its process
\* created is gone, with the commands that were left running in it, or its
\* removal failed: error paths, retries and cancellations at any point of a
\* provision or an exec included (run_with_cancel, DockerSandbox::exec).
NothingLeaks ==
  phase = "over" /\ outcome # "panicked" =>
    /\ \A c \in base + 1..Len(cont) : cont[c] = "gone" \/ c \in kept
    /\ \A o \in orphans : o[2] \in kept \/ o[2] <= base

\* The teardown pulls nothing from under a command and removes nothing twice:
\* cleanup_all starts when every node of the frontier has returned (execute), and
\* provision records exactly what it does not remove itself.
TeardownIsSafe ==
  /\ \A n \in Exec : pc[n] = "exec" => Running(Box(n)) /\ Box(n) \notin destroying
  /\ \A c \in provisioned \cup destroying : Running(c)

\* A cancelled run ends, wherever its nodes and the daemon are.
CancelEnds == cancelled ~> phase \in {"over", "crashed"}

\* No teardown holds the end of a run for ever (DESTROY_TIMEOUT).
CleanupEnds == phase = "cleanup" ~> phase \in {"over", "crashed"}

=============================================================================
