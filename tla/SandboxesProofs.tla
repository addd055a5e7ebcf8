--------------------------- MODULE SandboxesProofs --------------------------
(***************************************************************************)
(* Proofs about Sandboxes for every set of nodes, retry budget and number  *)
(* of processes: a run that has returned leaves no container behind that   *)
(* could be removed, and takes none away from under a command.             *)
(***************************************************************************)
EXTENDS Sandboxes, TLAPS

\* A provision node between create_container and the record of the id.
Unstarted(p) == pc[p] \in {"created", "removing"}

\* Nodes are at work only in an attempt, containers destroyed only after it.
PhaseInv ==
  /\ phase # "stepping" => pc = Quiet
  /\ \A n \in Node : pc[n] # "idle" => n \in frontier
  /\ phase # "cleanup" => destroying = {}
  /\ phase \in {"cleanup", "over", "crashed"} => provisioned = {}
  /\ phase \in {"between", "stepping"} => outcome = "none"

\* A container that is not started yet is its node's own.
UnstartedInv ==
  /\ \A p \in Provision : Unstarted(p) => cid[p] # 0 /\ cont[cid[p]] = "created"
  /\ \A p, q \in Provision : Unstarted(p) /\ Unstarted(q) /\ cid[p] = cid[q] => p = q

\* What is used or recorded runs, and no command outlives its container.
RunningInv ==
  /\ \A n \in Exec : pc[n] = "exec" => Running(Box(n))
  /\ \A c \in provisioned \cup destroying : Running(c)
  /\ \A o \in orphans : cont[o[2]] # "gone"

\* Somebody answers for every container of this process.
Accounted(c) ==
  \/ cont[c] = "gone" \/ c \in kept
  \/ c \in provisioned \cup destroying
  \/ \E p \in Provision : Unstarted(p) /\ cid[p] = c

AccountInv ==
  phase # "crashed" /\ outcome # "panicked" =>
    \A c \in (base + 1)..Len(cont) : Accounted(c)

BoxInv == TypeOK /\ PhaseInv /\ UnstartedInv /\ RunningInv /\ AccountInv

-----------------------------------------------------------------------------
(* Types.                                                                  *)

State == {"created", "running", "gone"}

LEMMA Parameters ==
  /\ Uses \in [Exec -> Provision]
  /\ MaxRetries \in Nat /\ MaxSteps \in Nat /\ MaxLives \in Nat /\ MaxLives > 0
  /\ Provision \subseteq Node /\ Exec \subseteq Node /\ Plain \subseteq Node
BY SandboxAssumption DEF Node

\* One container changes its state.
LEMMA ContChanges ==
  ASSUME cont \in Seq(State), NEW c \in 1..Len(cont), NEW x \in State,
         cont' = [cont EXCEPT ![c] = x]
  PROVE  /\ cont' \in Seq(State) /\ Len(cont') = Len(cont)
         /\ cont'[c] = x /\ \A d \in 1..Len(cont) : d # c => cont'[d] = cont[d]
<1>1. Len(cont) \in Nat /\ cont \in [1..Len(cont) -> State]
  OBVIOUS
<1>2. cont' \in [1..Len(cont) -> State]
  BY <1>1
<1>3. cont' \in Seq(State)
  BY <1>1, <1>2
<1>4. DOMAIN cont' = 1..Len(cont)
  BY <1>2
<1>5. Len(cont') = Len(cont)
  BY <1>1, <1>3, <1>4
<1>6. QED
  BY <1>1, <1>3, <1>5

\* The variables that do not name a container.
PlainTypes ==
  /\ phase \in Phase /\ frontier \in SUBSET Node /\ pc \in [Node -> At]
  /\ retries \in 0..MaxRetries /\ steps \in 0..MaxSteps
  /\ cancelled \in BOOLEAN
  /\ outcome \in {"none", "suspended", "final", "panicked"}
  /\ lives \in 1..MaxLives

\* The variables that do, when there are n of them.
BoxTypes(n) ==
  /\ cid \in [Provision -> 0..n] /\ box \in [Provision -> 0..n]
  /\ saved \in [frontier : SUBSET Node, box : [Provision -> 0..n]]
  /\ provisioned \in SUBSET (1..n) /\ destroying \in SUBSET (1..n) /\ kept \in SUBSET (1..n)
  /\ orphans \in SUBSET (Exec \X (1..n))
  /\ base \in 0..n

LEMMA Types == TypeOK <=> cont \in Seq(State) /\ PlainTypes /\ BoxTypes(Len(cont))
<1>1. cont \in Seq(State) => Len(cont) \in Nat /\ Id \ {0} = 1..Len(cont)
  BY DEF Id
<1>2. QED
  BY <1>1 DEF TypeOK, State, PlainTypes, BoxTypes, Id

LEMMA NextTypes == TypeOK' <=> (cont \in Seq(State) /\ PlainTypes /\ BoxTypes(Len(cont)))'
BY Types, PTL

LEMMA QuietFacts ==
  /\ Quiet \in [Node -> At] /\ Begun \in [Node -> At]
  /\ \A n \in Node : Quiet[n] = "idle" /\ Begun[n] = (IF n \in frontier THEN "start" ELSE "idle")
BY DEF Quiet, Begun, At

LEMMA InitBoxInv == Init => BoxInv
<1> SUFFICES ASSUME Init PROVE BoxInv
  OBVIOUS
<1> USE DEF Init
<1>1. cont \in Seq(State) /\ Len(cont) = 0
  BY DEF State
<1>2. NoBox \in [Provision -> 0..0]
  BY DEF NoBox
<1>3. PlainTypes /\ BoxTypes(0)
  <2>1. BoxTypes(0)
    BY <1>2 DEF BoxTypes
  <2>2. lives \in 1..MaxLives
    BY Parameters
  <2>3. retries \in 0..MaxRetries /\ steps \in 0..MaxSteps
    BY Parameters
  <2>4. /\ phase \in Phase /\ frontier \in SUBSET Node /\ pc \in [Node -> At]
        /\ cancelled \in BOOLEAN /\ outcome \in {"none", "suspended", "final", "panicked"}
    BY QuietFacts DEF Phase
  <2>5. QED
    BY <2>1, <2>2, <2>3, <2>4 DEF PlainTypes
<1>4. TypeOK
  BY <1>1, <1>3, Types
<1>5. PhaseInv /\ UnstartedInv /\ RunningInv
  BY QuietFacts, Parameters DEF PhaseInv, UnstartedInv, RunningInv, Unstarted
<1>6. AccountInv
  BY <1>1 DEF AccountInv
<1>7. QED
  BY <1>4, <1>5, <1>6 DEF BoxInv

LEMMA Facts ==
  ASSUME BoxInv
  PROVE  /\ cont \in Seq(State) /\ Len(cont) \in Nat /\ PlainTypes /\ BoxTypes(Len(cont))
         /\ PhaseInv /\ UnstartedInv /\ RunningInv /\ AccountInv
BY Types DEF BoxInv

\* No attempt is under way, or all of its nodes have returned.
LEMMA NoneUnstarted ==
  ASSUME BoxInv, phase # "stepping" \/ Settled
  PROVE  \A n \in Node : ~Unstarted(n) /\ pc[n] # "exec"
<1>1. CASE phase # "stepping"
  BY <1>1, Facts, QuietFacts DEF PhaseInv, Unstarted
<1>2. CASE Settled
  BY <1>2, Facts DEF PhaseInv, Unstarted, Settled
<1>3. QED
  BY <1>1, <1>2

-----------------------------------------------------------------------------
(* A node of the attempt takes a step that changes no container.           *)

LEMMA NodeMoves ==
  ASSUME BoxInv, NEW n \in Node, NEW at \in At,
         phase = "stepping", pc[n] # "idle",
         pc' = [pc EXCEPT ![n] = at],
         n \in Provision /\ at \in {"created", "removing"} => pc[n] = "created",
         n \in Provision /\ Unstarted(n) => at = "removing",
         n \in Exec /\ at = "exec" => Running(Box(n)),
         orphans' \in SUBSET (Exec \X (1..Len(cont))),
         \A o \in orphans' : cont[o[2]] # "gone",
         UNCHANGED <<cont, run, cid, box, provisioned, destroying, kept, life>>
  PROVE  BoxInv'
<1> USE DEF run, life
<1>1. /\ \A m \in Node : pc'[m] = IF m = n THEN at ELSE pc[m]
      /\ pc' \in [Node -> At]
  BY Facts DEF PlainTypes
<1>2. TypeOK'
  <2>1. PlainTypes' /\ BoxTypes(Len(cont))'
    BY <1>1, Facts DEF PlainTypes, BoxTypes
  <2>2. QED
    BY <2>1, Facts, NextTypes
<1>3. PhaseInv'
  BY <1>1, Facts DEF PhaseInv
<1>4. \A p \in Provision : Unstarted(p)' <=> Unstarted(p)
  BY <1>1, Parameters DEF Unstarted
<1>5. UnstartedInv'
  BY <1>4, Facts DEF UnstartedInv
<1>6. RunningInv'
  BY <1>1, Facts, Parameters DEF RunningInv, Running, Box
<1>7. AccountInv'
  BY <1>4, Facts DEF AccountInv, Accounted
<1>8. QED
  BY <1>2, <1>3, <1>5, <1>6, <1>7 DEF BoxInv

LEMMA OrphansStay ==
  ASSUME BoxInv
  PROVE  /\ orphans \in SUBSET (Exec \X (1..Len(cont)))
         /\ \A o \in orphans : cont[o[2]] # "gone"
BY Facts DEF RunningInv, BoxTypes

\* What a provision node does before it has a container and after a failed start.
LEMMA ProvisionMoves ==
  ASSUME BoxInv, NEW n \in Provision, Inspect(n) \/ Pull(n) \/ StartFails(n)
  PROVE  BoxInv'
<1>1. n \in Node /\ phase = "stepping"
  BY Parameters DEF Inspect, Pull, StartFails, In
<1>2. PICK at \in {"creating", "pulling", "err", "removing"} :
        /\ pc' = [pc EXCEPT ![n] = at]
        /\ UNCHANGED <<cont, run, cid, box, provisioned, destroying, kept, orphans, life>>
        /\ at = "removing" => pc[n] = "created"
        /\ Unstarted(n) => at = "removing"
        /\ pc[n] # "idle"
  BY DEF Inspect, Pull, StartFails, Go, In, Unstarted
<1>3. n \notin Exec
  BY SandboxAssumption
<1>4. QED
  BY <1>1, <1>2, <1>3, NodeMoves, OrphansStay DEF At

LEMMA OthersMove ==
  ASSUME BoxInv, NEW n \in Exec \cup Plain,
         \/ n \in Exec /\ (ExecStart(n) \/ ExecEnds(n) \/ ExecGivesUp(n))
         \/ n \in Plain /\ PlainEnds(n)
  PROVE  BoxInv'
<1>1. n \in Node /\ phase = "stepping" /\ n \notin Provision /\ pc[n] # "idle"
  BY Parameters, SandboxAssumption DEF ExecStart, ExecEnds, ExecGivesUp, PlainEnds, In
<1>2. PICK at \in {"exec", "ok", "err"} :
        /\ pc' = [pc EXCEPT ![n] = at]
        /\ UNCHANGED <<cont, run, cid, box, provisioned, destroying, kept, life>>
        /\ n \in Exec /\ at = "exec" => Running(Box(n))
  BY SandboxAssumption DEF ExecStart, ExecEnds, ExecGivesUp, PlainEnds, Go
<1>3. \/ orphans' = orphans
      \/ n \in Exec /\ pc[n] = "exec" /\ orphans' = orphans \cup {<<n, Box(n)>>}
  BY DEF ExecStart, ExecEnds, ExecGivesUp, PlainEnds, In
<1>4. ASSUME n \in Exec, pc[n] = "exec" PROVE Box(n) \in 1..Len(cont) /\ cont[Box(n)] # "gone"
  <2>1. Running(Box(n))
    BY <1>4, Facts DEF RunningInv
  <2>2. Box(n) \in 0..Len(cont)
    BY <1>4, Facts, Parameters DEF Box, BoxTypes
  <2>3. QED
    BY <2>1, <2>2, Facts DEF Running
<1>5. /\ orphans' \in SUBSET (Exec \X (1..Len(cont)))
      /\ \A o \in orphans' : cont[o[2]] # "gone"
  BY <1>3, <1>4, OrphansStay
<1>6. QED
  BY <1>1, <1>2, <1>5, NodeMoves DEF At

-----------------------------------------------------------------------------
(* Containers come, start and go.                                          *)

LEMMA CreateKeeps ==
  ASSUME BoxInv, NEW n \in Provision, Create(n)
  PROVE  BoxInv'
<1> USE DEF run, life
<1>1. n \in Node /\ n \notin Exec /\ phase = "stepping" /\ pc[n] = "creating"
  BY Parameters, SandboxAssumption DEF Create, In
<1>2. CASE Go(n, "err") /\ UNCHANGED <<cont, cid>>
  <2>1. pc' = [pc EXCEPT ![n] = "err"]
        /\ UNCHANGED <<cont, run, cid, box, provisioned, destroying, kept, orphans, life>>
    BY <1>2 DEF Create, Go
  <2>2. QED
    BY <1>1, <2>1, NodeMoves, OrphansStay DEF At, Unstarted
<1>3. CASE /\ cont' = Append(cont, "created")
           /\ cid' = [cid EXCEPT ![n] = Len(cont')]
           /\ Go(n, "created")
  <2> DEFINE k == Len(cont) + 1
  <2>1. /\ k \in Nat /\ k # 0 /\ cont' \in Seq(State) /\ Len(cont') = k /\ cont'[k] = "created"
        /\ \A c \in 1..Len(cont) : cont'[c] = cont[c]
    BY <1>3, Facts DEF State
  <2>2. UNCHANGED <<run, box, provisioned, destroying, kept, orphans, life>>
    BY DEF Create
  <2>3. /\ \A m \in Node : pc'[m] = IF m = n THEN "created" ELSE pc[m]
        /\ pc' \in [Node -> At]
    BY <1>3, Facts DEF PlainTypes, Go, At
  <2>4. /\ \A p \in Provision : cid'[p] = IF p = n THEN k ELSE cid[p]
        /\ \A p \in Provision : cid[p] \in 0..Len(cont)
        /\ cid' \in [Provision -> 0..k]
    BY <1>3, <2>1, Facts DEF BoxTypes
  <2>5. TypeOK'
    <3>1. PlainTypes'
      BY <2>2, <2>3, Facts DEF PlainTypes
    <3>2. BoxTypes(Len(cont))'
      BY <2>1, <2>2, <2>4, Facts DEF BoxTypes
    <3>3. QED
      BY <2>1, <3>1, <3>2, NextTypes
  <2>6. PhaseInv'
    BY <1>1, <2>2, <2>3, Facts DEF PhaseInv
  <2>7. \A p \in Provision : Unstarted(p)' <=> (p = n \/ Unstarted(p))
    BY <2>3, Parameters DEF Unstarted
  <2>8. UnstartedInv'
    <3>1. \A p \in Provision : Unstarted(p) => cid[p] \in 1..Len(cont)
      BY <2>4, Facts DEF UnstartedInv
    <3>2. ~Unstarted(n)
      BY <1>1 DEF Unstarted
    <3>3. QED
      BY <2>1, <2>4, <2>7, <3>1, <3>2, Facts DEF UnstartedInv
  <2>9. RunningInv'
    <3>1. \A c \in 1..Len(cont) : Running(c) => Running(c)'
      BY <2>1 DEF Running
    <3>2. \A m \in Exec : pc'[m] = "exec" => pc[m] = "exec" /\ Box(m) \in 0..Len(cont) /\ Box(m)' = Box(m)
      BY <2>2, <2>3, Facts, Parameters DEF Box, BoxTypes
    <3>3. provisioned \cup destroying \subseteq 1..Len(cont)
          /\ \A o \in orphans : o[2] \in 1..Len(cont)
      BY Facts DEF BoxTypes
    <3>4. \A m \in Exec : pc[m] = "exec" => Box(m) # 0
      BY Facts DEF RunningInv, Running
    <3>5. QED
      BY <2>1, <2>2, <3>1, <3>2, <3>3, <3>4, Facts DEF RunningInv, Running
  <2>10. AccountInv'
    <3>1. SUFFICES ASSUME phase # "crashed", outcome # "panicked",
                          NEW c \in (base + 1)..k
                   PROVE  Accounted(c)'
      BY <2>1, <2>2 DEF AccountInv
    <3>2. CASE c = k
      BY <2>4, <2>7, <3>2 DEF Accounted
    <3>3. CASE c # k
      <4>1. c \in (base + 1)..Len(cont) /\ c \in 1..Len(cont) /\ cont'[c] = cont[c]
        BY <2>1, <3>3, Facts DEF BoxTypes
      <4>2. Accounted(c)
        BY <3>1, <4>1, Facts DEF AccountInv
      <4>3. \A p \in Provision : Unstarted(p) => cid'[p] = cid[p]
        BY <1>1, <2>4 DEF Unstarted
      <4>4. QED
        BY <2>2, <2>7, <4>1, <4>2, <4>3 DEF Accounted
    <3>4. QED
      BY <3>2, <3>3
  <2>11. QED
    BY <2>5, <2>6, <2>8, <2>9, <2>10 DEF BoxInv
<1>4. QED
  BY <1>2, <1>3 DEF Create

\* A node is done with its new container: it runs and is recorded, or it was
\* removed, or it could not be.
LEMMA SettledContainer ==
  ASSUME BoxInv, NEW n \in Provision, NEW at \in {"ok", "err"}, NEW x \in State,
         phase = "stepping", Unstarted(n),
         pc' = [pc EXCEPT ![n] = at],
         cont' = [cont EXCEPT ![cid[n]] = x],
         x = "created" => kept' = kept \cup {cid[n]},
         x # "created" => kept' = kept,
         provisioned' = IF x = "running" THEN provisioned \cup {cid[n]} ELSE provisioned,
         orphans' \subseteq orphans,
         x = "gone" => \A o \in orphans' : o[2] # cid[n],
         UNCHANGED <<run, cid, box, destroying, life>>
  PROVE  BoxInv'
<1> USE DEF run, life
<1> DEFINE k == cid[n]
<1>1. n \in Node /\ n \notin Exec
  BY Parameters, SandboxAssumption
<1>2. k \in 1..Len(cont) /\ cont[k] = "created"
  BY Facts DEF UnstartedInv, BoxTypes
<1>3. /\ cont' \in Seq(State) /\ Len(cont') = Len(cont) /\ cont'[k] = x
      /\ \A c \in 1..Len(cont) : c # k => cont'[c] = cont[c]
  BY <1>2, Facts, ContChanges
<1>4. /\ \A m \in Node : pc'[m] = IF m = n THEN at ELSE pc[m]
      /\ pc' \in [Node -> At]
  BY <1>1, Facts DEF PlainTypes, At
<1>5. TypeOK'
  <2>1. PlainTypes'
    BY <1>4, Facts DEF PlainTypes
  <2>2. BoxTypes(Len(cont))'
    BY <1>2, <1>3, Facts DEF BoxTypes
  <2>3. QED
    BY <1>3, <2>1, <2>2, NextTypes
<1>6. PhaseInv'
  BY <1>1, <1>4, Facts DEF PhaseInv, Unstarted
<1>7. \A p \in Provision : Unstarted(p)' <=> (p # n /\ Unstarted(p))
  BY <1>4, Parameters DEF Unstarted
<1>8. \A p \in Provision : p # n /\ Unstarted(p) => cid[p] # k /\ cid[p] \in 1..Len(cont)
  BY Facts DEF UnstartedInv, BoxTypes
<1>9. UnstartedInv'
  BY <1>3, <1>7, <1>8, Facts DEF UnstartedInv
<1>10. \A c \in 1..Len(cont) : Running(c) => c # k /\ Running(c)'
  BY <1>2, <1>3 DEF Running
<1>11. RunningInv'
  <2>1. \A m \in Exec : pc'[m] = "exec" => Running(Box(m))'
    <3>1. TAKE m \in Exec
    <3>2. HAVE pc'[m] = "exec"
    <3>3. pc[m] = "exec" /\ Box(m)' = Box(m) /\ Box(m) \in 0..Len(cont)
      BY <1>1, <1>4, <3>2, Facts, Parameters DEF Box, BoxTypes
    <3>4. Running(Box(m)) /\ Box(m) \in 1..Len(cont)
      BY <3>3, Facts DEF RunningInv, Running
    <3>5. QED
      BY <1>10, <3>3, <3>4 DEF Running
  <2>2. \A c \in provisioned' \cup destroying' : Running(c)'
    <3>1. \A c \in provisioned \cup destroying : Running(c) /\ c \in 1..Len(cont)
      BY Facts DEF RunningInv, BoxTypes
    <3>2. x = "running" => Running(k)'
      BY <1>2, <1>3 DEF Running
    <3>3. QED
      BY <1>10, <3>1, <3>2
  <2>3. \A o \in orphans' : cont'[o[2]] # "gone"
    <3>1. \A o \in orphans' : o[2] \in 1..Len(cont) /\ cont[o[2]] # "gone"
      BY OrphansStay
    <3>2. QED
      BY <1>3, <3>1
  <2>4. QED
    BY <2>1, <2>2, <2>3 DEF RunningInv
<1>12. AccountInv'
  <2>1. SUFFICES ASSUME phase # "crashed", outcome # "panicked",
                        NEW c \in (base + 1)..Len(cont)
                 PROVE  Accounted(c)'
    BY <1>3 DEF AccountInv
  <2>2. c \in 1..Len(cont) /\ Accounted(c)
    BY <2>1, Facts DEF AccountInv, BoxTypes
  <2>3. CASE c = k
    BY <1>3, <2>3 DEF Accounted, State
  <2>4. CASE c # k
    BY <1>3, <1>7, <2>2, <2>4 DEF Accounted
  <2>5. QED
    BY <2>3, <2>4
<1>13. QED
  BY <1>5, <1>6, <1>9, <1>11, <1>12 DEF BoxInv

LEMMA StartedKeeps ==
  ASSUME BoxInv, NEW n \in Provision, Started(n)
  PROVE  BoxInv'
<1>1. Unstarted(n) /\ phase = "stepping"
  BY DEF Started, In, Unstarted
<1>2. QED
  BY <1>1, SettledContainer DEF Started, Go, Recorded, State

LEMMA RemoveUnstartedKeeps ==
  ASSUME BoxInv, NEW n \in Provision, RemoveUnstarted(n)
  PROVE  BoxInv'
<1>1. Unstarted(n) /\ phase = "stepping"
  BY DEF RemoveUnstarted, In, Unstarted
<1>2. CASE Gone(cid[n]) /\ UNCHANGED kept
  BY <1>1, <1>2, SettledContainer DEF RemoveUnstarted, Go, Gone, State
<1>3. CASE kept' = kept \cup {cid[n]} /\ UNCHANGED <<cont, orphans>>
  <2>1. cid[n] \in 1..Len(cont) /\ cont[cid[n]] = "created"
    BY <1>1, Facts DEF UnstartedInv, BoxTypes
  <2>2. cont' = [cont EXCEPT ![cid[n]] = "created"]
    BY <1>3, <2>1, Facts
  <2>3. QED
    BY <1>1, <1>3, <2>2, SettledContainer DEF RemoveUnstarted, Go, State
<1>4. QED
  BY <1>2, <1>3 DEF RemoveUnstarted

\* cleanup_all is through with a container.
LEMMA DestroyKeeps ==
  ASSUME BoxInv, NEW c \in destroying, Destroy(c) \/ GiveUpDestroy(c)
  PROVE  BoxInv'
<1> USE DEF run, life
<1>1. /\ phase = "cleanup" /\ destroying' = destroying \ {c}
      /\ UNCHANGED <<run, pc, cid, box, provisioned, life>>
      /\ \/ cont' = [cont EXCEPT ![c] = "gone"] /\ orphans' = {o \in orphans : o[2] # c} /\ kept' = kept
         \/ cont' = cont /\ orphans' = orphans /\ kept' = kept \cup {c}
  BY DEF Destroy, GiveUpDestroy, Gone
<1>2. c \in 1..Len(cont) /\ Running(c) /\ provisioned = {}
      /\ \A n \in Node : ~Unstarted(n) /\ pc[n] # "exec"
  BY <1>1, Facts, NoneUnstarted DEF BoxTypes, RunningInv, PhaseInv
<1>3. /\ cont' \in Seq(State) /\ Len(cont') = Len(cont)
      /\ cont'[c] = "gone" \/ c \in kept'
      /\ \A d \in 1..Len(cont) : d # c => cont'[d] = cont[d]
      /\ orphans' \subseteq orphans
      /\ \A o \in orphans' : cont'[o[2]] # "gone"
  <2>1. CASE cont' = [cont EXCEPT ![c] = "gone"]
    <3>1. /\ cont' \in Seq(State) /\ Len(cont') = Len(cont) /\ cont'[c] = "gone"
          /\ \A d \in 1..Len(cont) : d # c => cont'[d] = cont[d]
      BY <1>2, <2>1, Facts, ContChanges DEF State
    <3>2. orphans' = {o \in orphans : o[2] # c}
      BY <1>1, <1>2, <3>1 DEF Running
    <3>3. QED
      BY <3>1, <3>2, OrphansStay
  <2>2. CASE cont' = cont /\ orphans' = orphans /\ kept' = kept \cup {c}
    BY <2>2, Facts, OrphansStay
  <2>3. QED
    BY <1>1, <2>1, <2>2
<1>4. TypeOK'
  <2>1. PlainTypes'
    BY <1>1, Facts DEF PlainTypes
  <2>2. BoxTypes(Len(cont))'
    BY <1>1, <1>2, <1>3, Facts DEF BoxTypes
  <2>3. QED
    BY <1>3, <2>1, <2>2, NextTypes
<1>5. PhaseInv'
  BY <1>1, Facts DEF PhaseInv
<1>6. \A n \in Node : ~Unstarted(n)' /\ pc'[n] # "exec"
  BY <1>1, <1>2 DEF Unstarted
<1>7. UnstartedInv'
  BY <1>6, Parameters DEF UnstartedInv
<1>8. RunningInv'
  <2>1. \A d \in destroying' : Running(d)'
    BY <1>1, <1>3, Facts DEF RunningInv, Running, BoxTypes
  <2>2. QED
    BY <1>1, <1>2, <1>3, <1>6, <2>1, Parameters DEF RunningInv
<1>9. AccountInv'
  <2>1. SUFFICES ASSUME phase # "crashed", outcome # "panicked",
                        NEW d \in (base + 1)..Len(cont)
                 PROVE  Accounted(d)'
    BY <1>1, <1>3 DEF AccountInv
  <2>2. d \in 1..Len(cont) /\ Accounted(d)
    BY <2>1, Facts DEF AccountInv, BoxTypes
  <2>3. \/ cont[d] = "gone" \/ d \in kept \/ d \in provisioned \cup destroying
    BY <1>2, <2>2, Parameters DEF Accounted
  <2>4. kept \subseteq kept'
    BY <1>1
  <2>5. CASE d = c
    BY <1>3, <2>5 DEF Accounted
  <2>6. CASE d # c
    BY <1>1, <1>3, <2>2, <2>3, <2>4, <2>6 DEF Accounted
  <2>7. QED
    BY <2>5, <2>6
<1>10. QED
  BY <1>4, <1>5, <1>7, <1>8, <1>9 DEF BoxInv

-----------------------------------------------------------------------------
(* The loop and the end of a run.                                          *)

\* Between attempts no node has a container in its hands and no command runs.
LEMMA LoopStep ==
  ASSUME BoxInv, \A n \in Node : ~Unstarted(n)' /\ pc'[n] # "exec",
         PlainTypes', BoxTypes(Len(cont))', PhaseInv',
         UNCHANGED <<cont, orphans>>,
         provisioned' \cup destroying' \subseteq provisioned \cup destroying,
         AccountInv'
  PROVE  BoxInv'
<1>1. TypeOK'
  BY Facts, NextTypes
<1>2. UnstartedInv'
  BY Parameters DEF UnstartedInv
<1>3. RunningInv'
  BY Facts, Parameters DEF RunningInv, Running
<1>4. QED
  BY <1>1, <1>2, <1>3 DEF BoxInv

\* When nothing a node has in its hands is lost sight of, all stay accounted for.
LEMMA AccountStays ==
  ASSUME BoxInv, \A n \in Node : ~Unstarted(n),
         (phase # "crashed" /\ outcome # "panicked") \/ phase' = "crashed" \/ outcome' = "panicked",
         UNCHANGED <<cont, kept, base>>,
         provisioned' \cup destroying' = provisioned \cup destroying
           \/ phase' = "crashed" \/ outcome' = "panicked"
  PROVE  AccountInv'
<1>1. SUFFICES ASSUME phase' # "crashed", outcome' # "panicked",
                      NEW c \in (base + 1)..Len(cont)
               PROVE  Accounted(c)'
  BY DEF AccountInv
<1>2. Accounted(c)
  BY <1>1, Facts DEF AccountInv
<1>3. QED
  BY <1>1, <1>2, Parameters DEF Accounted

LEMMA AttemptKeeps ==
  ASSUME BoxInv, StartStep \/ Merge \/ Retry
  PROVE  BoxInv'
<1>1. /\ phase \in {"between", "stepping"} /\ phase' \in {"between", "stepping"}
      /\ phase # "stepping" \/ Settled
      /\ pc' = Quiet \/ (pc' = Begun /\ frontier' = frontier)
      /\ phase' # "stepping" => pc' = Quiet
      /\ UNCHANGED <<cont, provisioned, destroying, kept, orphans, life>>
  BY DEF StartStep, Merge, Retry, run
<1>2. \A n \in Node : ~Unstarted(n) /\ ~Unstarted(n)' /\ pc'[n] # "exec"
  BY <1>1, NoneUnstarted, QuietFacts DEF Unstarted
<1>3. outcome = "none" /\ outcome' = "none"
  BY <1>1, Facts DEF PhaseInv, life
<1>4. PhaseInv'
  BY <1>1, <1>3, QuietFacts, Facts DEF PhaseInv
<1>5. PlainTypes'
  <2>1. pc' \in [Node -> At] /\ phase' \in Phase /\ frontier' \in SUBSET Node
    BY <1>1, QuietFacts, Facts DEF Phase, PlainTypes, Merge, StartStep, Retry
  <2>2. retries' \in 0..MaxRetries /\ steps' \in 0..MaxSteps
    BY Facts, Parameters DEF PlainTypes, StartStep, Merge, Retry, MayRetry
  <2>3. QED
    BY <1>1, <2>1, <2>2, Facts DEF PlainTypes, life
<1>6. BoxTypes(Len(cont))'
  <2>1. NoBox \in [Provision -> 0..Len(cont)]
    BY Facts DEF NoBox
  <2>2. cid' \in [Provision -> 0..Len(cont)]
    BY <2>1, Facts DEF BoxTypes, StartStep, Merge, Retry
  <2>3. box' \in [Provision -> 0..Len(cont)]
    BY Facts DEF BoxTypes, StartStep, Merge, Retry
  <2>4. saved' \in [frontier : SUBSET Node, box : [Provision -> 0..Len(cont)]]
    BY Facts DEF BoxTypes, PlainTypes, StartStep, Merge, Retry
  <2>5. QED
    BY <1>1, <2>2, <2>3, <2>4, Facts DEF BoxTypes, life
<1>7. AccountInv'
  BY <1>1, <1>2, <1>3, AccountStays DEF life
<1>8. QED
  BY <1>1, <1>2, <1>4, <1>5, <1>6, <1>7, LoopStep

\* cleanup_all begins with everything that is recorded.
LEMMA CleanUpKeeps ==
  ASSUME BoxInv, CleanUp, pc' = Quiet,
         outcome' = "panicked" \/ (outcome' \in {"final", "suspended"} /\ outcome = "none"
                                   /\ phase # "crashed" /\ (phase # "stepping" \/ Settled)),
         destroying = {}
  PROVE  BoxInv'
<1> USE DEF CleanUp
<1>1. \A n \in Node : ~Unstarted(n)' /\ pc'[n] # "exec"
  BY QuietFacts DEF Unstarted
<1>2. PhaseInv'
  BY QuietFacts DEF PhaseInv
<1>3. PlainTypes'
  BY QuietFacts, Facts DEF PlainTypes, Phase
<1>4. BoxTypes(Len(cont))'
  BY Facts DEF BoxTypes
<1>5. AccountInv'
  <2>1. CASE outcome' = "panicked"
    BY <2>1 DEF AccountInv
  <2>2. CASE outcome' # "panicked"
    BY <2>2, NoneUnstarted, AccountStays
  <2>3. QED
    BY <2>1, <2>2
<1>6. QED
  BY <1>1, <1>2, <1>3, <1>4, <1>5, LoopStep

LEMMA EndRunKeeps ==
  ASSUME BoxInv, EndRun
  PROVE  BoxInv'
<1>1. phase \in {"between", "stepping"} /\ outcome' \in {"final", "suspended"}
      /\ (phase # "stepping" \/ Settled) /\ CleanUp
  BY DEF EndRun
<1>2. outcome = "none" /\ destroying = {}
  BY <1>1, Facts DEF PhaseInv
<1>3. \A n \in Node : pc[n] \in {"ok", "err", "idle"}
  BY <1>1, QuietFacts, Facts DEF PhaseInv, Settled
<1>4. pc' = Quiet
  BY <1>3 DEF EndRun, Quiet
<1>5. QED
  BY <1>1, <1>2, <1>4, CleanUpKeeps

LEMMA PanicKeeps ==
  ASSUME BoxInv, NEW n \in Plain, Panic(n)
  PROVE  BoxInv'
BY Facts, CleanUpKeeps DEF Panic, In, PhaseInv

\* What ends, dies, or begins again.
LEMMA LifeKeeps ==
  ASSUME BoxInv, Return \/ Crash \/ Resume
  PROVE  BoxInv'
<1> USE DEF run, life
<1>1. CASE Return
  <2>1. /\ phase = "cleanup" /\ phase' = "over" /\ destroying = {}
        /\ UNCHANGED <<cont, frontier, saved, retries, steps, pc, cid, box, provisioned,
                       destroying, kept, orphans, life>>
    BY <1>1 DEF Return
  <2>2. pc = Quiet /\ provisioned = {} /\ \A n \in Node : ~Unstarted(n)
    BY <2>1, Facts, NoneUnstarted DEF PhaseInv
  <2>3. \A n \in Node : ~Unstarted(n)' /\ pc'[n] # "exec"
    BY <2>1, <2>2, QuietFacts DEF Unstarted
  <2>4. PhaseInv'
    BY <2>1, <2>2, QuietFacts DEF PhaseInv
  <2>5. PlainTypes' /\ BoxTypes(Len(cont))'
    BY <2>1, Facts DEF PlainTypes, BoxTypes, Phase
  <2>6. AccountInv'
    <3>1. phase # "crashed" /\ outcome' = outcome
      BY <2>1
    <3>2. CASE outcome = "panicked"
      BY <3>1, <3>2 DEF AccountInv
    <3>3. CASE outcome # "panicked"
      BY <2>1, <2>2, <3>1, <3>3, AccountStays
    <3>4. QED
      BY <3>2, <3>3
  <2>7. QED
    BY <2>1, <2>3, <2>4, <2>5, <2>6, LoopStep
<1>2. CASE Crash
  <2>1. /\ phase' = "crashed" /\ pc' = Quiet /\ provisioned' = {} /\ destroying' = {}
        /\ UNCHANGED <<cont, frontier, saved, retries, steps, cid, box, kept, orphans, life>>
    BY <1>2 DEF Crash
  <2>2. \A n \in Node : ~Unstarted(n)' /\ pc'[n] # "exec"
    BY <2>1, QuietFacts DEF Unstarted
  <2>3. PhaseInv' /\ AccountInv'
    BY <2>1, QuietFacts DEF PhaseInv, AccountInv
  <2>4. PlainTypes' /\ BoxTypes(Len(cont))'
    BY <2>1, QuietFacts, Facts DEF PlainTypes, BoxTypes, Phase
  <2>5. QED
    BY <2>1, <2>2, <2>3, <2>4, LoopStep
<1>3. CASE Resume
  <2>1. /\ phase \in {"over", "crashed"} /\ phase' = "between"
        /\ frontier' = saved.frontier /\ box' = saved.box /\ cid' = NoBox
        /\ cancelled' = FALSE /\ outcome' = "none" /\ base' = Len(cont)
        /\ lives < MaxLives /\ lives' = lives + 1
        /\ UNCHANGED <<cont, saved, retries, steps, pc, provisioned, destroying, kept, orphans>>
    BY <1>3 DEF Resume
  <2>2. pc = Quiet /\ provisioned = {} /\ destroying = {}
    BY <2>1, Facts DEF PhaseInv
  <2>3. \A n \in Node : ~Unstarted(n)' /\ pc'[n] # "exec"
    BY <2>1, <2>2, QuietFacts DEF Unstarted
  <2>4. PhaseInv'
    BY <2>1, <2>2, QuietFacts DEF PhaseInv
  <2>5. AccountInv'
    BY <2>1, Facts DEF AccountInv
  <2>6. PlainTypes'
    <3>1. lives' \in 1..MaxLives
      BY <2>1, Facts, Parameters DEF PlainTypes
    <3>2. frontier' \in SUBSET Node
      BY <2>1, Facts DEF BoxTypes
    <3>3. QED
      BY <2>1, <3>1, <3>2, Facts DEF PlainTypes, Phase
  <2>7. BoxTypes(Len(cont))'
    <3>1. NoBox \in [Provision -> 0..Len(cont)] /\ base' \in 0..Len(cont)
      BY <2>1, Facts DEF NoBox
    <3>2. QED
      BY <2>1, <3>1, Facts DEF BoxTypes
  <2>8. QED
    BY <2>1, <2>3, <2>4, <2>5, <2>6, <2>7, LoopStep
<1>4. QED
  BY <1>1, <1>2, <1>3

\* Steps that only the token or an orphaned command sees, and stuttering.
LEMMA QuietSteps ==
  ASSUME BoxInv, UNCHANGED <<cont, run, pc, cid, box, provisioned, destroying, kept>>,
         UNCHANGED <<outcome, base, lives>>, cancelled' \in BOOLEAN,
         orphans' \subseteq orphans
  PROVE  BoxInv'
<1> USE DEF run
<1>1. TypeOK'
  <2>1. PlainTypes' /\ BoxTypes(Len(cont))'
    BY Facts DEF PlainTypes, BoxTypes
  <2>2. QED
    BY <2>1, Facts, NextTypes
<1>2. PhaseInv' /\ UnstartedInv' /\ RunningInv'
  BY Facts DEF PhaseInv, UnstartedInv, RunningInv, Unstarted, Running, Box
<1>3. AccountInv'
  BY Facts DEF AccountInv, Accounted, Unstarted
<1>4. QED
  BY <1>1, <1>2, <1>3 DEF BoxInv

LEMMA NextBoxInv == BoxInv /\ [Next]_vars => BoxInv'
<1> SUFFICES ASSUME BoxInv, [Next]_vars PROVE BoxInv'
  OBVIOUS
<1>1. CASE Loop
  BY <1>1, AttemptKeeps, EndRunKeeps, LifeKeeps DEF Loop
<1>2. CASE Crash \/ Resume
  BY <1>2, LifeKeeps
<1>3. CASE CancelRun
  BY <1>3, QuietSteps DEF CancelRun
<1>4. ASSUME NEW n \in Provision, Provisioning(n) PROVE BoxInv'
  BY <1>4, ProvisionMoves, CreateKeeps, StartedKeeps, RemoveUnstartedKeeps DEF Provisioning
<1>5. ASSUME NEW n \in Exec, Executing(n) PROVE BoxInv'
  BY <1>5, OthersMove DEF Executing
<1>6. ASSUME NEW n \in Plain, PlainEnds(n) PROVE BoxInv'
  BY <1>6, OthersMove
<1>7. ASSUME NEW n \in Plain, Panic(n) PROVE BoxInv'
  BY <1>7, PanicKeeps
<1>8. ASSUME NEW o \in orphans, OrphanEnds(o) PROVE BoxInv'
  <2>1. cancelled \in BOOLEAN
    BY Facts DEF PlainTypes
  <2>2. QED
    BY <1>8, <2>1, QuietSteps DEF OrphanEnds, life
<1>9. ASSUME NEW c \in destroying, Destroy(c) \/ GiveUpDestroy(c) PROVE BoxInv'
  BY <1>9, DestroyKeeps
<1>10. CASE UNCHANGED vars
  <2>1. cancelled \in BOOLEAN
    BY Facts DEF PlainTypes
  <2>2. QED
    BY <1>10, <2>1, QuietSteps DEF vars, life
<1>11. QED
  BY <1>1, <1>2, <1>3, <1>4, <1>5, <1>6, <1>7, <1>8, <1>9, <1>10 DEF Next

LEMMA BoxInvHolds == Spec => []BoxInv
BY InitBoxInv, NextBoxInv, PTL DEF Spec

\* Every variable of a run's containers keeps its type.
THEOREM SandboxesTypeCorrect == Spec => []TypeOK
<1>1. BoxInv => TypeOK
  BY DEF BoxInv
<1>2. QED
  BY <1>1, BoxInvHolds, PTL

\* A run that has returned without a panic leaves no container of its process
\* behind, nor a command in one, unless the removal failed (run_with_cancel).
THEOREM NothingLeaksHolds == Spec => []NothingLeaks
<1>1. BoxInv => NothingLeaks
  <2>1. SUFFICES ASSUME BoxInv, phase = "over", outcome # "panicked"
                 PROVE  /\ \A c \in base + 1..Len(cont) : cont[c] = "gone" \/ c \in kept
                        /\ \A o \in orphans : o[2] \in kept \/ o[2] <= base
    BY DEF NothingLeaks
  <2>2. provisioned = {} /\ destroying = {} /\ \A p \in Provision : ~Unstarted(p)
    BY <2>1, Facts, NoneUnstarted, Parameters DEF PhaseInv
  <2>3. \A c \in (base + 1)..Len(cont) : cont[c] = "gone" \/ c \in kept
    BY <2>1, <2>2, Facts DEF AccountInv, Accounted
  <2>4. \A o \in orphans : o[2] \in 1..Len(cont) /\ cont[o[2]] # "gone"
    BY <2>1, OrphansStay
  <2>5. base \in Nat
    BY <2>1, Facts DEF BoxTypes
  <2>6. QED
    BY <2>3, <2>4, <2>5
<1>2. QED
  BY <1>1, BoxInvHolds, PTL

\* No container is destroyed under a command of the run or a second time: the
\* teardown waits for the whole frontier (execute, cleanup_all).
THEOREM TeardownIsSafeHolds == Spec => []TeardownIsSafe
<1>1. BoxInv => TeardownIsSafe
  <2>1. SUFFICES ASSUME BoxInv PROVE TeardownIsSafe
    OBVIOUS
  <2>2. \A n \in Exec : pc[n] = "exec" => destroying = {}
    BY <2>1, Facts, NoneUnstarted, Parameters DEF PhaseInv
  <2>3. QED
    BY <2>1, <2>2, Facts DEF TeardownIsSafe, RunningInv
<1>2. QED
  BY <1>1, BoxInvHolds, PTL
=============================================================================
