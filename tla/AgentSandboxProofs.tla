------------------------- MODULE AgentSandboxProofs -------------------------
(***************************************************************************)
(* Proofs about AgentSandbox for every number of nodes, attempts,          *)
(* connections and events: an answer tells all of the run it is about, and *)
(* a node is answered by the agent it launched or by one that was lost.    *)
(***************************************************************************)
EXTENDS AgentSandbox, TLAPS

Holding(n) == pc[n] \in {"endpoint", "ready", "turn", "stop"}
Active(n) == Holding(n) \/ pc[n] = "launch"

\* The container is one node's at a time, and so is the pid file.
NodeInv ==
  /\ \A m, n \in Node : Active(m) /\ Active(n) => m = n
  /\ \A n \in Node :
       /\ Holding(n) => mine[n] = pidfile /\ pidfile # 0
       /\ pc[n] \in {"idle", "launch", "endpoint", "ready"} => at[n] = 0
       /\ pc[n] = "stop" => result[n] # "none"

\* An agent that is not lost lives only under a node that holds it.
AgentInv == \A p \in Alive : p \in lost \/ (p = pidfile /\ \E n \in Node : Holding(n))

\* The client of an open connection waits in its turn, and has heard all of it.
OpenInv ==
  \A t \in DOMAIN turns : turns[t].open =>
    /\ at[turns[t].by] = t /\ pc[turns[t].by] = "turn"
    /\ turns[t].handler # "broken" /\ turns[t].heard = turns[t].sent

\* What a node holds an answer to is over for good.
AnswerInv ==
  \A n \in Node :
    /\ at[n] # 0 => /\ turns[at[n]].by = n
                    /\ turns[at[n]].agent = mine[n] \/ turns[at[n]].agent \in lost
    /\ result[n] \in {"ok", "failed"} =>
         /\ at[n] # 0
         /\ turns[at[n]].heard = turns[at[n]].emitted
         /\ result[n] = "ok" <=> turns[at[n]].run = "ok"
         /\ turns[at[n]].handler = "closed" /\ turns[at[n]].run # "running"

PromptInv == TypeOK /\ NodeInv /\ AgentInv /\ OpenInv /\ AnswerInv

-----------------------------------------------------------------------------
(* Types.                                                                  *)

Agents == {"starting", "up", "dead"}
Handlers == {"queued", "draining", "broken", "closed"}
Runs == {"none", "running", "ok", "failed", "panicked", "killed"}

\* A turn with one of the first k agents.
TurnOf(k) ==
  [by : Node, agent : 1..k, open : BOOLEAN, handler : Handlers, run : Runs,
   emitted : 0..MaxEvents, sent : 0..MaxEvents, heard : 0..MaxEvents, cancelled : BOOLEAN]

NodeTypes ==
  /\ pc \in [Node -> Where] /\ tries \in [Node -> 0..MaxTries]
  /\ result \in [Node -> {"none", "ok", "failed", "err"}]
  /\ cancelled \in BOOLEAN

ProcTypes ==
  /\ proc \in Seq(Agents) /\ pidfile \in 0..Len(proc)
  /\ mine \in [Node -> 0..Len(proc)] /\ lost \in SUBSET (1..Len(proc))

TurnTypes ==
  turns \in Seq(TurnOf(Len(proc))) /\ at \in [Node -> 0..Len(turns)]

LEMMA Parameters ==
  MaxTries \in Nat /\ MaxTries > 0 /\ MaxConnections \in Nat /\ MaxEvents \in Nat
BY AgentSandboxAssumption

LEMMA Types == TypeOK <=> NodeTypes /\ ProcTypes /\ TurnTypes
<1>1. ASSUME proc \in Seq(Agents) PROVE Turn = TurnOf(Len(proc))
  <2>1. DOMAIN proc = 1..Len(proc)
    BY <1>1
  <2>2. QED
    BY <2>1 DEF Turn, TurnOf, Handlers, Runs
<1>2. ASSUME proc \in Seq(Agents) PROVE DOMAIN proc = 1..Len(proc)
  BY <1>2
<1>3. QED
  BY <1>1, <1>2 DEF TypeOK, NodeTypes, ProcTypes, TurnTypes, Agents

LEMMA NextTypes == TypeOK' <=> (NodeTypes /\ ProcTypes /\ TurnTypes)'
BY Types, PTL

LEMMA Facts ==
  ASSUME PromptInv
  PROVE  /\ NodeTypes /\ ProcTypes /\ TurnTypes
         /\ NodeInv /\ AgentInv /\ OpenInv /\ AnswerInv
         /\ Len(proc) \in Nat /\ DOMAIN proc = 1..Len(proc)
         /\ Len(turns) \in Nat /\ DOMAIN turns = 1..Len(turns)
         /\ \A n \in Node : at[n] # 0 => at[n] \in DOMAIN turns
         /\ \A t \in DOMAIN turns : turns[t] \in TurnOf(Len(proc)) /\ turns[t].by \in Node
<1>1. NodeTypes /\ ProcTypes /\ TurnTypes
  BY Types DEF PromptInv
<1>2. /\ Len(proc) \in Nat /\ DOMAIN proc = 1..Len(proc)
      /\ Len(turns) \in Nat /\ DOMAIN turns = 1..Len(turns)
  BY <1>1 DEF ProcTypes, TurnTypes
<1>3. \A t \in DOMAIN turns : turns[t] \in TurnOf(Len(proc))
  BY <1>1, <1>2 DEF TurnTypes
<1>4. \A t \in DOMAIN turns : turns[t].by \in Node
  BY <1>3 DEF TurnOf
<1>5. \A n \in Node : at[n] # 0 => at[n] \in DOMAIN turns
  BY <1>1, <1>2 DEF TurnTypes
<1>6. QED
  BY <1>1, <1>2, <1>3, <1>4, <1>5 DEF PromptInv

\* A sequence rewritten in place.
LEMMA Rewritten ==
  ASSUME NEW s, Len(s) \in Nat, NEW T, NEW f \in [1..Len(s) -> T]
  PROVE  f \in Seq(T) /\ Len(f) = Len(s) /\ DOMAIN f = 1..Len(s)
<1>1. f \in Seq(T) /\ DOMAIN f = 1..Len(s)
  OBVIOUS
<1>2. Len(f) = Len(s)
  BY <1>1
<1>3. QED
  BY <1>1, <1>2

LEMMA InitPromptInv == Init => PromptInv
<1> SUFFICES ASSUME Init PROVE PromptInv
  OBVIOUS
<1> USE DEF Init
<1>1. proc \in Seq(Agents) /\ turns \in Seq(TurnOf(Len(proc))) /\ Len(proc) = 0 /\ Len(turns) = 0
      /\ DOMAIN proc = {} /\ DOMAIN turns = {}
  OBVIOUS
<1>2. ProcTypes /\ TurnTypes
  BY <1>1 DEF ProcTypes, TurnTypes
<1>3. NodeTypes
  <2>1. 0 \in 0..MaxTries
    BY Parameters
  <2>2. tries \in [Node -> 0..MaxTries] /\ pc \in [Node -> Where]
        /\ result \in [Node -> {"none", "ok", "failed", "err"}]
    BY <2>1 DEF Where
  <2>3. QED
    BY <2>2 DEF NodeTypes
<1>4. TypeOK
  BY <1>2, <1>3, Types
<1>5. NodeInv /\ AgentInv /\ OpenInv /\ AnswerInv
  BY <1>1 DEF NodeInv, AgentInv, OpenInv, AnswerInv, Active, Holding, Alive
<1>6. QED
  BY <1>4, <1>5 DEF PromptInv

-----------------------------------------------------------------------------
(* The server's side of a turn.                                            *)

\* One turn moves, and neither gains a client nor changes what was answered.
LEMMA TurnMoves ==
  ASSUME PromptInv, NEW t \in DOMAIN turns, NEW turn \in TurnOf(Len(proc)),
         Set(t, turn), UNCHANGED <<node, proc, pidfile, lost, cancelled>>,
         turn.by = turns[t].by, turn.agent = turns[t].agent,
         turn.open => turns[t].open /\ turn.handler # "broken" /\ turn.heard = turn.sent,
         turns[t].handler # "closed" \/ turns[t].run = "running"
  PROVE  PromptInv'
<1> USE DEF node
<1>1. turns' \in [1..Len(turns) -> TurnOf(Len(proc))]
  BY Facts DEF Set, TurnTypes
<1>2. turns' \in Seq(TurnOf(Len(proc))) /\ Len(turns') = Len(turns) /\ DOMAIN turns' = DOMAIN turns
  BY <1>1, Facts, Rewritten
<1>3. turns'[t] = turn /\ \A u \in DOMAIN turns : u # t => turns'[u] = turns[u]
  BY Facts DEF Set
<1>4. TypeOK'
  BY <1>2, Facts, NextTypes DEF NodeTypes, ProcTypes, TurnTypes
<1>5. NodeInv' /\ AgentInv'
  BY Facts DEF NodeInv, AgentInv, Active, Holding, Alive
<1>6. OpenInv'
  BY <1>2, <1>3, Facts DEF OpenInv
<1>7. AnswerInv'
  BY <1>3, Facts DEF AnswerInv
<1>8. QED
  BY <1>4, <1>5, <1>6, <1>7 DEF PromptInv

LEMMA ServerKeeps ==
  ASSUME PromptInv, NEW t \in DOMAIN turns,
         Serve(t) \/ Emit(t) \/ RunEnds(t) \/ Send(t) \/ HandlerDropped(t)
  PROVE  PromptInv'
<1> DEFINE k == Len(proc)
           now == turns[t]
<1>1. /\ now \in TurnOf(k) /\ k \in Nat
      /\ now.open => now.handler # "broken" /\ now.heard = now.sent
  BY Facts DEF OpenInv
<1>2. CASE Serve(t)
  <2>1. PICK turn \in {[now EXCEPT !.handler = "draining", !.run = "running"],
                       [now EXCEPT !.handler = "closed"]} :
          Set(t, turn) /\ (turn.handler = "closed" => ~now.open)
    BY <1>1, <1>2 DEF Serve, TurnOf
  <2>2. /\ turn \in TurnOf(k) /\ turn.by = now.by /\ turn.agent = now.agent
        /\ turn.open = now.open /\ turn.handler # "broken"
        /\ turn.heard = now.heard /\ turn.sent = now.sent
    BY <1>1, <2>1 DEF TurnOf, Handlers, Runs
  <2>3. QED
    BY <1>1, <1>2, <2>1, <2>2, TurnMoves DEF Serve
<1>3. CASE Emit(t)
  <2> DEFINE turn == [now EXCEPT !.emitted = @ + 1]
  <2>1. /\ turn \in TurnOf(k) /\ turn.by = now.by /\ turn.agent = now.agent
        /\ turn.open = now.open /\ turn.handler = now.handler
        /\ turn.heard = now.heard /\ turn.sent = now.sent
    BY <1>1, <1>3, Parameters DEF TurnOf, Emit
  <2>2. QED
    BY <1>1, <1>3, <2>1, TurnMoves DEF Emit
<1>4. CASE RunEnds(t)
  <2>1. PICK how \in {"ok", "failed", "panicked"} : Set(t, [now EXCEPT !.run = how])
    BY <1>4 DEF RunEnds
  <2> DEFINE turn == [now EXCEPT !.run = how]
  <2>2. /\ turn \in TurnOf(k) /\ turn.by = now.by /\ turn.agent = now.agent
        /\ turn.open = now.open /\ turn.handler = now.handler
        /\ turn.heard = now.heard /\ turn.sent = now.sent
    BY <1>1 DEF TurnOf, Runs
  <2>3. QED
    BY <1>1, <1>4, <2>1, <2>2, TurnMoves DEF RunEnds
<1>5. CASE Send(t)
  <2>1. CASE now.open /\ Set(t, [now EXCEPT !.sent = @ + 1, !.heard = @ + 1])
    <3> DEFINE turn == [now EXCEPT !.sent = @ + 1, !.heard = @ + 1]
    <3>1. /\ turn \in TurnOf(k) /\ turn.by = now.by /\ turn.agent = now.agent
          /\ turn.handler = now.handler /\ turn.heard = turn.sent
      <4>1. now.sent + 1 \in 0..MaxEvents /\ now.heard = now.sent
        BY <1>1, <1>5, <2>1, Parameters DEF TurnOf, Send
      <4>2. QED
        BY <1>1, <4>1 DEF TurnOf
    <3>2. QED
      BY <1>1, <1>5, <2>1, <3>1, TurnMoves DEF Send
  <2>2. CASE ~now.open /\ Set(t, [now EXCEPT !.sent = @ + 1])
    <3> DEFINE turn == [now EXCEPT !.sent = @ + 1]
    <3>1. /\ turn \in TurnOf(k) /\ turn.by = now.by /\ turn.agent = now.agent
          /\ turn.open = now.open
      BY <1>1, <1>5, Parameters DEF TurnOf, Send
    <3>2. QED
      BY <1>5, <2>2, <3>1, TurnMoves DEF Send
  <2>3. CASE ~now.open /\ Set(t, [now EXCEPT !.handler = "broken", !.cancelled = TRUE])
    <3> DEFINE turn == [now EXCEPT !.handler = "broken", !.cancelled = TRUE]
    <3>1. /\ turn \in TurnOf(k) /\ turn.by = now.by /\ turn.agent = now.agent
          /\ turn.open = now.open
      BY <1>1 DEF TurnOf, Handlers
    <3>2. QED
      BY <1>5, <2>3, <3>1, TurnMoves DEF Send
  <2>4. QED
    BY <1>5, <2>1, <2>2, <2>3 DEF Send
<1>6. CASE HandlerDropped(t)
  <2> DEFINE turn == [now EXCEPT !.handler = "closed"]
  <2>1. /\ turn \in TurnOf(k) /\ turn.by = now.by /\ turn.agent = now.agent
        /\ turn.open = now.open
    BY <1>1 DEF TurnOf, Handlers
  <2>2. QED
    BY <1>6, <2>1, TurnMoves DEF HandlerDropped
<1>7. QED
  BY <1>2, <1>3, <1>4, <1>5, <1>6

-----------------------------------------------------------------------------
(* The agent processes.                                                    *)

LEMMA BindKeeps ==
  ASSUME PromptInv, NEW p \in DOMAIN proc, Bind(p)
  PROVE  PromptInv'
<1>1. PICK st \in {"up", "dead"} : proc' = [proc EXCEPT ![p] = st]
  BY DEF Bind
<1>2. \A q \in DOMAIN proc : proc[q] \in Agents
  BY Facts DEF ProcTypes
<1>3. proc' \in [1..Len(proc) -> Agents]
  BY <1>1, <1>2, Facts DEF Agents
<1>4. proc' \in Seq(Agents) /\ Len(proc') = Len(proc) /\ DOMAIN proc' = DOMAIN proc
  BY <1>3, Facts, Rewritten
<1>5. UNCHANGED <<node, pidfile, turns, lost, cancelled>>
  BY DEF Bind
<1>6. TypeOK'
  BY <1>4, <1>5, Facts, NextTypes DEF NodeTypes, ProcTypes, TurnTypes, node
<1>7. Alive' \subseteq Alive
  BY <1>1, <1>2, <1>4, Facts DEF Alive, Bind, Agents
<1>8. NodeInv' /\ AgentInv' /\ OpenInv' /\ AnswerInv'
  BY <1>5, <1>7, Facts DEF NodeInv, AgentInv, OpenInv, AnswerInv, Active, Holding, node
<1>9. QED
  BY <1>6, <1>8 DEF PromptInv

\* What the death of processes leaves of the agents and of the turns.
LEMMA KillEffect ==
  ASSUME PromptInv, NEW ps, Kill(ps)
  PROVE  /\ proc' \in Seq(Agents) /\ Len(proc') = Len(proc) /\ Alive' = Alive \ ps
         /\ turns' \in Seq(TurnOf(Len(proc))) /\ Len(turns') = Len(turns)
         /\ DOMAIN turns' = DOMAIN turns
         /\ \A t \in DOMAIN turns :
              \/ turns'[t] = turns[t]
              \/ /\ turns[t].handler # "closed" /\ turns'[t].handler = "closed"
                 /\ turns'[t].by = turns[t].by /\ turns'[t].agent = turns[t].agent
                 /\ turns'[t].open = turns[t].open
                 /\ turns'[t].heard = turns[t].heard /\ turns'[t].sent = turns[t].sent
<1>1. /\ \A q \in DOMAIN proc : proc[q] \in Agents
      /\ \A q \in DOMAIN proc :
           proc'[q] = IF q \in ps THEN "dead" ELSE proc[q]
  <2>1. \A q \in DOMAIN proc : proc[q] \in Agents
    BY Facts DEF ProcTypes
  <2>2. QED
    BY <2>1 DEF Kill
<1>2. proc' \in [1..Len(proc) -> Agents]
  BY <1>1, Facts DEF Kill, Agents
<1>3. proc' \in Seq(Agents) /\ Len(proc') = Len(proc) /\ DOMAIN proc' = DOMAIN proc
  BY <1>2, Facts, Rewritten
<1>4. Alive' = Alive \ ps
  BY <1>1, <1>3 DEF Alive, Agents
<1>5. \A t \in DOMAIN turns :
        turns'[t] = IF turns[t].agent \in ps /\ turns[t].handler # "closed"
                    THEN [turns[t] EXCEPT !.handler = "closed", !.run = "killed"] ELSE turns[t]
  BY DEF Kill
<1>6. ASSUME NEW t \in DOMAIN turns
      PROVE  LET turn == [turns[t] EXCEPT !.handler = "closed", !.run = "killed"] IN
             /\ turn \in TurnOf(Len(proc)) /\ turn.handler = "closed"
             /\ turn.by = turns[t].by /\ turn.agent = turns[t].agent /\ turn.open = turns[t].open
             /\ turn.heard = turns[t].heard /\ turn.sent = turns[t].sent
  <2>1. turns[t] \in TurnOf(Len(proc))
    BY Facts
  <2>2. QED
    BY <2>1 DEF TurnOf, Handlers, Runs
<1>7. turns' \in [1..Len(turns) -> TurnOf(Len(proc))]
  <2>1. DOMAIN turns = 1..Len(turns) /\ \A t \in DOMAIN turns : turns[t] \in TurnOf(Len(proc))
    BY Facts
  <2>2. DOMAIN turns' = 1..Len(turns) /\ turns' = [t \in DOMAIN turns' |-> turns'[t]]
    BY <2>1 DEF Kill
  <2>3. ASSUME NEW t \in 1..Len(turns) PROVE turns'[t] \in TurnOf(Len(proc))
    <3>1. [turns[t] EXCEPT !.handler = "closed", !.run = "killed"] \in TurnOf(Len(proc))
      BY <1>6, <2>1
    <3>2. QED
      BY <1>5, <2>1, <3>1
  <2>4. QED
    BY <2>2, <2>3
<1>8. turns' \in Seq(TurnOf(Len(proc))) /\ Len(turns') = Len(turns) /\ DOMAIN turns' = DOMAIN turns
  BY <1>7, Facts, Rewritten
<1>9. QED
  BY <1>3, <1>4, <1>5, <1>6, <1>8

\* Processes die under the nodes, or because a node's turn is over.
LEMMA KillKeeps ==
  ASSUME PromptInv, NEW ps, Kill(ps), UNCHANGED <<tries, mine, at, result, pidfile, lost, cancelled>>,
         \/ pc' = pc
         \/ \E n \in Node : pc[n] = "stop" /\ pc' = [pc EXCEPT ![n] = result[n]] /\ {pidfile} \cap Alive \subseteq ps
  PROVE  PromptInv'
<1>1. /\ proc' \in Seq(Agents) /\ Len(proc') = Len(proc) /\ Alive' = Alive \ ps
      /\ turns' \in Seq(TurnOf(Len(proc))) /\ Len(turns') = Len(turns)
      /\ DOMAIN turns' = DOMAIN turns
      /\ \A t \in DOMAIN turns :
           \/ turns'[t] = turns[t]
           \/ /\ turns[t].handler # "closed" /\ turns'[t].handler = "closed"
              /\ turns'[t].by = turns[t].by /\ turns'[t].agent = turns[t].agent
              /\ turns'[t].open = turns[t].open
              /\ turns'[t].heard = turns[t].heard /\ turns'[t].sent = turns[t].sent
  BY KillEffect
<1>2. /\ pc' \in [Node -> Where]
      /\ \A m \in Node : pc'[m] = pc[m] \/ (pc[m] = "stop" /\ pc'[m] \in Over)
  <2>1. CASE pc' = pc
    BY <2>1, Facts DEF NodeTypes
  <2>2. ASSUME NEW n \in Node, pc[n] = "stop", pc' = [pc EXCEPT ![n] = result[n]]
        PROVE  <1>2
    <3>1. result[n] \in Over
      BY <2>2, Facts DEF NodeTypes, NodeInv, Over
    <3>2. QED
      BY <2>2, <3>1, Facts DEF NodeTypes, Where, Over
  <2>3. QED
    BY <2>1, <2>2
<1>3. TypeOK'
  BY <1>1, <1>2, Facts, NextTypes DEF NodeTypes, ProcTypes, TurnTypes
<1>4. NodeInv'
  BY <1>2, Facts DEF NodeInv, Active, Holding, Over
<1>5. AgentInv'
  <2>1. SUFFICES ASSUME NEW p \in Alive, p \notin ps, p \notin lost
                 PROVE  p = pidfile /\ \E n \in Node : Holding(n)'
    BY <1>1 DEF AgentInv
  <2>2. p = pidfile /\ \E n \in Node : Holding(n)
    BY <2>1, Facts DEF AgentInv
  <2>3. pc' = pc
    BY <2>1, <2>2
  <2>4. QED
    BY <2>2, <2>3 DEF Holding
<1>6. OpenInv'
  BY <1>1, <1>2, Facts DEF OpenInv
<1>7. AnswerInv'
  BY <1>1, Facts DEF AnswerInv
<1>8. QED
  BY <1>3, <1>4, <1>5, <1>6, <1>7 DEF PromptInv

-----------------------------------------------------------------------------
(* The nodes.                                                              *)

\* A node moves without an agent or a turn being touched.
LEMMA NodeMoves ==
  ASSUME PromptInv, NEW n \in Node, NEW where \in Where,
         GoTo(n, where), UNCHANGED <<proc, pidfile, turns, cancelled>>,
         UNCHANGED <<mine, tries, at>>,
         lost' \in SUBSET (1..Len(proc)), lost \subseteq lost',
         result' \in [Node -> {"none", "ok", "failed", "err"}],
         \A m \in Node \ {n} : result'[m] = result[m],
         result'[n] = result[n] \/ result'[n] = "err",
         where \in {"ready", "turn", "stop"} => Holding(n),
         where \notin {"idle", "launch", "endpoint"},
         where = "ready" => pc[n] = "endpoint",
         where \in Over => Alive \subseteq lost',
         where = "stop" => result'[n] # "none",
         \A t \in DOMAIN turns : turns[t].open => turns[t].by # n
  PROVE  PromptInv'
<1>1. /\ \A m \in Node : pc'[m] = IF m = n THEN where ELSE pc[m]
      /\ pc' \in [Node -> Where]
  BY Facts DEF NodeTypes, GoTo
<1>2. TypeOK'
  BY <1>1, Facts, NextTypes DEF NodeTypes, ProcTypes, TurnTypes
<1>3. NodeInv'
  BY <1>1, Facts DEF NodeInv, Active, Holding
<1>4. AgentInv'
  <2>1. SUFFICES ASSUME NEW p \in Alive, p \notin lost'
                 PROVE  p = pidfile /\ \E m \in Node : Holding(m)'
    BY DEF AgentInv, Alive
  <2>2. PICK m \in Node : p = pidfile /\ Holding(m)
    BY <2>1, Facts DEF AgentInv
  <2>3. where \notin Over
    BY <2>1
  <2>4. CASE m = n
    BY <1>1, <2>2, <2>3, <2>4 DEF Holding, Where, Over
  <2>5. CASE m # n
    BY <1>1, <2>2, <2>5 DEF Holding
  <2>6. QED
    BY <2>4, <2>5
<1>5. OpenInv'
  BY <1>1, Facts DEF OpenInv
<1>6. AnswerInv'
  <2>1. SUFFICES ASSUME NEW m \in Node
                 PROVE  /\ at[m] # 0 => /\ turns[at[m]].by = m
                                        /\ \/ turns[at[m]].agent = mine[m]
                                           \/ turns[at[m]].agent \in lost'
                        /\ result'[m] \in {"ok", "failed"} =>
                             /\ at[m] # 0
                             /\ turns[at[m]].heard = turns[at[m]].emitted
                             /\ result'[m] = "ok" <=> turns[at[m]].run = "ok"
                             /\ turns[at[m]].handler = "closed" /\ turns[at[m]].run # "running"
    BY DEF AnswerInv
  <2>2. result'[m] \in {"ok", "failed"} => result'[m] = result[m]
    OBVIOUS
  <2>3. at[m] # 0 => turns[at[m]].by = m
                     /\ (turns[at[m]].agent = mine[m] \/ turns[at[m]].agent \in lost)
    BY Facts DEF AnswerInv
  <2>4. result[m] \in {"ok", "failed"} =>
          /\ at[m] # 0
          /\ turns[at[m]].heard = turns[at[m]].emitted
          /\ result[m] = "ok" <=> turns[at[m]].run = "ok"
          /\ turns[at[m]].handler = "closed" /\ turns[at[m]].run # "running"
    BY Facts DEF AnswerInv
  <2>5. QED
    BY <2>2, <2>3, <2>4
<1>7. QED
  BY <1>2, <1>3, <1>4, <1>5, <1>6 DEF PromptInv

\* A node that is not in its turn has no open connection.
LEMMA NoneOpen ==
  ASSUME PromptInv, NEW n \in Node, pc[n] # "turn" \/ at[n] = 0
  PROVE  \A t \in DOMAIN turns : turns[t].open => turns[t].by # n
<1>1. 0 \notin DOMAIN turns
  BY Facts
<1>2. QED
  BY <1>1, Facts DEF OpenInv

LEMMA BeginKeeps ==
  ASSUME PromptInv, NEW n \in Node, Begin(n)
  PROVE  PromptInv'
<1>1. /\ \A m \in Node : pc'[m] = IF m = n THEN "launch" ELSE pc[m]
      /\ pc' \in [Node -> Where]
      /\ tries' \in [Node -> 0..MaxTries]
  BY Facts, Parameters DEF NodeTypes, Begin, Where
<1>2. /\ mine' \in [Node -> 0..Len(proc)] /\ at' \in [Node -> 0..Len(turns)]
      /\ result' \in [Node -> {"none", "ok", "failed", "err"}]
      /\ at'[n] = 0 /\ result'[n] = "none"
      /\ \A m \in Node \ {n} : mine'[m] = mine[m] /\ at'[m] = at[m] /\ result'[m] = result[m]
  BY Facts DEF Begin, ProcTypes, TurnTypes, NodeTypes
<1>3. UNCHANGED <<proc, pidfile, turns, lost, cancelled>>
      /\ \A m \in Node : ~Active(m)
  BY DEF Begin, Active, Holding, Over
<1>4. TypeOK'
  BY <1>1, <1>2, <1>3, Facts, NextTypes DEF NodeTypes, ProcTypes, TurnTypes
<1>5. \A m \in Node : Active(m)' => m = n /\ pc'[m] = "launch"
  BY <1>1, <1>3 DEF Active, Holding
<1>6. NodeInv'
  <2>1. \A m \in Node : ~Holding(m)'
    BY <1>1, <1>5 DEF Active, Holding
  <2>2. QED
    BY <1>1, <1>2, <1>5, <2>1, Facts DEF NodeInv
<1>7. AgentInv'
  BY <1>3, Facts DEF AgentInv, Active, Alive
<1>8. \A t \in DOMAIN turns : turns[t].open => turns[t].by # n
  BY NoneOpen DEF Begin
<1>9. OpenInv'
  BY <1>1, <1>2, <1>3, <1>8, Facts DEF OpenInv
<1>10. AnswerInv'
  BY <1>2, <1>3, Facts DEF AnswerInv
<1>11. QED
  BY <1>4, <1>6, <1>7, <1>9, <1>10 DEF PromptInv

\* An agent is launched; the node goes on, or never learns of it.
LEMMA LaunchedKeeps ==
  ASSUME PromptInv, NEW n \in Node, pc[n] = "launch", Launched(n),
         UNCHANGED <<tries, at, result, turns, cancelled>>,
         \/ GoTo(n, "endpoint") /\ lost' = lost
         \/ GoTo(n, "err") /\ lost' = lost \cup {Len(proc) + 1}
  PROVE  PromptInv'
<1> DEFINE k == Len(proc) + 1
<1>1. PICK where \in {"endpoint", "err"} : GoTo(n, where) /\ (where = "err" => k \in lost')
  OBVIOUS
<1>2. /\ \A m \in Node : pc'[m] = IF m = n THEN where ELSE pc[m]
      /\ pc' \in [Node -> Where]
  BY <1>1, Facts DEF NodeTypes, GoTo, Where
<1>3. /\ "starting" \in Agents
      /\ k \in Nat /\ k # 0
  BY Facts DEF Agents
<1>4. /\ proc' \in Seq(Agents) /\ Len(proc') = k /\ DOMAIN proc' = 1..k
      /\ \A p \in DOMAIN proc : proc'[p] = proc[p]
  BY <1>3, Facts DEF ProcTypes, Launched
<1>5. /\ pidfile' = k /\ mine' \in [Node -> 0..k]
      /\ \A m \in Node : mine'[m] = IF m = n THEN k ELSE mine[m]
  BY <1>3, Facts DEF ProcTypes, Launched
<1>6. TurnOf(Len(proc)) \subseteq TurnOf(k)
  BY Facts DEF TurnOf
<1>7. lost' \in SUBSET (1..k) /\ lost \subseteq lost'
  <2>1. lost \in SUBSET (1..Len(proc)) /\ k \in 1..k
    BY <1>3, Facts DEF ProcTypes
  <2>2. 1..Len(proc) \subseteq 1..k
    BY <1>3, Facts
  <2>3. lost' = lost \/ lost' = lost \cup {k}
    OBVIOUS
  <2>4. QED
    BY <2>1, <2>2, <2>3
<1>8. TypeOK'
  <2>1. NodeTypes'
    BY <1>2, Facts DEF NodeTypes
  <2>2. ProcTypes'
    BY <1>3, <1>4, <1>5, <1>7 DEF ProcTypes
  <2>3. turns \in Seq(TurnOf(k))
    <3>1. turns \in [1..Len(turns) -> TurnOf(k)]
      BY <1>6, Facts DEF TurnTypes
    <3>2. QED
      BY <3>1, Facts, Rewritten
  <2>4. TurnTypes'
    BY <1>4, <2>3, Facts DEF TurnTypes
  <2>5. QED
    BY <2>1, <2>2, <2>4, NextTypes
<1>9. \A m \in Node : Active(m) => m = n
  BY Facts DEF NodeInv, Active
<1>10. \A m \in Node : Active(m)' => m = n
  BY <1>2, <1>9 DEF Active, Holding
<1>11. at[n] = 0
  BY Facts DEF NodeInv
<1>12. NodeInv'
  <2>1. \A m \in Node : Holding(m)' => mine'[m] = pidfile' /\ pidfile' # 0
    BY <1>3, <1>5, <1>10 DEF Active
  <2>2. QED
    BY <1>2, <1>10, <1>11, <2>1, Facts DEF NodeInv
<1>13. AgentInv'
  <2>1. SUFFICES ASSUME NEW p \in Alive', p \notin lost'
                 PROVE  p = pidfile' /\ \E m \in Node : Holding(m)'
    BY DEF AgentInv
  <2>2. p \notin Alive
    <3>1. \A m \in Node : ~Holding(m)
      BY <1>9 DEF Active, Holding
    <3>2. QED
      BY <1>7, <2>1, <3>1, Facts DEF AgentInv
  <2>3. p = k
    BY <1>4, <2>1, <2>2, Facts DEF Alive
  <2>4. Holding(n)'
    BY <1>1, <1>2, <2>1, <2>3 DEF Holding
  <2>5. QED
    BY <1>5, <2>3, <2>4
<1>14. OpenInv'
  <2>1. \A t \in DOMAIN turns : turns[t].open => turns[t].by # n
    BY NoneOpen
  <2>2. QED
    BY <1>2, <2>1, Facts DEF OpenInv
<1>15. AnswerInv'
  BY <1>5, <1>7, <1>11, Facts DEF AnswerInv
<1>16. QED
  BY <1>8, <1>12, <1>13, <1>14, <1>15 DEF PromptInv

\* Before its agent is launched, only lost ones are alive.
LEMMA NoneAlive ==
  ASSUME PromptInv, NEW n \in Node, pc[n] = "launch"
  PROVE  Alive \subseteq lost
BY Facts DEF NodeInv, AgentInv, Active, Holding

LEMMA LaunchKeeps ==
  ASSUME PromptInv, NEW n \in Node, Launch(n) \/ LaunchFails(n)
  PROVE  PromptInv'
<1>1. CASE Launch(n)
  BY <1>1, LaunchedKeeps DEF Launch
<1>2. CASE LaunchFails(n) /\ Launched(n) /\ lost' = lost \cup {Len(proc) + 1}
  BY <1>2, LaunchedKeeps DEF LaunchFails
<1>3. CASE LaunchFails(n) /\ UNCHANGED <<proc, pidfile, mine, lost>>
  <2>1. /\ lost \in SUBSET (1..Len(proc)) /\ result \in [Node -> {"none", "ok", "failed", "err"}]
        /\ Alive \subseteq lost
        /\ \A t \in DOMAIN turns : turns[t].open => turns[t].by # n
    BY <1>3, Facts, NoneAlive, NoneOpen DEF NodeTypes, ProcTypes, LaunchFails
  <2>2. "err" \in Where
    BY DEF Where
  <2>3. /\ GoTo(n, "err")
        /\ UNCHANGED <<tries, at, result, turns, cancelled, proc, pidfile, mine, lost>>
    BY <1>3 DEF LaunchFails
  <2>4. QED
    BY <2>1, <2>2, <2>3, NodeMoves
<1>4. QED
  BY <1>1, <1>2, <1>3 DEF LaunchFails

LEMMA WaitKeeps ==
  ASSUME PromptInv, NEW n \in Node, Endpoint(n) \/ Ready(n) \/ NotReady(n) \/ StopFails(n)
  PROVE  PromptInv'
<1> DEFINE more == lost \cup ({mine[n]} \cap Alive)
<1>1. /\ lost \in SUBSET (1..Len(proc)) /\ result \in [Node -> {"none", "ok", "failed", "err"}]
      /\ \A t \in DOMAIN turns : turns[t].open => turns[t].by # n
      /\ Holding(n)
  BY Facts, NoneOpen DEF NodeTypes, ProcTypes, Endpoint, Ready, NotReady, StopFails, Holding
<1>2. more \in SUBSET (1..Len(proc)) /\ lost \subseteq more /\ Alive \subseteq more
  <2>1. Alive \subseteq 1..Len(proc)
    BY Facts DEF Alive
  <2>2. \A p \in Alive : p \in lost \/ p = mine[n]
    BY <1>1, Facts DEF AgentInv, NodeInv
  <2>3. QED
    BY <1>1, <2>1, <2>2
<1> HIDE DEF more
<1>3. CASE Abandon(n)
  <2>1. "err" \in Where /\ lost' = more
    BY <1>3 DEF Where, Abandon, more
  <2>2. QED
    BY <1>1, <1>2, <1>3, <2>1, NodeMoves DEF Abandon
<1>4. CASE Endpoint(n) /\ GoTo(n, "ready") /\ UNCHANGED lost
  <2>1. pc[n] = "endpoint" /\ "ready" \in Where
        /\ UNCHANGED <<tries, mine, at, result, proc, pidfile, turns, cancelled>>
    BY <1>4 DEF Endpoint, Where, Abandon
  <2>2. QED
    BY <1>1, <1>4, <2>1, NodeMoves DEF Over
<1>5. CASE Ready(n)
  <2>1. "turn" \in Where
    BY DEF Where
  <2>2. QED
    BY <1>1, <1>5, <2>1, NodeMoves DEF Ready, Over
<1>6. CASE StopFails(n)
  <2>1. result[n] \in Where /\ result[n] \in Over /\ lost' = more
    BY <1>6, Facts DEF StopFails, NodeInv, NodeTypes, Over, Where, more
  <2>2. result[n] \notin {"idle", "launch", "endpoint", "ready", "turn", "stop"}
    BY <2>1 DEF Over
  <2>3. QED
    BY <1>1, <1>2, <1>6, <2>1, <2>2, NodeMoves DEF StopFails
<1>7. QED
  BY <1>3, <1>4, <1>5, <1>6 DEF Endpoint, NotReady

\* A node's turn is over: its connection is closed, and it goes to stop its agent.
LEMMA TurnOver ==
  ASSUME PromptInv, NEW n \in Node, NEW r \in {"ok", "failed", "err"},
         pc[n] = "turn", Answered(n, r),
         UNCHANGED <<tries, mine, at, proc, pidfile, lost, cancelled>>,
         turns' \in [1..Len(turns) -> TurnOf(Len(proc))],
         \A t \in DOMAIN turns :
           IF t = at[n]
           THEN /\ turns'[t].by = turns[t].by /\ turns'[t].agent = turns[t].agent
                /\ ~turns'[t].open
           ELSE turns'[t] = turns[t],
         r \in {"ok", "failed"} =>
           /\ at[n] # 0
           /\ turns'[at[n]].heard = turns'[at[n]].emitted
           /\ r = "ok" <=> turns'[at[n]].run = "ok"
           /\ turns'[at[n]].handler = "closed" /\ turns'[at[n]].run # "running"
  PROVE  PromptInv'
<1>1. turns' \in Seq(TurnOf(Len(proc))) /\ Len(turns') = Len(turns) /\ DOMAIN turns' = DOMAIN turns
  BY Facts, Rewritten
<1>2. /\ \A m \in Node : pc'[m] = IF m = n THEN "stop" ELSE pc[m]
      /\ pc' \in [Node -> Where]
      /\ \A m \in Node : result'[m] = IF m = n THEN r ELSE result[m]
      /\ result' \in [Node -> {"none", "ok", "failed", "err"}]
  BY Facts DEF NodeTypes, Answered, GoTo, Where
<1>3. TypeOK'
  BY <1>1, <1>2, Facts, NextTypes DEF NodeTypes, ProcTypes, TurnTypes
<1>4. NodeInv'
  <2>1. \A m \in Node : (Holding(m)' <=> Holding(m)) /\ (Active(m)' <=> Active(m))
    BY <1>2 DEF Active, Holding
  <2>2. \A l, m \in Node : Active(l)' /\ Active(m)' => l = m
    BY <2>1, Facts DEF NodeInv
  <2>3. ASSUME NEW m \in Node
        PROVE  /\ Holding(m)' => mine'[m] = pidfile' /\ pidfile' # 0
               /\ pc'[m] \in {"idle", "launch", "endpoint", "ready"} => at'[m] = 0
               /\ pc'[m] = "stop" => result'[m] # "none"
    <3>1. Holding(m) => mine[m] = pidfile /\ pidfile # 0
      BY Facts DEF NodeInv
    <3>2. pc[m] \in {"idle", "launch", "endpoint", "ready"} => at[m] = 0
      BY Facts DEF NodeInv
    <3>3. pc[m] = "stop" => result[m] # "none"
      BY Facts DEF NodeInv
    <3>4. QED
      BY <1>2, <2>1, <3>1, <3>2, <3>3
  <2>4. QED
    BY <2>2, <2>3 DEF NodeInv
<1>5. AgentInv'
  BY <1>2, Facts DEF AgentInv, Holding, Alive
<1>6. OpenInv'
  <2>1. SUFFICES ASSUME NEW t \in DOMAIN turns, turns'[t].open
                 PROVE  /\ at[turns'[t].by] = t /\ pc'[turns'[t].by] = "turn"
                        /\ turns'[t].handler # "broken" /\ turns'[t].heard = turns'[t].sent
    BY <1>1 DEF OpenInv
  <2>2. t # at[n] /\ turns'[t] = turns[t] /\ turns[t].by \in Node
    BY <2>1, Facts
  <2>3. turns[t].by # n
    BY <2>1, <2>2, Facts DEF OpenInv
  <2>4. QED
    BY <1>2, <2>1, <2>2, <2>3, Facts DEF OpenInv
<1>7. AnswerInv'
  <2>1. SUFFICES ASSUME NEW m \in Node
                 PROVE  /\ at[m] # 0 => /\ turns'[at[m]].by = m
                                        /\ \/ turns'[at[m]].agent = mine[m]
                                           \/ turns'[at[m]].agent \in lost
                        /\ result'[m] \in {"ok", "failed"} =>
                             /\ at[m] # 0
                             /\ turns'[at[m]].heard = turns'[at[m]].emitted
                             /\ result'[m] = "ok" <=> turns'[at[m]].run = "ok"
                             /\ turns'[at[m]].handler = "closed" /\ turns'[at[m]].run # "running"
    BY DEF AnswerInv
  <2>2. CASE m = n
    BY <1>2, <2>2, Facts DEF AnswerInv
  <2>3. CASE m # n
    <3>1. at[m] # 0 => at[m] # at[n] /\ turns'[at[m]] = turns[at[m]]
      BY <2>3, Facts DEF AnswerInv
    <3>2. QED
      BY <1>2, <2>3, <3>1, Facts DEF AnswerInv
  <2>4. QED
    BY <2>2, <2>3
<1>8. QED
  BY <1>3, <1>4, <1>5, <1>6, <1>7 DEF PromptInv

LEMMA LeavesKeeps ==
  ASSUME PromptInv, NEW n \in Node, ClientCancelled(n) \/ SessionError(n)
  PROVE  PromptInv'
<1>1. /\ pc[n] = "turn" /\ Answered(n, "err")
      /\ UNCHANGED <<tries, mine, at, proc, pidfile, lost, cancelled>>
  BY DEF ClientCancelled, SessionError
<1>2. \A t \in DOMAIN turns :
        turns'[t] = IF t = at[n] THEN [turns[t] EXCEPT !.open = FALSE] ELSE turns[t]
  BY Facts DEF ClientCancelled, SessionError
<1>3. ASSUME NEW t \in DOMAIN turns
      PROVE  LET turn == [turns[t] EXCEPT !.open = FALSE] IN
             /\ turn \in TurnOf(Len(proc)) /\ ~turn.open
             /\ turn.by = turns[t].by /\ turn.agent = turns[t].agent
  BY Facts DEF TurnOf
<1>4. turns' \in [1..Len(turns) -> TurnOf(Len(proc))]
  <2>1. DOMAIN turns' = 1..Len(turns) /\ turns' = [t \in DOMAIN turns' |-> turns'[t]]
    BY Facts DEF ClientCancelled, SessionError
  <2>2. DOMAIN turns = 1..Len(turns) /\ \A t \in DOMAIN turns : turns[t] \in TurnOf(Len(proc))
    BY Facts
  <2>3. \A t \in 1..Len(turns) : turns'[t] \in TurnOf(Len(proc))
    BY <1>2, <1>3, <2>2
  <2>4. QED
    BY <2>1, <2>3
<1>5. \A t \in DOMAIN turns :
        IF t = at[n]
        THEN /\ turns'[t].by = turns[t].by /\ turns'[t].agent = turns[t].agent
             /\ ~turns'[t].open
        ELSE turns'[t] = turns[t]
  BY <1>2, <1>3
<1>6. QED
  BY <1>1, <1>4, <1>5, TurnOver

LEMMA ConnectKeeps ==
  ASSUME PromptInv, NEW n \in Node, Connect(n)
  PROVE  PromptInv'
<1>1. /\ pc[n] = "turn" /\ at[n] = 0 /\ Holding(n)
      /\ UNCHANGED <<tries, mine, proc, pidfile, lost, cancelled>>
      /\ \A t \in DOMAIN turns : turns[t].open => turns[t].by # n
  BY NoneOpen DEF Connect, Holding
<1>2. CASE Answered(n, "err") /\ UNCHANGED <<at, turns>>
  <2>1. turns \in [1..Len(turns) -> TurnOf(Len(proc))] /\ 0 \notin DOMAIN turns
    BY Facts DEF TurnTypes
  <2>2. QED
    BY <1>1, <1>2, <2>1, TurnOver
<1>3. ASSUME NEW p \in Up,
             turns' = Append(turns, NewTurn(n, p)),
             at' = [at EXCEPT ![n] = Len(turns) + 1],
             UNCHANGED <<pc, result>>
      PROVE  PromptInv'
  <2> DEFINE k == Len(turns) + 1
             turn == NewTurn(n, p)
  <2>1. /\ p \in 1..Len(proc)
        /\ k \in Nat /\ k # 0
    BY Facts DEF Up
  <2>2. /\ turn \in TurnOf(Len(proc)) /\ turn.by = n /\ turn.agent = p
        /\ turn.handler = "queued" /\ turn.heard = 0 /\ turn.sent = 0
    BY <2>1, Parameters DEF NewTurn, TurnOf, Handlers, Runs
  <2> HIDE DEF turn
  <2>3. /\ turns' \in Seq(TurnOf(Len(proc))) /\ Len(turns') = k /\ DOMAIN turns' = 1..k
        /\ turns'[k] = turn /\ \A t \in DOMAIN turns : turns'[t] = turns[t]
    BY <1>3, <2>2, Facts DEF TurnTypes, turn
  <2>4. /\ at' \in [Node -> 0..k]
        /\ \A m \in Node : at'[m] = IF m = n THEN k ELSE at[m]
    BY <1>3, <2>1, Facts DEF TurnTypes
  <2>5. TypeOK'
    BY <1>1, <1>3, <2>3, <2>4, Facts, NextTypes DEF NodeTypes, ProcTypes, TurnTypes
  <2>6. NodeInv' /\ AgentInv'
    BY <1>1, <1>3, <2>4, Facts DEF NodeInv, AgentInv, Active, Holding, Alive
  <2>7. OpenInv'
    <3>1. SUFFICES ASSUME NEW t \in 1..k, turns'[t].open
                   PROVE  /\ at'[turns'[t].by] = t /\ pc[turns'[t].by] = "turn"
                          /\ turns'[t].handler # "broken" /\ turns'[t].heard = turns'[t].sent
      BY <1>3, <2>3 DEF OpenInv
    <3>2. CASE t = k
      BY <1>1, <2>2, <2>3, <2>4, <3>2
    <3>3. CASE t # k
      <4>1. t \in DOMAIN turns /\ turns'[t] = turns[t]
        BY <2>3, <3>3, Facts
      <4>2. QED
        BY <1>1, <2>4, <3>1, <4>1, Facts DEF OpenInv
    <3>4. QED
      BY <3>2, <3>3
  <2>8. AnswerInv'
    <3>1. result[n] \notin {"ok", "failed"}
      BY <1>1, Facts DEF AnswerInv
    <3>2. p = mine[n] \/ p \in lost
      <4>1. p \in Alive /\ mine[n] = pidfile
        BY <1>1, Facts DEF Up, Alive, NodeInv
      <4>2. QED
        BY <4>1, Facts DEF AgentInv
    <3>3. QED
      BY <1>1, <1>3, <2>2, <2>3, <2>4, <3>1, <3>2, Facts DEF AnswerInv
  <2>9. QED
    BY <2>5, <2>6, <2>7, <2>8 DEF PromptInv
<1>4. QED
  BY <1>2, <1>3 DEF Connect

\* The response comes after all the events, and to a client that heard them.
LEMMA RespondKeeps ==
  ASSUME PromptInv, NEW t \in DOMAIN turns, Respond(t)
  PROVE  PromptInv'
<1> DEFINE now == turns[t]
           turn == [now EXCEPT !.handler = "closed", !.open = FALSE]
<1>1. /\ now \in TurnOf(Len(proc)) /\ now.by \in Node
      /\ now.handler \in {"draining", "broken"} /\ now.run # "running"
      /\ now.handler = "broken" \/ now.sent = now.emitted
      /\ Set(t, turn)
      /\ UNCHANGED <<tries, mine, at, proc, pidfile, lost, cancelled>>
  BY Facts DEF Respond, Drained
<1>2. /\ turn \in TurnOf(Len(proc)) /\ turn.by = now.by /\ turn.agent = now.agent
      /\ ~turn.open /\ turn.handler = "closed" /\ turn.run = now.run
      /\ turn.heard = now.heard /\ turn.emitted = now.emitted
  BY <1>1 DEF TurnOf, Handlers
<1> HIDE DEF turn
<1>3. CASE now.open
  <2> DEFINE n == now.by
             r == IF now.run = "ok" THEN "ok" ELSE "failed"
  <2>1. /\ at[n] = t /\ pc[n] = "turn" /\ now.handler # "broken" /\ now.heard = now.sent
    BY <1>3, Facts DEF OpenInv
  <2>2. Answered(n, r) /\ r \in {"ok", "failed"}
    BY <1>3 DEF Respond
  <2>3. /\ turns' \in [1..Len(turns) -> TurnOf(Len(proc))]
        /\ \A u \in DOMAIN turns : turns'[u] = IF u = t THEN turn ELSE turns[u]
    BY <1>1, <1>2, Facts DEF Set
  <2>4. t # 0
    BY Facts
  <2>5. r \in {"ok", "failed", "err"} /\ (r = "ok" <=> now.run = "ok")
    OBVIOUS
  <2> HIDE DEF r
  <2>6. QED
    BY <1>1, <1>2, <2>1, <2>2, <2>3, <2>4, <2>5, TurnOver
<1>4. CASE ~now.open
  <2>1. UNCHANGED node
    BY <1>1, <1>4 DEF Respond, node
  <2>2. QED
    BY <1>1, <1>2, <2>1, TurnMoves
<1>5. QED
  BY <1>3, <1>4

LEMMA NextPromptInv == PromptInv /\ [Next]_vars => PromptInv'
<1> SUFFICES ASSUME PromptInv, [Next]_vars PROVE PromptInv'
  OBVIOUS
<1>1. ASSUME NEW n \in Node, Begin(n) \/ NodeStep(n) PROVE PromptInv'
  <2>1. CASE Stop(n)
    <3>1. pc[n] = "stop" /\ pc' = [pc EXCEPT ![n] = result[n]] /\ Kill({pidfile} \cap Alive)
          /\ UNCHANGED <<tries, mine, at, result, pidfile, lost, cancelled>>
      BY <2>1 DEF Stop, Stopped, GoTo
    <3>2. QED
      BY <3>1, KillKeeps
  <2>2. QED
    BY <1>1, <2>1, BeginKeeps, LaunchKeeps, WaitKeeps, ConnectKeeps, LeavesKeeps DEF NodeStep
<1>2. ASSUME NEW p \in DOMAIN proc, Bind(p) \/ AgentCrashes(p) PROVE PromptInv'
  <2>1. CASE AgentCrashes(p)
    BY <2>1, KillKeeps DEF AgentCrashes, node
  <2>2. QED
    BY <1>2, <2>1, BindKeeps
<1>3. ASSUME NEW t \in DOMAIN turns,
             Serve(t) \/ Emit(t) \/ RunEnds(t) \/ Send(t) \/ HandlerDropped(t) \/ Respond(t)
      PROVE  PromptInv'
  BY <1>3, ServerKeeps, RespondKeeps
<1>4. ASSUME UNCHANGED <<node, proc, pidfile, turns, lost>>, cancelled' \in BOOLEAN
      PROVE  PromptInv'
  <2>1. TypeOK'
    BY <1>4, Facts, NextTypes DEF NodeTypes, ProcTypes, TurnTypes, node
  <2>2. NodeInv' /\ AgentInv' /\ OpenInv' /\ AnswerInv'
    BY <1>4, Facts DEF NodeInv, AgentInv, OpenInv, AnswerInv, Active, Holding, Alive, node
  <2>3. QED
    BY <2>1, <2>2 DEF PromptInv
<1>5. CASE Cancel
  BY <1>4, <1>5 DEF Cancel
<1>6. CASE UNCHANGED vars
  <2>1. cancelled \in BOOLEAN
    BY Facts DEF NodeTypes
  <2>2. QED
    BY <1>4, <1>6, <2>1 DEF vars
<1>7. QED
  BY <1>1, <1>2, <1>3, <1>5, <1>6 DEF Next, Agent

LEMMA PromptInvHolds == Spec => []PromptInv
BY InitPromptInv, NextPromptInv, PTL DEF Spec

\* Every variable of the nodes, the agents and their turns keeps its type.
THEOREM AgentSandboxTypeCorrect == Spec => []TypeOK
<1>1. PromptInv => TypeOK
  BY DEF PromptInv
<1>2. QED
  BY <1>1, PromptInvHolds, PTL

\* An answer comes after all the events of its run and says of it what is true, for
\* any number of connections, events and attempts (run_prompt_turn, drive_prompt).
THEOREM AnswersAreComplete == Spec => []AnswerIsComplete
<1>1. PromptInv => AnswerIsComplete
  BY Facts DEF AnswerIsComplete, AnswerInv
<1>2. QED
  BY <1>1, PromptInvHolds, PTL

\* Whoever answers a node is the agent it has launched or one that was lost, however
\* many nodes and attempts used the container before (wait_ready, stop_command).
THEOREM AnswersAreOwn == Spec => []OwnOrLostAnswers
<1>1. PromptInv => OwnOrLostAnswers
  BY Facts DEF OwnOrLostAnswers, AnswerInv
<1>2. QED
  BY <1>1, PromptInvHolds, PTL
=============================================================================
