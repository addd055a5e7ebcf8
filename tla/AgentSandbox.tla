---------------------------- MODULE AgentSandbox ----------------------------
(***************************************************************************)
(* agent_sandbox nodes (container.rs): each launches a detached agent in a *)
(* container, waits until something accepts connections on its port,       *)
(* drives one prompt turn over ACP (boitata-acp client and server) and     *)
(* stops the agent through a pid file all nodes of the container share.    *)
(*                                                                         *)
(* The nodes use one container one after the other, as stop_command says;  *)
(* one that fails is run again by the executor.  Docker may fail any call. *)
(* The ACP library keeps messages in order, and a send to a client that    *)
(* has gone fails or vanishes.                                             *)
(***************************************************************************)
EXTENDS Integers, Sequences, FiniteSets

CONSTANTS
  Node,            \* agent_sandbox nodes of one container, on one port
  MaxTries,        \* attempts the executor makes at a node
  MaxConnections,  \* MAX_CONNECTIONS of the server
  MaxEvents        \* model bound: events one run emits

ASSUME AgentSandboxAssumption ==
  MaxTries \in Nat \ {0} /\ MaxConnections \in Nat \ {0} /\ MaxEvents \in Nat

VARIABLES
  pc,         \* where each node's run is
  tries,      \* attempts begun at it
  proc,       \* agent processes ever launched, oldest first
  pidfile,    \* the process PID_FILE names, or 0
  mine,       \* the process the node's current attempt launched, or 0
  turns,      \* ACP connections ever opened for a prompt, oldest first
  at,         \* the node's own turn, or 0
  result,     \* what run_prompt returned to the node
  lost,       \* history: the agents alive when their launch was given up or their
              \* stop failed
  cancelled   \* the run's token

node == <<pc, tries, mine, at, result>>
vars == <<node, proc, pidfile, turns, lost, cancelled>>

Where == {"idle", "launch", "endpoint", "ready", "turn", "stop", "ok", "failed", "err"}
Over == {"ok", "failed", "err"}
Turn == [by : Node, agent : DOMAIN proc, open : BOOLEAN,
         handler : {"queued", "draining", "broken", "closed"},
         run : {"none", "running", "ok", "failed", "panicked", "killed"},
         emitted : 0..MaxEvents, sent : 0..MaxEvents, heard : 0..MaxEvents,
         cancelled : BOOLEAN]

TypeOK ==
  /\ pc \in [Node -> Where]
  /\ tries \in [Node -> 0..MaxTries]
  /\ proc \in Seq({"starting", "up", "dead"})
  /\ pidfile \in 0..Len(proc)
  /\ mine \in [Node -> 0..Len(proc)]
  /\ turns \in Seq(Turn)
  /\ at \in [Node -> 0..Len(turns)]
  /\ result \in [Node -> {"none", "ok", "failed", "err"}]
  /\ lost \in SUBSET (DOMAIN proc) /\ cancelled \in BOOLEAN

Init ==
  /\ pc = [n \in Node |-> "idle"]
  /\ tries = [n \in Node |-> 0]
  /\ proc = <<>> /\ pidfile = 0
  /\ mine = [n \in Node |-> 0]
  /\ turns = <<>>
  /\ at = [n \in Node |-> 0]
  /\ result = [n \in Node |-> "none"]
  /\ lost = {} /\ cancelled = FALSE

-----------------------------------------------------------------------------
(* The executor: one node at a time, again if it failed.                   *)

Begin(n) ==
  /\ ~cancelled
  /\ \A m \in Node : pc[m] \in {"idle"} \cup Over
  /\ \A m \in Node \ {n} : pc[m] # "err"
  /\ pc[n] \in {"idle", "err"} /\ tries[n] < MaxTries
  /\ pc' = [pc EXCEPT ![n] = "launch"]
  /\ tries' = [tries EXCEPT ![n] = @ + 1]
  /\ mine' = [mine EXCEPT ![n] = 0]
  /\ at' = [at EXCEPT ![n] = 0]
  /\ result' = [result EXCEPT ![n] = "none"]
  /\ UNCHANGED <<proc, pidfile, turns, lost, cancelled>>

Cancel ==
  /\ ~cancelled
  /\ cancelled' = TRUE
  /\ UNCHANGED <<node, proc, pidfile, turns, lost>>

GoTo(n, where) == pc' = [pc EXCEPT ![n] = where]

-----------------------------------------------------------------------------
(* The agent processes.                                                    *)

Up == {p \in DOMAIN proc : proc[p] = "up"}
Alive == {p \in DOMAIN proc : proc[p] # "dead"}

\* The connections of a process that dies are closed, its runs are gone.
Kill(ps) ==
  /\ proc' = [p \in DOMAIN proc |-> IF p \in ps THEN "dead" ELSE proc[p]]
  /\ turns' = [t \in DOMAIN turns |->
       IF turns[t].agent \in ps /\ turns[t].handler # "closed"
       THEN [turns[t] EXCEPT !.handler = "closed", !.run = "killed"]
       ELSE turns[t]]

\* The agent binds its port, or dies because another holds it.
Bind(p) ==
  /\ proc[p] = "starting"
  /\ proc' = [proc EXCEPT ![p] = IF Up = {} THEN "up" ELSE "dead"]
  /\ UNCHANGED <<node, pidfile, turns, lost, cancelled>>

AgentCrashes(p) ==
  /\ p \in Alive
  /\ Kill({p})
  /\ UNCHANGED <<node, pidfile, lost, cancelled>>

-----------------------------------------------------------------------------
(* AgentSandboxNode::run and wait_ready.                                   *)

\* Mutant: a pid file that exists is kept.
Launched_KeepsPid(n) ==
  /\ proc' = Append(proc, "starting")
  /\ pidfile' = IF pidfile = 0 THEN Len(proc) + 1 ELSE pidfile
  /\ mine' = [mine EXCEPT ![n] = Len(proc) + 1]

\* The agent is started in the background and its pid recorded.
Launched(n) ==
  /\ proc' = Append(proc, "starting")
  /\ pidfile' = Len(proc) + 1
  /\ mine' = [mine EXCEPT ![n] = Len(proc) + 1]

Launch(n) ==
  /\ pc[n] = "launch"
  /\ Launched(n)
  /\ GoTo(n, "endpoint")
  /\ UNCHANGED <<tries, at, result, turns, lost, cancelled>>

\* The exec fails or is given up, before or after the agent was started.
LaunchFails(n) ==
  /\ pc[n] = "launch"
  /\ \/ UNCHANGED <<proc, pidfile, mine, lost>>
     \/ Launched(n) /\ lost' = lost \cup {Len(proc) + 1}
  /\ GoTo(n, "err")
  /\ UNCHANGED <<tries, at, result, turns, cancelled>>

\* An early return leaves the agent as it is.
Abandon(n) ==
  /\ GoTo(n, "err")
  /\ lost' = lost \cup ({mine[n]} \cap Alive)
  /\ UNCHANGED <<tries, mine, at, result, proc, pidfile, turns, cancelled>>

Endpoint(n) ==
  /\ pc[n] = "endpoint"
  /\ \/ /\ GoTo(n, "ready")
        /\ UNCHANGED <<tries, mine, at, result, proc, pidfile, turns, lost, cancelled>>
     \/ Abandon(n)

\* Whoever accepts on the port makes the agent ready.
Ready(n) ==
  /\ pc[n] = "ready" /\ Up # {}
  /\ GoTo(n, "turn")
  /\ UNCHANGED <<tries, mine, at, result, proc, pidfile, turns, lost, cancelled>>

\* The deadline has passed or the run is cancelled.
NotReady(n) ==
  /\ pc[n] = "ready" /\ (Up = {} \/ cancelled)
  /\ Abandon(n)

\* run_prompt has an answer for the node.
Answered(n, r) ==
  /\ result' = [result EXCEPT ![n] = r]
  /\ GoTo(n, "stop")

NewTurn(n, p) ==
  [by |-> n, agent |-> p, open |-> TRUE, handler |-> "queued", run |-> "none",
   emitted |-> 0, sent |-> 0, heard |-> 0, cancelled |-> FALSE]

Connect(n) ==
  /\ pc[n] = "turn" /\ at[n] = 0 /\ ~cancelled
  /\ \/ /\ Up = {}
        /\ Answered(n, "err")
        /\ UNCHANGED <<at, turns>>
     \/ \E p \in Up :
          /\ turns' = Append(turns, NewTurn(n, p))
          /\ at' = [at EXCEPT ![n] = Len(turns) + 1]
          /\ UNCHANGED <<pc, result>>
  /\ UNCHANGED <<tries, mine, proc, pidfile, lost, cancelled>>

\* Mutant: the session is not raced with the token.
ClientCancelled_Never(n) == pc[n] = "turn" /\ cancelled /\ FALSE /\ UNCHANGED vars

\* The select is biased: a cancelled run drops the session, whatever is ready.
ClientCancelled(n) ==
  /\ pc[n] = "turn" /\ cancelled
  /\ Answered(n, "err")
  /\ turns' = [t \in DOMAIN turns |->
       IF t = at[n] THEN [turns[t] EXCEPT !.open = FALSE] ELSE turns[t]]
  /\ UNCHANGED <<tries, mine, at, proc, pidfile, lost, cancelled>>

\* The connection is gone before the response came.
SessionError(n) ==
  /\ pc[n] = "turn" /\ at[n] # 0 /\ ~cancelled
  /\ turns[at[n]].handler = "closed"
  /\ Answered(n, "err")
  /\ turns' = [turns EXCEPT ![at[n]].open = FALSE]
  /\ UNCHANGED <<tries, mine, at, proc, pidfile, lost, cancelled>>

\* The process the pid file names, whoever launched it.
Stopped(n) == {pidfile} \cap Alive

\* Stop the agent however the turn ended, with a token of its own.
Stop(n) ==
  /\ pc[n] = "stop"
  /\ Kill(Stopped(n))
  /\ GoTo(n, result[n])
  /\ UNCHANGED <<tries, mine, at, result, pidfile, lost, cancelled>>

StopFails(n) ==
  /\ pc[n] = "stop"
  /\ GoTo(n, result[n])
  /\ lost' = lost \cup ({mine[n]} \cap Alive)
  /\ UNCHANGED <<tries, mine, at, result, proc, pidfile, turns, cancelled>>

-----------------------------------------------------------------------------
(* The ACP server in the agent: serve and run_prompt_turn.                 *)

Serving(p) == {t \in DOMAIN turns : turns[t].agent = p
                                   /\ turns[t].handler \in {"draining", "broken"}}

Set(t, turn) == turns' = [turns EXCEPT ![t] = turn]

\* A permit is free: the handshake is done and the prompt's run is spawned.  Of
\* a client that left meanwhile there is no prompt to read.
Serve(t) ==
  /\ turns[t].handler = "queued"
  /\ Cardinality(Serving(turns[t].agent)) < MaxConnections
  /\ Set(t, IF turns[t].open
            THEN [turns[t] EXCEPT !.handler = "draining", !.run = "running"]
            ELSE [turns[t] EXCEPT !.handler = "closed"])
  /\ UNCHANGED <<node, proc, pidfile, lost, cancelled>>

Emit(t) ==
  /\ turns[t].run = "running" /\ turns[t].emitted < MaxEvents
  /\ Set(t, [turns[t] EXCEPT !.emitted = @ + 1])
  /\ UNCHANGED <<node, proc, pidfile, lost, cancelled>>

\* A run that was cancelled ends with an error; the sink is dropped either way.
RunEnds(t) ==
  /\ turns[t].run = "running"
  /\ \E how \in {"ok", "failed", "panicked"} :
       /\ turns[t].cancelled => how # "ok"
       /\ Set(t, [turns[t] EXCEPT !.run = how])
  /\ UNCHANGED <<node, proc, pidfile, lost, cancelled>>

\* The next event is sent on: heard, gone nowhere, or refused, which cancels
\* the run and ends the draining.
Send(t) ==
  /\ turns[t].handler = "draining" /\ turns[t].sent < turns[t].emitted
  /\ \/ /\ turns[t].open
        /\ Set(t, [turns[t] EXCEPT !.sent = @ + 1, !.heard = @ + 1])
     \/ /\ ~turns[t].open
        /\ \/ Set(t, [turns[t] EXCEPT !.sent = @ + 1])
           \/ Set(t, [turns[t] EXCEPT !.handler = "broken", !.cancelled = TRUE])
  /\ UNCHANGED <<node, proc, pidfile, lost, cancelled>>

\* The library may drop the handler of a closed connection; the run goes on.
HandlerDropped(t) ==
  /\ ~turns[t].open /\ turns[t].handler \in {"draining", "broken"}
  /\ Set(t, [turns[t] EXCEPT !.handler = "closed"])
  /\ UNCHANGED <<node, proc, pidfile, lost, cancelled>>

\* Mutant: the response overtakes the events.
Drained_RunOver(t) == turns[t].run # "running"

\* The channel is closed and empty, or the client is known to be gone.
Drained(t) ==
  /\ turns[t].run # "running"
  /\ turns[t].handler = "broken" \/ turns[t].sent = turns[t].emitted

\* The prompt is answered: EndTurn for a success, Refusal for anything else.
Respond(t) ==
  /\ turns[t].handler \in {"draining", "broken"} /\ Drained(t)
  /\ Set(t, [turns[t] EXCEPT !.handler = "closed", !.open = FALSE])
  /\ IF turns[t].open
     THEN Answered(turns[t].by, IF turns[t].run = "ok" THEN "ok" ELSE "failed")
     ELSE UNCHANGED <<pc, result>>
  /\ UNCHANGED <<tries, mine, at, proc, pidfile, lost, cancelled>>

-----------------------------------------------------------------------------
NodeStep(n) ==
  \/ Launch(n) \/ LaunchFails(n) \/ Endpoint(n) \/ Ready(n) \/ NotReady(n)
  \/ Connect(n) \/ ClientCancelled(n) \/ SessionError(n) \/ Stop(n) \/ StopFails(n)

Agent ==
  \/ \E p \in DOMAIN proc : Bind(p) \/ AgentCrashes(p)
  \/ \E t \in DOMAIN turns : \/ Serve(t) \/ Emit(t) \/ RunEnds(t) \/ Send(t)
                             \/ HandlerDropped(t) \/ Respond(t)

Next == (\E n \in Node : Begin(n) \/ NodeStep(n)) \/ Agent \/ Cancel

Spec == Init /\ [][Next]_vars

\* Docker answers, the clock runs and a signalled future is polled; the agent
\* owes nothing.
FairSpec == Spec /\ \A n \in Node : WF_vars(NodeStep(n))

-----------------------------------------------------------------------------
(* Properties.                                                             *)

\* An answer comes after all the events of its run, and says of it what is
\* true: a node succeeds only when the run it drove did (run_prompt_turn,
\* drive_prompt).
AnswerIsComplete ==
  \A n \in Node : result[n] \in {"ok", "failed"} =>
    LET t == turns[at[n]] IN
      /\ t.by = n /\ t.heard = t.emitted
      /\ result[n] = "ok" <=> t.run = "ok"

\* Whoever answers a node is the agent it has launched itself or one whose launch
\* was given up or whose stop failed: never one that was stopped after its turn, of
\* an earlier node or an earlier attempt (stop_command, wait_ready).
OwnOrLostAnswers ==
  \A n \in Node : at[n] # 0 => turns[at[n]].agent \in {mine[n]} \cup lost

\* A cancelled run leaves no node waiting for Docker, for an agent that does not
\* come up, or for one that never answers.
CancelEnds == cancelled ~> \A n \in Node : pc[n] \in {"idle"} \cup Over
=============================================================================
