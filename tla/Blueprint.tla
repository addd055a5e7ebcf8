----------------------------- MODULE Blueprint -----------------------------
(***************************************************************************)
(* A compiled blueprint graph and the routing relation the executor walks  *)
(* (boitata-orchestrator: lib.rs GraphBuilder / Executor::route, yaml.rs   *)
(* add_edges / add_conditional).                                           *)
(*                                                                         *)
(* A graph is a record                                                     *)
(*   label : the blueprint label a checkpoint records,                     *)
(*   nodes : the set of node names,                                        *)
(*   entry : the node a fresh run starts at,                               *)
(*   edges : a set of [from, when, to] with when in EdgeKind.              *)
(* What a node computes is abstracted to the status it reports; the text   *)
(* it emits takes no part in routing.                                      *)
(***************************************************************************)
EXTENDS Integers, Sequences

CONSTANTS
  Name,     \* node names that may occur in a graph or be routed to
  END       \* the END sentinel, not a node name

ASSUME EndAssumption == END \notin Name

EdgeKind == {"always", "success", "failure"}
Edge == [from : Name, when : EdgeKind, to : Name \cup {END}]
Graph == [label : STRING, nodes : SUBSET Name, entry : Name, edges : SUBSET Edge]

\* State.status: "none" before any node has reported one.
Status == {"none", "ok", "failed"}

Out(g, n) == {e \in g.edges : e.from = n}

\* The group of edges out of n was folded into one status router.
Conditional(g, n) == \E e \in Out(g, n) : e.when # "always"

\* GraphBuilder::build: the entry and every edge source are nodes, a router is
\* the only routing of its source, and static targets are nodes or END.
\* Targets of a router are left to run time.
Buildable(g) ==
  /\ g.entry \in g.nodes
  /\ \A e \in g.edges :
       /\ e.from \in g.nodes
       /\ e.when = "always" => /\ ~Conditional(g, e.from)
                               /\ e.to \in g.nodes \cup {END}

\* The router of add_conditional: failure edges on Failed, success edges on Ok
\* and on a status nobody has reported yet.
Taken(status) == IF status = "failed" THEN "failure" ELSE "success"

\* Executor::route, before its check that every target exists: the static
\* targets, the router's choice, or END when nothing leaves the node.
Route(g, n, status) ==
  IF Out(g, n) = {} THEN {END}
  ELSE {e.to : e \in {o \in Out(g, n) :
                        Conditional(g, n) => o.when = Taken(status)}}

\* What a super-step leaves behind in the shared State: the nodes whose updates
\* were merged, and the status the merge left.
Entry == [nodes : SUBSET Name, status : Status]
Transcript == Seq(Entry)

StatusOf(state) == IF state = <<>> THEN "none" ELSE state[Len(state)].status

\* Targets of every node of a finished super-step, END included.
Targets(g, entry) == UNION {Route(g, n, entry.status) : n \in entry.nodes}

\* The next frontier: live successors of the last super-step, END dropped and
\* duplicates merged (fan-in); the entry node when nothing has run.
FrontierAfter(g, state) ==
  IF state = <<>> THEN {g.entry}
  ELSE Targets(g, state[Len(state)]) \ {END}

\* A transcript is a path of the graph: every super-step merged exactly the
\* frontier its predecessor routed to.
IsPath(g, state) ==
  \A k \in 1..Len(state) :
    state[k].nodes = IF k = 1 THEN {g.entry}
                     ELSE Targets(g, state[k - 1]) \ {END}
=============================================================================
