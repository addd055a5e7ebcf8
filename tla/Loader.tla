------------------------------- MODULE Loader -------------------------------
(***************************************************************************)
(* How a YAML blueprint becomes the graph the executor walks, and how it   *)
(* is described to a viewer (boitata-orchestrator: yaml.rs BlueprintDef,   *)
(* into_graph, add_edges, add_conditional, describe; lib.rs GraphBuilder;  *)
(* library.rs load and discover).                                          *)
(*                                                                         *)
(* A document is a record                                                  *)
(*   name, entry : the blueprint label and its entry node,                 *)
(*   nodes       : a function from node names to [kind, set], set being    *)
(*                 the optional fields the author wrote,                   *)
(*   edges       : the sequence of [from, to, when] in source order.       *)
(* serde has already refused unknown kinds, unknown fields and fields of   *)
(* the wrong type; the texts in the fields are left out.                   *)
(***************************************************************************)
EXTENDS Blueprint, SequencesExt

CONSTANTS
  Alphabet,       \* the node names in the order of String's Ord
  EndSpellings,   \* the spellings of "END" in upper and lower case
  NoWhen          \* an edge without `when`

ASSUME LoaderAssumption ==
  /\ ToSet(Alphabet) = Name
  /\ "END" \in EndSpellings
  /\ END \notin EndSpellings
  /\ NoWhen \notin {"success", "failure"}

-----------------------------------------------------------------------------
(* The schema: per kind of node, the fields a viewer is always shown and    *)
(* the ones shown when the author set them.                                *)

Always == [agent         |-> <<"prompt">>,
             tool          |-> <<"tool">>,
             script        |-> <<"run">>,
             human         |-> <<"prompt", "mode">>,
             provision     |-> <<"image">>,
             checkout      |-> <<"container", "repo">>,
             exec          |-> <<"container", "run">>,
             agent_sandbox |-> <<"container", "prompt">>]

IfSet == [agent         |-> <<"tools">>,
             tool          |-> <<"args">>,
             script        |-> <<>>,
             human         |-> <<>>,
             provision     |-> <<"env">>,
             checkout      |-> <<"ref", "path">>,
             exec          |-> <<"workdir">>,
             agent_sandbox |-> <<"port", "command">>]

Kind == DOMAIN Always

NodeDef == UNION {[kind : {k}, set : SUBSET ToSet(IfSet[k])] : k \in Kind}

\* normalize_target: "END" in any case is the sentinel, all else is kept; a
\* document that spells the sentinel itself is understood too.
Normalized(to) == IF to \in EndSpellings THEN END ELSE to

-----------------------------------------------------------------------------
(* Compilation.  Every check that fails ends it with the name of the check. *)

\* The per-edge checks of add_conditional: the first edge that fails decides.
BadEdge(doc, e) ==
  IF Normalized(e.to) \notin DOMAIN doc.nodes \cup {END} THEN "target"
  ELSE IF e.when \notin {"success", "failure"} THEN "when"
  ELSE "fine"

FirstBad(faults) ==
  LET bad == {i \in DOMAIN faults : faults[i] # "fine"}
  IN IF bad = {} THEN "fine" ELSE faults[CHOOSE i \in bad : \A j \in bad : i <= j]

\* The edges out of n, by their place in the source.
Group(doc, n) == {i \in DOMAIN doc.edges : doc.edges[i].from = n}
Tagged(doc, n) == {i \in Group(doc, n) : doc.edges[i].when # NoWhen}

EdgesFault(doc, n) ==
  FirstBad([i \in DOMAIN doc.edges |->
              IF i \in Tagged(doc, n) THEN BadEdge(doc, doc.edges[i]) ELSE "fine"])

\* Mutant: the edges are looked at before the shape of their group.
GroupFault_EdgesFirst(doc, n) ==
  IF EdgesFault(doc, n) # "fine" THEN EdgesFault(doc, n)
  ELSE IF n \notin DOMAIN doc.nodes THEN "source"
  ELSE IF Tagged(doc, n) \notin {{}, Group(doc, n)} THEN "mixed"
  ELSE "fine"

\* What add_edges finds wrong with the edges out of n: the shape of the group
\* first, then, in a group of conditional edges, the edges one by one.
GroupFault(doc, n) ==
  IF n \notin DOMAIN doc.nodes THEN "source"
  ELSE IF Tagged(doc, n) \notin {{}, Group(doc, n)} THEN "mixed"
  ELSE EdgesFault(doc, n)

\* GraphBuilder::build, on what add_edges lets through: the entry, then the
\* targets of the static edges.
BuildFault(doc) ==
  IF doc.entry \notin DOMAIN doc.nodes THEN "entry"
  ELSE IF \E e \in ToSet(doc.edges) :
            e.when = NoWhen /\ Normalized(e.to) \notin DOMAIN doc.nodes \cup {END}
       THEN "target"
       ELSE "fine"

\* What from_yaml complains about, if anything: the groups are looked at in the
\* order of their first edges, and then the graph is built.
Fault(doc) ==
  FirstBad(Append([i \in DOMAIN doc.edges |-> GroupFault(doc, doc.edges[i].from)],
                  BuildFault(doc)))

\* Mutant: a router keeps one target per status, as a map would.
Compiled_LastWins(edges) ==
  {[from |-> edges[i].from,
    when |-> IF edges[i].when = NoWhen THEN "always" ELSE edges[i].when,
    to   |-> Normalized(edges[i].to)] :
   i \in {j \in DOMAIN edges : \A k \in DOMAIN edges :
            k > j => edges[k].from # edges[j].from \/ edges[k].when # edges[j].when}}

\* The routing installed for the edges: static targets for an untagged group, a
\* router with one target set per status for a tagged one.
Compiled(edges) ==
  {[from |-> e.from,
    when |-> IF e.when = NoWhen THEN "always" ELSE e.when,
    to   |-> Normalized(e.to)] : e \in ToSet(edges)}

\* from_yaml: a document without a fault is compiled.
Accepted(doc) == Fault(doc) = "fine"
Load(doc) == [label |-> doc.name, nodes |-> DOMAIN doc.nodes, entry |-> doc.entry,
              edges |-> Compiled(doc.edges)]

-----------------------------------------------------------------------------
(* What a viewer is shown.                                                 *)

Execution(kind) == CASE kind \in {"agent", "agent_sandbox"} -> "probabilistic"
                     [] kind = "human"                      -> "human"
                     [] OTHER                               -> "deterministic"

\* NodeDef::config.
Config(node) ==
  Always[node.kind] \o SelectSeq(IfSet[node.kind], LAMBDA f : f \in node.set)

NodeInfo(doc, n) ==
  [id |-> n, kind |-> doc.nodes[n].kind, execution |-> Execution(doc.nodes[n].kind),
   config |-> Config(doc.nodes[n])]

\* describe: nodes entry first and then by name, edges as written but for the
\* spelling of END; nothing is compiled.
Describe(doc) ==
  LET named == SelectSeq(Alphabet, LAMBDA n : n \in DOMAIN doc.nodes)
      ordered == SelectSeq(named, LAMBDA n : n = doc.entry)
                   \o SelectSeq(named, LAMBDA n : n # doc.entry)
  IN [name  |-> doc.name,
      entry |-> doc.entry,
      nodes |-> [i \in DOMAIN ordered |-> NodeInfo(doc, ordered[i])],
      edges |-> [i \in DOMAIN doc.edges |->
                   [doc.edges[i] EXCEPT !.to = IF @ \in EndSpellings THEN "END" ELSE @]]]

-----------------------------------------------------------------------------
(* A directory of blueprints.                                              *)

\* discover: the files read_dir yields, in its order, each a record [stem, yaml,
\* utf8, doc], yaml for a plain file with the extension.
Yamls(files) == {i \in DOMAIN files : files[i].yaml}

\* Mutant: only files with a name that cannot be told are refused.
Refused_NameOnly(files) == \E i \in Yamls(files) : ~files[i].utf8

\* One YAML file that does not load ends the discovery.
Refused(files) == \E i \in Yamls(files) : ~files[i].utf8 \/ ~Accepted(files[i].doc)

\* Of two files with one stem the later replaces the earlier.
Discover(files) ==
  [n \in {files[i].stem : i \in Yamls(files)} |->
     LET named == {i \in Yamls(files) : files[i].stem = n}
     IN files[CHOOSE i \in named : \A j \in named : j <= i].doc]

-----------------------------------------------------------------------------
(* The reading a document asks for, stated without groups and routers.     *)

\* Where a path goes from n on a status: along the untagged edges and the ones
\* tagged with the status, and to its end when nothing leaves n.
Written(doc, n, status) ==
  LET out == {e \in ToSet(doc.edges) : e.from = n}
  IN IF out = {} THEN {END}
     ELSE {Normalized(e.to) : e \in {o \in out : o.when \in {NoWhen, Taken(status)}}}

\* Every name is a node, and tagged and untagged edges never share a source.
Sound(doc) ==
  /\ doc.entry \in DOMAIN doc.nodes
  /\ \A e \in ToSet(doc.edges) :
       /\ e.from \in DOMAIN doc.nodes
       /\ e.to \in DOMAIN doc.nodes \cup EndSpellings \cup {END}
       /\ e.when \in {NoWhen, "success", "failure"}
       /\ \A f \in ToSet(doc.edges) :
            f.from = e.from => (e.when = NoWhen <=> f.when = NoWhen)

-----------------------------------------------------------------------------
(* Properties of a document.                                               *)

\* The loader takes the documents whose names and tags make sense and no other
\* (add_edges, add_conditional, build).
TakesTheSound(doc) == Accepted(doc) <=> Sound(doc)

\* Groups and routers take a path where its edges say, whatever their order, the
\* fan-outs and the spelling of END (add_edges, add_conditional).
RoutesAsWritten(doc) ==
  Accepted(doc) =>
    \A n \in DOMAIN doc.nodes, s \in Status : Route(Load(doc), n, s) = Written(doc, n, s)

\* The drawing a viewer is shown has the routing that runs (describe).
DrawnAsRouted(doc) == Accepted(doc) => Load(doc).edges = Compiled(Describe(doc).edges)

\* "an unknown source, then a conditional/unconditional mix, come first"
\* (add_edges), in a document with edges out of one source.
ShapeFirst(doc) ==
  (doc.edges # <<>> /\ \A e \in ToSet(doc.edges) : e.from = doc.edges[1].from) =>
    IF doc.edges[1].from \notin DOMAIN doc.nodes THEN Fault(doc) = "source"
    ELSE (\E e, f \in ToSet(doc.edges) : e.when = NoWhen /\ f.when # NoWhen)
           => Fault(doc) = "mixed"

LoadsAsWritten(doc) ==
  TakesTheSound(doc) /\ RoutesAsWritten(doc) /\ DrawnAsRouted(doc) /\ ShapeFirst(doc)

\* "so a malformed blueprint fails at startup, not when a user selects it": a
\* catalog has every YAML file of the directory under its stem, and each blueprint
\* in it is sound (discover).
CatalogIsSound(files) ==
  IF \E i \in DOMAIN files : files[i].yaml /\ ~(files[i].utf8 /\ Sound(files[i].doc))
  THEN Refused(files)
  ELSE /\ ~Refused(files)
       /\ DOMAIN Discover(files) = {files[i].stem : i \in Yamls(files)}
       /\ \A n \in DOMAIN Discover(files) :
            /\ Sound(Discover(files)[n])
            /\ \E i \in Yamls(files) : files[i].stem = n /\ files[i].doc = Discover(files)[n]
=============================================================================
