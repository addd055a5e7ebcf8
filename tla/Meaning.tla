------------------------------- MODULE Meaning ------------------------------
(***************************************************************************)
(* A blueprint means what its text says: its document becomes the graph    *)
(* the executor walks (Loader), its templates become prompts and commands, *)
(* and what its nodes say is what later nodes and the report are told      *)
(* (Nodes).  Nothing of this changes while a run goes on.                  *)
(***************************************************************************)
EXTENDS Executor, Loader, Nodes

CONSTANTS
  Spelled,      \* the names that documents use, the misspelt ones included
  Documents, Directories,
  Token,        \* the tokens of templates
  Templates,
  Letter,       \* the tokens of values
  Values, Keys, \* what the task and the variables may hold, and the variables
  Mark,         \* a mark for each key, to tell a value from the template around it
  Workers, Answers,
  Histories,    \* of each run its attempts, each a sequence of [node, world]
  Outputs,      \* what commands write: sequences of chunks
  MaxExecOutput,
  Attached      \* the networks of a container, in the order the map yields them

ASSUME DocumentAssumption ==
  /\ \A doc \in Documents : doc.edges \in Seq([from : Spelled, to : Spelled, when : Spelled \cup {NoWhen}])
  /\ Directories \subseteq Seq([stem : Spelled, yaml : BOOLEAN, utf8 : BOOLEAN, doc : Documents])

\* The templates have no quotes of their own: within quotes a value would end them.
ASSUME TemplateAssumption ==
  /\ Templates \subseteq Seq(Token) /\ Quote \notin Token /\ "\\" \notin Token
  /\ Values \subseteq Seq(Letter)
  /\ Mark = [key \in Keys \cup {<<"task">>} |-> Mark[key]]
  /\ \A key \in DOMAIN Mark : Mark[key] \notin Token
  /\ \A j, k \in DOMAIN Mark : Mark[j] = Mark[k] => j = k

ASSUME NodeAssumption ==
  /\ \A worker \in Workers : worker.kind \in Kinds /\ worker.env \in Seq(Spelled)
  /\ \A world \in Answers : world.hard \in BOOLEAN /\ world.ok \in BOOLEAN /\ world.text \in Seq(Letter)
  /\ Histories \subseteq Seq(Seq([node : Workers, world : Answers]))

ASSUME ContainerAssumption ==
  /\ MaxExecOutput \in Nat
  /\ Outputs \subseteq Seq(Seq(Nat \ {0}))
  /\ Attached \subseteq Seq([name : Nat, up : BOOLEAN])

-----------------------------------------------------------------------------
States == UNION {[task : Values, messages : {<<>>}, status : {"none"}, vars : [D -> Values]] :
                   D \in SUBSET Keys}

RendersAsWritten ==
  /\ \A t \in Templates, st \in States :
       /\ FilledOnce(t, st, Mark) /\ ReadToTheLetter(t, st, Mark) /\ Piecewise(t, st)
       /\ "}" \notin ToSet(t) => PutIn(t, st)
  /\ \A repo, path \in Values : \A refs \in {<<>>} \cup {<<v>> : v \in Values} :
       CloneIsRead(repo, path, refs)
  /\ \A v \in Values : LaunchIsRead(v, "7777")

NodesSpeakPlainly ==
  /\ \A task \in Values, history \in Histories : ToldWhatWasSaid(task, history)
  /\ \A worker \in Workers, st \in States, world \in Answers :
       SilenceIsNoApproval(worker, st, world) /\ ProvisionsAsAsked(worker, st, world)

ContainersAreReached ==
  /\ \A chunks \in Outputs : CutIsTold(chunks, MaxExecOutput)
  /\ \A a, b \in Attached : SameEndpoint(a, b)

\* A blueprint means what its text says: a document is loaded, routed and drawn as
\* it is written or refused with the right complaint, and so is a directory of
\* them; the templates in it are filled in once and read by the shell to the
\* letter, what its nodes say is what later nodes and the report are told, and
\* what its containers print is cut honestly (yaml.rs, library.rs, state.rs
\* render_with and apply, nodes.rs, container.rs, docker.rs).  Nothing of it
\* changes with the run, so it is looked at before the run begins.
MeansItsText ==
  pc = "idle" =>
    /\ \A doc \in Documents : LoadsAsWritten(doc)
    /\ \A files \in Directories : CatalogIsSound(files)
    /\ RendersAsWritten /\ NodesSpeakPlainly /\ ContainersAreReached
=============================================================================
