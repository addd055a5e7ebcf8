# Boitata in TLA+

A verification project for boitata, a coding agent that runs tasks as
*blueprints*: graphs of agent, tool, script, human and container nodes. It
models the code under `src/crates`, checks the models with TLC and proves
theorems about them with TLAPS.

## The system

| Part | Source | State | Operations | What is hard |
|---|---|---|---|---|
| Blueprint executor | `boitata-orchestrator/src/lib.rs`, `checkpoint.rs` | frontier, step, merged `State`, retry count, child token, `run_id` | `run_with_cancel`, `resume_with_cancel`, `run_graph`, `run_frontier`, `save_checkpoint`, `set_checkpoint_status` | parallel nodes, retries, cancellation at every await, panics, crashes, failing writes |
| Blueprint graph, loader, library | `lib.rs` (`GraphBuilder`, `Routing`), `yaml.rs`, `library.rs` | nodes, edges, entry | `into_graph`, `build`, `route`, `describe`, `discover` | edges grouped by source and tag, two spellings of the end, routers to unknown nodes |
| Nodes and templates | `nodes.rs`, `human.rs`, `state.rs` | `State`: task, messages, status, vars | `render`, `render_shell`, `Node::run`, `apply` | values that look like templates or like shell syntax |
| Checkpoint store | `boitata-store/src/checkpoints.rs` | one row per run | `upsert_checkpoint`, `set_checkpoint_status`, `get_checkpoint` | the only state that survives a process; no cross-process lock |
| Sandboxes, Docker backend | `sandbox/mod.rs`, `sandbox/docker.rs` | ids to clean up; containers in the daemon | `provision`, `exec`, `endpoint`, `cleanup_all` | every daemon call may fail or hang; futures dropped by a panic |
| Container nodes | `container.rs` | a pid file in the container | `provision`, `checkout`, `exec`, `agent_sandbox` | an agent process detached in a container |
| ACP client and server | `boitata-acp/src` | connection slots, queue of events | `run_prompt`, `serve`, `drive_prompt` | a peer that leaves, dies or is not the one it should be |
| Server registry, run tasks | `boitata-server/src/state.rs`, `api.rs` | `runs`, `run_slots`, status of each handle | create, resume, cancel, `run_job`, `record_outcome`, eviction | requests racing each other and the runs |
| Server event stream | `events.rs`, `api.rs` (`run_events`) | history, broadcast channel, `finished` token | `record`, subscribe, replay, drain | three-step record against subscribe and clone |
| CLI client | `boitata-cli/src/remote.rs` | last event seen | tail, ask for the result | when the run is over |
| Agent loop, context | `boitata-agent/src/lib.rs`, `boitata-core/src/context` | message history, iteration | `run_with_cancel`, `maybe_compact` | pairing of tool calls and results across compaction and cancellation |
| Providers | `boitata-core/src/provider` | buffer of a streamed answer | `complete`, `stream`, conversions | each API's idea of a well-formed conversation; chunks cut anywhere |
| Tools, policy, MCP, runtime | `tools/mod.rs`, `tools/policy.rs`, `mcp.rs`, `runtime.rs` | registry, rules | `build_tools`, `register`, `discover_tools`, `decide` | names that collide after being sanitised and cut |
| Builtin tools | `tools/builtins` | a process group, two pipes, spill files; files | `run_raw`, `read_capped`, `file_read`, `file_edit`, `file_write` | kill against exit, caps against chunk boundaries, concurrent edits |
| Config, audit, start-up, assets, UI | rest | - | - | no protocol |

They interact like this. A request (or the CLI) registers a run and spawns its
task; the task drives the **executor**, which reads and writes the run's row in
the **store**, runs nodes that use **sandboxes**, **agents** or **commands**, and
reports every event to the run's **sink**, from which streams serve watchers.
When the task returns, `record_outcome` writes the status into the registry and
`FinishGuard` ends the streams. A later process may **resume** the run from its
row. An agent talks to its **provider** and calls **tools**, which run
subprocesses and edit files.

What makes each part correct:

- *Executor*: what is stored is an exact super-step boundary; nothing of a
  failed attempt is merged; no node outlives its attempt; cancellation gets
  through; what clients are told is what is stored; a closed run stays closed.
- *Loader, nodes*: a run does what the document says; a value is data, never
  template or shell text.
- *Registry*: one driver per checkpoint, live runs are reachable, slots are
  conserved, the registry is bounded.
- *Stream*: no event twice, no gap, everything before the close, and a decided
  outcome at the close.
- *Sandboxes*: what is created is destroyed, once, and not while it is in use;
  teardown ends.
- *Agent in a container*: an answer is complete, and it is the answer of the
  agent the node launched.
- *Agent loop and providers*: every tool result follows its call, in the order
  providers demand, whatever is compacted or cancelled; nothing said is forgotten;
  an answer means the same streamed or not.
- *Tools*: a name reaches one tool, the one policy was asked about; nothing of an
  interrupted command survives; what is cut from an output is in its spill file;
  an edit never leaves part of a file.

## Modules

| Module | Models | Kind |
|---|---|---|
| `Blueprint` | the graph, routers, the transcript of a run and what a path of the graph is | pure operators |
| `Loader` | from a document to its graph, its refusals, its drawing, the library | pure operators |
| `Nodes` | templates, shell quoting, what each kind of node asks and makes of the answer, merging, the report | pure operators |
| `Meaning` | `Executor`, `Loader` and `Nodes` side by side: what is meant by the documents, templates, nodes and outputs its constants give (`MeansItsText`) | composition |
| `Executor` | one run of the executor and its row | state machine |
| `RunRecord` | what the store promises about one run | abstract specification |
| `RunLease` | what the server promises about the rows of its runs | abstract specification |
| `RunRegistry` | the server's registry, slots, requests and run tasks over the rows | state machine |
| `EventStream` | a run's sink, one SSE stream, the end of the run, the CLI's tail | state machine |
| `Sandboxes` | the containers of a run | state machine |
| `AgentSandbox` | agents in a container, the ACP turn from both ends | state machine |
| `AgentLoop` | one run of an agent and its conversation | state machine |
| `Toolbox` | built-in and remote tools, their names, scopes and the policy | pure operators |
| `Wire` | a conversation and an answer in the forms of three providers (extends `AgentLoop` and `Toolbox`) | pure operators |
| `Subprocess` | one command: its group, its pipes, the race over it | state machine |
| `Files` | calls that read, edit and write one file at the same time | state machine |
| `Recursion` | least elements, recursive functions, induction up to a number, sequences put together: lemmas the proofs share | proofs |
| `ExecutorProofs`, `RunRegistryProofs`, `EventStreamProofs`, `SandboxesProofs`, `AgentSandboxProofs`, `AgentLoopProofs`, `SubprocessProofs` | theorems about the module each is named after; `ExecutorProofs` also about `Loader`, `Nodes` and `Meaning`, `AgentLoopProofs` about `Toolbox` and `Wire`, `SubprocessProofs` about `Files` and the two together | proofs |
| `MCExecutor`, `MCNodes`, `MCRunRegistry`, `MCEventStream`, `MCSandboxes`, `MCAgentSandbox`, `MCAgentLoop`, `MCSubprocess` | small instances; `MCExecutor` gives `Meaning` its documents, `MCNodes` its templates and runs, `MCAgentLoop` the loop, the wire and the tools, `MCSubprocess` commands and files | model checking |

Operators whose name ends in `_Something` after the name of another one are
variants of it that no specification uses: plausible bugs, kept to see that a
property notices them.

### Blueprint and Executor

A `State` is abstracted to its *transcript*: one entry per merged super-step
with the nodes that ran and the merged status. Routing depends on the status
only, so this is what the properties can tell apart, and it makes "is this
state one the blueprint can produce" a statement about paths (`IsPath`).
`FrontierAfter` gives the frontier that belongs to a transcript.

`Executor` has one action per stretch of code between two awaits: `Start` and
`Resume` (`resume_with_cancel`, which wants a resumable row with the same
label), `BeginSuperStep` (the top of the loop with its save, which may fail),
`NodeEnds` (a future of `join_all`), `SuperStepDone` (merge, look at the token,
route), `SuperStepFailed` (suspend, retry or give up), the two branches of the
backoff, `SetStatus` and `Report`. `Panic`, `Cancel` and `Crash` interleave
with all of them.

`RunRecord` knows no executor: a record is opened once, its progress extends
along the graph, and it closes for good. `Executor` implements it with the row's
transcript as progress (`ImplementsRecord`).

### Loader and Nodes

`Loader` takes a document with its edges in the order they are written.
`Fault` is the first complaint of `from_yaml`: the groups of edges are looked at in
the order of their first edges, the shape of a group before its edges
(`GroupFault`, for `add_edges` and `add_conditional`), and then the graph is built
(`BuildFault`). `Compiled` are the edges of the graph, `Describe` is what a viewer
is sent, `Refused` and `Discover` make the catalog of a directory. Which fault is
reported first is the code's; what a fault says is left out. `Written` reads the routes straight off the edges and `Sound` says
which documents make sense; neither is taken from the code, they are what
`LoadsAsWritten` compares it with.

`Nodes` has texts of tokens. `NextToken` is one step of `render_with`'s scan, with
or without quoting; `Run` gives for each kind of node what it *asks* of the
world (a prompt, a command line, an image and its environment) and the update it
makes of the world's answer; `Apply` and `Merge` are `State::apply` and the merge
of a super-step; `Attempts` runs nodes step by step, an attempt in which one fails
hard leaving nothing; `Captured` is the cap on what an exec prints, `Endpoint` the
choice among a container's networks. Loops over data are functions from how much
was done (`Rendering`, `Applying`, `Attempts`, `Widths`, `Capturing`). `Words` is how
`sh` splits a command line: it stands for the shell, not for this code, and
`ReadToTheLetter` asks that `sh` reads the words the author wrote with the values in
them to the letter.

`Meaning` says what a blueprint means: `MeansItsText` is the conjunction of what is
expected of documents and directories, of templates (`RendersAsWritten`), of what
nodes say and ask (`NodesSpeakPlainly`) and of what Docker tells them
(`ContainersAreReached`), for all the inputs its constants allow.

### RunRegistry

A job is a run task together with its handle; a position in `jobs` stands for
`started_at`. `AskResume`, `ReadRecord`, `TakeSlot` and `Claim` are the four
stretches of `resume_run`, with everything else happening between them;
`create_run` takes the last two. `Drive` is the executor seen from here: it may
write the row, stop for a cancellation, fail or panic. `Restart` forgets all
but the rows. Agent runs have no row.

`RunLease` knows neither requests nor slots: a run is driven under a lease, one
lease on it is out at a time, the row is written only under it, and a row that
closed stays closed. `RunRegistry` implements it (`ImplementsLease`): the lease on a
run is the place of its live job in `jobs` (`HolderOf`), and a restart loses them.
The model counts runs whose checkpoint write failed (`MaxFaulted`): such a write
ends the run, and the runs share no rows, so one is enough.

### EventStream

An event is its sequence number; a run emits one of a few scripts and may panic
in between. `Stamp`, `Push` and `Send` are the three steps of `record`. The
stream subscribes, clones, looks at the token, replays, and alternates between
the channel and the token as its biased `select!` does. `Hear` and `Ask` are the
CLI.

### Sandboxes

Each action is the code up to one answer of the daemon. A provision node
inspects, pulls, creates and starts, and removes a container that did not
start; an exec node starts a command, and gives up on it when its token is
cancelled or its stream breaks, which leaves the command running (`orphans`).
`CleanUp` takes the recorded ids when the run has returned or panicked,
`Resume` is another process with the stored state. Frontiers are arbitrary:
which node follows which is the matter of `Executor`.

### AgentSandbox

The nodes of one container run one after the other, each up to `MaxTries` times.
A node launches an agent (`nohup`, pid file), asks for the endpoint, polls the
port until somebody accepts, drives one turn and stops whatever the pid file
names. The agent starts, binds the port or dies because another holds it, and may
crash at any time. A turn has both ends: the queued connection waits for a
permit, the handler drains the events of the run it spawned and then responds;
a client that leaves closes the connection, which the handler notices only at
its next event. `lost` holds the agents whose launch failed or was given up and
those whose stop failed: no node stops them any more, and while one of them lives and
has the port, it answers whoever connects. `OwnOrLostAnswers` says that this is the
only way in which a node is answered by another agent than its own.

### AgentLoop, Wire and Toolbox

A message is its role, the calls it makes or answers and the numbers of the
messages it stands for, so that a synopsis says what it replaced. The wait for
the model, the summarizer or a tool is a state; a poll of a `select!` is a step,
with the token first as in the biased ones of the code. `Cancel` falls anywhere.
Whether usage has crossed the threshold is a free choice, and so are the policy's
decision, the model's answer and every failure. What a tool does is left out.

`Wire` turns every conversation the loop reaches into the request of each
provider (`AnthropicMessages`, `ToOpenAIMessages`, `ToOllamaMessages`), with texts
that are absent, empty or not and results of one or several parts, and into the
prompt of the summarizer (`RenderForSummary`). `AnthropicAccepts` and
`ChatAccepts` say what the API of a provider wants of a conversation. The
decoder of a streamed answer (`OnByte`, `OnChunk`) is fed every answer of the
bounds cut at any two places, with every stop reason. `ConvertAnthropicResponse` joins
text blocks with a newline (`Break`), which the decoder does not send; `AnswerFaithful`
therefore compares texts without it (`Unbroken`), and says that they are the same
outright if and only if there is at most one text block. What the decoder went through is a function from the bytes
read (`Reading`) and from the chunks received (`Receiving`).

`Toolbox` builds the registry from a configuration as `build_tools` does: built-in
tools, then each server's, first come first served, under names that are
sanitised and cut. Loops over tools and servers are functions from how many were
looked at (`Seen`, `Registering`, `Connecting`). `Subset` is an agent's scope, `Denies`
the policy. `NamesAreFirstCome` compares the registry with what there was to offer
(`Offered`), without sanitising, lookups or duplicates in between.

### Subprocess and Files

The bytes of a stream are numbered; what the reader keeps is a run of them that
ends at the last one read, so `dropped` describes it. `Spawn` to `Finish` are the
turns of `run_raw`, `ReadChunk` and `EndOfStream` those of `read_capped` for each
pipe, `Interrupt` the timeout and the cancellation, `Torn` the bounded join after
the kill. The command and its background processes write, close their ends,
fork and exit as they like. A spill file may fail when it is created and at any
write. `Continues` are the bytes inside a character: no cut falls before one.

`Files` has one call per editor. An edit reads, opens a temp file, fills it and
renames it; a write opens (which empties the file) and fills from its own beginning,
whole or in part, over what another write has put there since (`Over`). `laid` is what
was written into the file since it was last emptied or replaced, `torn` the
writes among it that stopped half-way. `EditsAreAtomic` says that the file is a
complete content (`whole`) once no write is in the middle, unless one stopped or several
laid different contents over one another, and that it is then made of these.
`ToolsDie` is the death of the process. `Page` and `Snippet` are what is shown of a file,
`EditFault` and `Edited` are `compute_edit`.

## Runs

Passing runs:

| Run | Question | Bounds |
|---|---|---|
| `executor` | Are documents loaded as written and nodes told what was said; do checkpoints, retries, cancellation, panics and crashes leave the right state; does the executor implement `RunRecord`; does every driver end, and does cancellation get through to nodes that wait for a person? | three blueprints: a fan-out verify loop and a branch, both loaded from documents, and a graph built in code with a router to a missing node; 4 super-steps, 1 retry, 3 drives, two nodes that never return on their own; every document of up to 3 edges over 3 targets and 4 tags, directories of up to two files, every template of up to 4 tokens, every run of two super-steps of every pair of kinds |
| `run_registry` | One driver, slots conserved, live runs listed, the registry bounded, success backed by the row; does the registry implement `RunLease` (one lease on a run, no write without it, closed rows final)? | 3 runs in a registry with room for 2, 2 requests at a time, 2 slots, 3 jobs, 1 restart, 1 run with a failed write; runs and requests are symmetric |
| `event_stream` | No repeat, no gap, a complete close, and does a stream close? | runs of 2, 4 and 7 events; history of 3 trimmed by 2; channel of 2 |
| `sandboxes` | Are containers destroyed, once, and not in use, and do a cancelled run and its teardown end? | a provision, an exec and a plain node, 2 super-steps, 1 retry, 2 processes |
| `agent_sandbox` | Is an answer complete and true, does it come from the node's own agent or else from one whose launch or stop had failed, and does a cancelled node end? | 2 nodes of one container, 2 attempts each, 1 connection at a time, runs of up to 1 event |
| `agent_loop` | Is every request well formed, complete, and one each provider accepts; does a streamed answer mean what the unstreamed one does, newlines between text blocks apart; does every name reach its tool; and does a cancelled run end? | 6 rounds, batches of up to 2 calls, 5 recent messages kept; answers of up to 2 blocks in up to 2 pieces, 2 bytes a line; configurations of up to 2 servers with up to 2 tools, names cut at 4 characters |
| `subprocess` | Is what is shown and spilled exact, does nothing survive a kill, does every call return; do pages and edits show and do what they say, and is the file a complete content except for writes that stop or overlap? | a command with one background process, 8 bytes of output against a cap of 2 with reads of up to 2 and two bytes inside characters, one byte of errors; three calls on one file, each one of three edits or a write of one of three contents (a short one, a longer one, an empty one); all texts of up to 4 tokens, pages of up to 3 lines |

The bounds are the smallest at which every interesting case happens: a loop of
the blueprint taken twice, a resume of a resume, a retry that succeeds and one
that does not, a third run that forces an eviction, a history trimmed and a
channel overrun, a container for each attempt of a super-step, an agent that
finds its port taken by an earlier attempt's, a synopsis of a synopsis, two
servers whose tools meet each other and a built-in one, a tail trimmed several
times with a character across the cut. The agent keeps 6 recent messages; 5
makes the search for a turn boundary matter, which 6 never does. The history and
channel sizes keep the order of the real ones (the trim batch smaller than the
cap), and so do the caps of a command (a character shorter than the cap).

What does not change with a run (a document, a template, the wire form of one
answer, a page) is checked over all its bounded inputs in the initial states only,
or, for the wire form of a conversation, in every state with a request under way.

Deadlock is not checked: every one of these systems may stop when its runs are
over and its model bounds are spent.

Runs that contradict a statement of the repository:

| Run | What it shows |
|---|---|
| `step_limit` | a run that needs exactly `max_steps` super-steps is failed as over the limit |
| `edited_blueprint` | a resume accepts a blueprint edited under its name |
| `late_watcher` | a watcher that attaches while the run ends may miss its last event for good |
| `remote_tail` | the CLI asks for the result before there is one |
| `reaped_child` | a timeout may kill the group of a child that was already reaped, whose id may be another's by then |

`PROJECT.json` quotes the line each one contradicts.

## Fairness

- `Executor`: the driver is polled (weak fairness of `RunGraph`), and a node
  returns on its own unless it waits for a person; such a node returns once its
  token is cancelled (`StdioHuman::prompt` selects on it). Nothing is assumed
  of crashes, resumes or cancellations.
- `EventStream`: the stream is polled while its connection is open.
- `Sandboxes`: the daemon answers or its client times out (bollard has a
  request timeout), pulls and destroys are bounded by `PULL_TIMEOUT` and
  `DESTROY_TIMEOUT`, and a node whose token is cancelled returns. A command
  nobody cancels may run for ever, and a destroy may never succeed.
- `AgentSandbox`: Docker answers, the readiness deadline passes and a node whose
  token is cancelled is polled. Neither the agent nor its server owes anything.
- `AgentLoop`: the run is polled, and once its token is cancelled the summarizer
  is abandoned and a tool returns (subprocess and MCP tools select on the token,
  file tools are short). The model and the summarizer may never answer.
- `Subprocess`: the runtime launches what it was asked to, its timer fires and
  the join after a kill is bounded. The command owes nothing: it may write for
  ever or leave a process on its pipe. `FairTools` states this over the
  composition with `Files`, so what must happen is asked only of behaviours in
  which a command is launched.

## Proofs

57 theorems hold for every value of the constants, under the assumptions
each module names: `EndAssumption` (`END` names no node), `ExecutorAssumption`,
`NobodyAssumption` (the absent row is not a row), `RegistryAssumption` (no more
slots than entries), `StreamAssumption`, `SandboxAssumption`,
`DocumentAssumption`, `TemplateAssumption`, `NodeAssumption` and
`ContainerAssumption` (the inputs of `Meaning` have the shape of documents,
templates without quotes of their own, nodes and answers, and chunks of characters
that have a width), `AgentSandboxAssumption`, `AgentAssumption`, `ToolboxAssumption` (names are
sequences of characters, and the built-in ones are no longer than the limit),
`WireAssumption` (a line has a byte), `FilesAssumption` (a page has a line),
`ContentsAssumption` (contents are sequences of tokens), `SubprocessAssumption` and `CharacterAssumption` (the bytes inside a character are
fewer than the cap). TLC evaluates them in the runs. Where there are states, the
argument is one inductive invariant, stronger than the properties it gives; where
there is a loop over data, it is a recursive function that exists
(`RecursionExists`) and an invariant of its arguments (`Climb`):

- **Executor.** `CheckpointCorrect` and `TranscriptCorrect` need `UniqueLabels`
  (labels identify blueprints; `edited_blueprint` shows it is needed). What is
  saved next is what the loop holds now, and what the loop holds after a resume is
  what was saved: `IInv` ties the two, with `RowKnown` (the row was taken against
  the graph of the last driver) and `LoopAtBoundary` (at the top of the loop, during
  an attempt and in a backoff the loop variables are a boundary). The merging step
  rests on `PathExtends`, a fresh run on `EntryBoundary`. `NoOrphan` and
  `CancellationStops` come from `AttemptInv`; that at most one attempt follows a
  cancellation needs `LateIsLast`: such an attempt never leads back to the loop.
  `ExactResume`, `DurablePrefix` and `ReportAfterStore` come from `StoreInv`: once a
  super-step was begun there is a row, unless a write failed (`RowOnceBegun`), and
  what is reported was stored first (`ClosedIsStored`). `CompletionIsDone` and
  `ExecutorImplementsRecord` need `UniqueLabels` too; the refinement also needs that
  a row that is driven has not been closed (`DrivenIsOpen`).
- **Loader.** `DocumentsLoadAsWritten` is about documents of any length over any
  names: the first complaint exists exactly if some group or the build has one
  (`FaultFacts`), and a group has one exactly if it is unsound (`TakesSound`);
  without complaints a source is tagged throughout or nowhere, and then routers and
  static targets take what is written (`RoutesRight`). `CatalogsAreSound` follows for
  directories. `LoadedMayRun` discharges what `Executor` assumes of its graphs, and
  `LoadedRunsStayInGraph` uses `IInv`: a run of loaded blueprints fails through a
  node, never on a name.
- **Templates and quoting.** A text is read token by token (`Rendering`, `Reading`),
  so what is read of two texts side by side is read of the one and then of the other
  (`ReadsBoth`), and a quoted value adds itself to the word that is being read
  and leaves sh as it was (`QuotedRead`). `ClonesAreRead` and `LaunchesAreRead` follow
  word by word. For the templates, the scan with the values and the scan with marks
  are held against each other: after each token the one is the other with its marks
  filled in, as text (`Apace`) for `TemplatesFillOnce` and as sh has read it
  (`Told`, `Alike`) for `CommandsAreReadToTheLetter`. The marks are any tokens that are
  not the template's own (`MarksFit`), one for each key; inside quotes of the
  template a value would end them, so there it has neither quotes nor backslashes.
- **Nodes and containers.** `BlueprintsMeanTheirText` puts the two above together
  with four more. `RunsAreToldWhatWasSaid` is an induction over the attempts of a
  run: what templates know and what the transcript has is kept by one update
  (`RecallsNext`), by the updates of a super-step (`MergeFacts`) and by an attempt, merged or
  not (`AttemptsFacts`). `OutputIsCutHonestly` follows the capture chunk by chunk: until
  the first cut what is kept is all there was, and from then on the place of that cut
  stands, where the next character did not fit (`KeptSo`, `KeptNext`).
  `SilenceDeclines`, `ContainersAreProvisioned` and `EndpointsAreTheSame` need no
  induction. Of templates, `TemplatesArePiecewise` says that reading starts afresh
  behind a closed brace, and `PlaceholdersArePutIn` what becomes of one placeholder.
- **Registry.** `RegistryInv`: the registry lists jobs under their own runs, a
  live job is the one listed (`LiveListed`, hence one driver), the id a create has
  drawn is nobody else's, the registry is bounded, and permits add up. Bounds and
  permits need that the sets counted are finite; an eviction always finds a run
  that is over because fewer runs than slots are live, and slots are no more than
  entries. `SuccessIsOnDisk` and `OverStaysOver` need `RowInv`: of the jobs of a run
  the live one is the last (`LiveIsLast`), and what row it finds until its last
  write (`RowOfDriver`). `RegistryImplementsLease` maps each step: what `Claim`s
  takes a free lease (`ClaimIsFree`: by `OneDriver` no live job holds the run), a
  driver writes under its own (`HolderIsLive`) on a row that is open, and what ends
  a job gives it back.
- **Stream.** `StreamInv`: the history is the recent events (`HistoryInv`), what is
  left to replay reaches the receiver's first event (`ReplayInv`), and the receiver
  never runs ahead of what was told unless it was overtaken (`ReaderInv`).
- **Sandboxes.** `BoxInv`: somebody answers for every container of this process
  (`AccountInv`: it is recorded, being destroyed, kept, gone, or still in the hands
  of the one node that created it, `UnstartedInv`), what is used or recorded runs
  (`RunningInv`), and nodes are at work only in an attempt (`PhaseInv`).
- **Agent in a container.** `PromptInv`: the container and the pid file are one
  node's at a time (`NodeInv`), an agent lives only under a node that holds it
  (`AgentInv`) or was given up by one (`lost`), the client of an open connection waits in its turn and has heard all
  that was sent (`OpenInv`).
- **Conversation.** `LoopInv` describes the history in the middle of a round,
  where none of the properties holds: turns are complete up to the last one
  (`Turns`, `Answering`), the first message stands for a prefix of what was said and
  each other one for itself (`Covers`), either nothing was cut or enough was left
  (`KeepsRecent`), and the cutoff a summary was asked for still stands when it
  arrives (`InRound`). The step that matters is `SummarizedInv`: a cutoff that begins
  on an assistant turn leaves complete turns. `CancellationIsSoon` needs only
  `CancelInv`.
- **Commands and files.** `OutputInv`: what was dropped is what the last trim had to
  drop (`TailOf`), and a spill file was begun before the first trim or never
  (`SpillOf`). That trimming step by step comes to one cut of the whole needs
  `CharacterAssumption` and a least element. `NothingSurvivesHolds` needs only
  `GroupInv`. `FilesInv` says that a temp file that was filled holds everything
  (`CallInv`), and that the file is complete or made of what was laid; when that is
  one content and nothing is torn, it is the file (`LaidInv`). The run composes the two in `Tools`, where either takes its steps while
  the other rests, and `ToolsAreBoth` carries the theorems over to it
  (`ToolsKeepOutput`, `FilesAreWhole`).
- **Pages and edits.** `PagesAreComplete`: the lines of a text put together again are
  the text, and what the pages show, put side by side, are its lines, for any page
  size. `EditsAreExact`: the leftmost matches that do not overlap
  (`MatchesFacts`, by `GreedyStep`) are counted and replaced as the editor is told.
- **Tools.** `NamesAlwaysReach`: after m servers the registry has the first tool of
  each name among the first m offers and no other (`Built`); each server extends it
  by what is new (`Grown`), whether `discover_tools` or `register` drops a
  duplicate (`ConnectFacts`). The rest rests on that: a name has the
  form providers take because it was sanitised, and no server can be taken for the
  built-in one.
- **Decoder.** `StreamsAnswerAlike` rests on `CutAnywhere`: reading two chunks is
  reading them as one, from any decoder on. So an answer is read line by line
  (`OneLine`), and `Holds` is the invariant between two lines: what was told so far,
  the call that is open, nothing left in the buffer and no reason yet. What was sent
  stays sent (`OnChunkSends`). Its text is held against the unstreamed one block by
  block (`JoinedFacts`): a break comes in exactly when there was a text before
  (`BreaksFacts`), and a text is itself without its breaks only if it has none
  (`UnbrokenFacts`).
- **Wire.** `WireIsFaithful` puts the decoder together with the requests. `Dialog` is
  what `LoopInv` gives while a model or a summarizer is asked: roles alternate and
  results have the calls of the turn before. A flattened conversation keeps every
  chat in its place (`FlattenPlaces`), so the results of a turn with calls stand
  right behind it (`AnswersFollow`) and the last turn with calls before a cutoff has
  its results before the cutoff, too. The summarizer is told of the calls of a turn
  and of its results; that the first message has no calls is an invariant of its own
  (`Opened`).

Only model-checked: everything temporal under fairness, which is out of the prover's
reach (`DriverEnds`, `CancelEnds`, `FinishedCloses` and their like). Every invariant and every action property
of a passing run is stated by a theorem.

## Hazards no property covers

- Two processes may drive one row at a time (`boitata-cli/src/main.rs:246`): the
  store has no lock. `Executor` has one driver at a time, which one server
  enforces; the repository does not say what two should leave behind.
- A resumed state names containers that the end of the last process destroyed
  (`boitata-orchestrator/src/lib.rs:682`): the node that uses one fails. Nothing
  else is promised of a resume with containers.

Covered in part:

- What a stream that was overtaken has shown: in order, once, with gaps.
- A resume accepted with 202 on a record that a run just completed: its row stays
  closed, its handle shows a failure.
- An exec retried beside the command its failed attempt left running: the command
  does not outlive the run, but nothing keeps the two apart.
- Two edits of one file that each replace what the other read: both report
  success, the later rename wins.
- Two `file_write`s that empty the file one after the other before either fills it
  (`fs.rs:198`): both report success, and the tail of the longer one may stay behind the
  shorter one. `EditsAreAtomic` excepts the mixture and says what it is made of; nothing
  in the repository promises more of overlapping writes.
- A panic drops a provision between `create_container` and the record of the id;
  `NothingLeaks` excepts it, and a container leaks.

## Where words and code part

Met while modelling, beside the five runs; the models follow the code:

- `tools/policy.rs:4-5` has the policy consulted before every tool execution; a
  `tool` node (`nodes.rs`) calls the registry without it.
- `context/compact.rs:18-21` documents the cap on parts for arguments and tool
  results; `render_message_into` truncates task texts, answers and synopses as well.
- `file_edit` wants its text to "appear exactly once" (`fs.rs:281`); occurrences that
  overlap count once, and the first is replaced.
- `agent_sandbox` "launches the agent" and "drives it"
  (`docs/src/concepts/sandboxed-execution.md:84-86`); `wait_ready` takes whoever accepts
  on the port (`container.rs:367`). An agent that has started although its launch was
  given up (`container.rs:311-317` returns without a stop), or whose stop failed, keeps
  the port, and the next attempt or node drives it: its own agent finds the port taken.
- The unstreamed Anthropic answer joins text blocks with a newline (`anthropic.rs:505`),
  the streamed one has nothing between them; no document says which is right.
- `file_edit` leaves its temp file behind when writing it fails (`fs.rs:393`).
- `git_branch`'s `switch` runs `git checkout --` with the name, which git reads as a
  path (`git.rs:211`).
- A run's label is the catalog name for the server and the document's name for the
  CLI, so neither resumes the other's runs unless the two agree.
- `list_runs` takes a snapshot of the registry before it awaits the store
  (`api.rs:407`): a run created in between may be listed as suspended.
- Two files whose names differ only in `.yaml` and `.yml` share a catalog entry;
  which one wins is the file system's choice (`library.rs`).
- The ACP server accepts a connection before it has a permit for it
  (`server.rs:37`): one more client than `MAX_CONNECTIONS` is connected.
- In a fan-out one failed node makes the merged status failed for every router of
  that super-step, its successful siblings' included (`lib.rs:1034`, as its comment
  says).

## Not modelled

- Data that no property is about: prompts, what a model or a command says, YAML
  syntax, names and schemas of tools on the wire, token counts, sampling options,
  formatting. A text is a few tokens wherever its shape matters.
- The daemon's own failures, and a lost answer of `create_container`.
- The workspace's confinement of paths: what a path resolves to is a matter of
  the file system, links included.
- Connecting to MCP servers and calling them, the ACP library's framing, HTTP
  errors of providers: each is one call of a library that fails or does not.
- Listing, deletion and migrations of the store; read-only handlers of the server;
  parsing of the configuration, the audit file's appends, CLI arguments, start-up,
  embedded assets, the web UI: no protocol of their own.
- `git`, `cargo`, `search` and `execute_command` beyond the command they hand to
  `Subprocess`.

## Where it could go on

Everything planned is built: state machines for each part that holds state,
their safety properties proved. What would add most next is two processes on one row,
once the repository says what they may do.
