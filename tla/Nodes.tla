-------------------------------- MODULE Nodes -------------------------------
(***************************************************************************)
(* What the nodes of a blueprint ask of the world and tell each other:     *)
(* templating (state.rs render, render_shell), the commands of the         *)
(* container nodes (container.rs), the run of every kind of node           *)
(* (nodes.rs, container.rs), the merge of their updates (State::apply,     *)
(* run_frontier) and the report made of the final state (RunResult,        *)
(* report_blueprint_state).                                                *)
(*                                                                         *)
(* A text is a sequence of tokens: braces, quotes, blanks and words.  What *)
(* the world answers is a record [hard, ok, text]: hard when there is no   *)
(* answer but an error, ok when a command exited with 0, a tool executed   *)
(* or an agent succeeded.                                                  *)
(***************************************************************************)
EXTENDS Integers, SequencesExt

Quote == "'"
NoAnswer == <<"(none)">>   \* an agent that leaves neither a message nor an error

-----------------------------------------------------------------------------
(* Templating.                                                             *)

\* Mutant: a node's own variable named task hides the task of the run.
Known_VarsFirst(st, key) ==
  IF key \in DOMAIN st.vars THEN <<st.vars[key]>>
  ELSE IF key = <<"task">> THEN <<st.task>> ELSE <<>>

\* resolve: the value of a key, if it has one.
Known(st, key) ==
  IF key = <<"task">> THEN <<st.task>>
  ELSE IF key \in DOMAIN st.vars THEN <<st.vars[key]>> ELSE <<>>

\* Mutant: quotes inside the value are left as they are.
ShellQuoted_Bare(value) == <<Quote>> \o value \o <<Quote>>

\* shell_single_quote, shell_quote.
ShellQuoted(value) ==
  <<Quote>>
    \o FlattenSeq([i \in DOMAIN value |->
                     IF value[i] = Quote THEN <<Quote, "\\", Quote, Quote>>
                     ELSE <<value[i]>>])
    \o <<Quote>>

\* Mutant: what is put in for a placeholder is read on as template.
Next_Rescans(seen, c, st, shell) ==
  IF seen.open = <<>>
    THEN IF c = "{" THEN [seen EXCEPT !.open = <<c>>] ELSE [seen EXCEPT !.out = Append(@, c)]
    ELSE IF c # "}" THEN [seen EXCEPT !.open = Append(@, c)]
    ELSE LET value == Known(st, Tail(seen.open)) IN
         IF value = <<>> THEN [out |-> seen.out \o Append(seen.open, c), open |-> <<>>]
         ELSE [out |-> seen.out, open |-> IF shell THEN ShellQuoted(value[1]) ELSE value[1]]

\* One token of render_with: `open` is what has been read since a brace that is
\* still to be closed.
NextToken(seen, c, st, shell) ==
  IF seen.open = <<>>
    THEN IF c = "{" THEN [seen EXCEPT !.open = <<c>>] ELSE [seen EXCEPT !.out = Append(@, c)]
    ELSE IF c # "}" THEN [seen EXCEPT !.open = Append(@, c)]
    ELSE LET value == Known(st, Tail(seen.open))
             put == IF value = <<>> THEN Append(seen.open, c)
                    ELSE IF shell THEN ShellQuoted(value[1]) ELSE value[1]
         IN [out |-> seen.out \o put, open |-> <<>>]

\* render_with after each of the tokens.
Rendering(template, st, shell) ==
  LET seen[k \in 0..Len(template)] ==
        IF k = 0 THEN [out |-> <<>>, open |-> <<>>]
        ELSE NextToken(seen[k - 1], template[k], st, shell)
  IN  seen

\* render (shell = FALSE) and render_shell (shell = TRUE).
Render(template, st, shell) ==
  LET read == Rendering(template, st, shell)[Len(template)]
  IN  read.out \o read.open

-----------------------------------------------------------------------------
(* The shared state and its reducers.                                      *)

NewState(task) == [task |-> task, messages |-> <<>>, status |-> "none", vars |-> <<>>]

\* Update::from_node.
From(n, text, ok) ==
  [messages |-> <<[node |-> n, text |-> text]>>,
   status   |-> IF ok THEN "ok" ELSE "failed",
   vars     |-> [key \in {<<n>>} |-> text]]

\* What one map says over what another says.
Over(new, old) ==
  [key \in DOMAIN new \cup DOMAIN old |-> IF key \in DOMAIN new THEN new[key] ELSE old[key]]

\* Mutant: a variable keeps the first value it was given.
Apply_FirstWins(st, update) ==
  [st EXCEPT !.messages = @ \o update.messages, !.status = update.status,
             !.vars = Over(@, update.vars)]

\* State::apply: append, last write, merge; the task is never touched.
Apply(st, update) ==
  [st EXCEPT !.messages = @ \o update.messages, !.status = update.status,
             !.vars = Over(update.vars, @)]

\* The state after each of the updates.
Applying(st, updates) ==
  LET after[k \in 0..Len(updates)] ==
        IF k = 0 THEN st ELSE Apply(after[k - 1], updates[k])
  IN  after

\* run_frontier: the updates of a super-step, in the order of the node names;
\* a failure dominates.
Merge(st, updates) ==
  [Applying(st, updates)[Len(updates)] EXCEPT
     !.status = IF \E i \in DOMAIN updates : updates[i].status = "failed"
                THEN "failed" ELSE "ok"]

-----------------------------------------------------------------------------
(* The runs.  Each is what the node asks and what it makes of the answer:   *)
(* one update, or none when it fails hard.                                 *)

Asks(asked, updates) == [asked |-> asked, updates |-> updates]
Unless(hard, update) == IF hard THEN <<>> ELSE <<update>>
Failing == <<"error">>

\* AgentNode::run: an unknown tool is an error before the agent is started, and
\* an agent that says nothing is reported all the same.
AgentRun(node, st, world) ==
  IF ~(node.tools \subseteq node.registry) THEN Asks(<<>>, <<>>)
  ELSE Asks(Render(node.prompt, st, FALSE),
            Unless(world.hard,
                   From(node.name,
                        IF world.text = NoAnswer THEN <<"nothing">> ELSE world.text,
                        world.ok)))

\* ToolNode::run: fixed arguments, and an error is only a failed status.
ToolRun(node, st, world) ==
  Asks(node.prompt,
       <<IF world.hard THEN From(node.name, Failing, FALSE)
         ELSE From(node.name, world.text, TRUE)>>)

\* ScriptNode::run: as for a tool, but the exit code decides.
ScriptRun(node, st, world) ==
  Asks(Render(node.prompt, st, TRUE),
       <<IF world.hard THEN From(node.name, Failing, FALSE)
         ELSE From(node.name, world.text, world.ok)>>)

\* Mutant: nothing but a clear no declines.
Affirmative_Default(reply) ==
  ~ \E i \in DOMAIN reply : reply[i] = "no" /\ \A j \in DOMAIN reply \ {i} : reply[j] = " "

\* is_affirmative, on the spellings of a reply the model tells apart: blanks
\* around the word do not count.
Affirmative(reply) ==
  \E i \in DOMAIN reply :
    reply[i] \in {"y", "yes", "Yes", "ok"} /\ \A j \in DOMAIN reply \ {i} : reply[j] = " "

\* HumanNode::run: no input and a cancellation are hard errors.
HumanRun(node, st, world) ==
  Asks(Render(node.prompt, st, FALSE),
       Unless(world.hard,
              IF ~node.approval THEN From(node.name, world.text, TRUE)
              ELSE IF Affirmative(world.text) THEN From(node.name, <<"approved">>, TRUE)
              ELSE From(node.name, <<"declined">>, FALSE)))

\* resolve_env: the variables asked for, as far as the process has them (and not
\* blank) or else the host's configuration does.
Resolved(v, process, defaults) ==
  IF v \in DOMAIN process /\ process[v] # " " THEN <<<<v, process[v]>>>>
  ELSE IF v \in DOMAIN defaults THEN <<<<v, defaults[v]>>>> ELSE <<>>
Forwarded(env, process, defaults) ==
  FlattenSeq([i \in DOMAIN env |-> Resolved(env[i], process, defaults)])

\* ProvisionNode::run: the container id becomes the node's text.
ProvisionRun(node, st, world) ==
  Asks(<<Render(node.prompt, st, FALSE), Forwarded(node.env, node.process, node.defaults)>>,
       Unless(world.hard, From(node.name, world.text, TRUE)))

\* checkout_command, with a ref or without: refs has at most one element.
CheckoutCommand(repo, path, refs) ==
  <<"git", " ", "clone", " ">> \o ShellQuoted(repo) \o <<" ">> \o ShellQuoted(path)
    \o IF refs = <<>> THEN <<>>
       ELSE <<" ", "&&", " ", "git", " ", "-C", " ">> \o ShellQuoted(path)
              \o <<" ", "checkout", " ">> \o ShellQuoted(refs[1])

\* CheckoutNode::run: repo and ref are templates, the path is not.
CheckoutRun(node, st, world) ==
  Asks(CheckoutCommand(Render(node.prompt, st, FALSE), node.path,
                       IF node.ref = <<>> THEN <<>> ELSE <<Render(node.ref, st, FALSE)>>),
       Unless(world.hard, From(node.name, world.text, world.ok)))

\* ExecNode::run.
ExecRun(node, st, world) ==
  Asks(Render(node.prompt, st, TRUE),
       Unless(world.hard, From(node.name, world.text, world.ok)))

\* AgentSandboxNode::launch_command, up to its redirections.
LaunchCommand(command, port) ==
  <<"nohup", " ">> \o ShellQuoted(command) \o <<" ", "--addr", " ", port, " ", "&">>

Run(node, st, world) ==
  CASE node.kind = "agent"     -> AgentRun(node, st, world)
    [] node.kind = "tool"      -> ToolRun(node, st, world)
    [] node.kind = "script"    -> ScriptRun(node, st, world)
    [] node.kind = "human"     -> HumanRun(node, st, world)
    [] node.kind = "provision" -> ProvisionRun(node, st, world)
    [] node.kind = "checkout"  -> CheckoutRun(node, st, world)
    [] node.kind = "exec"      -> ExecRun(node, st, world)

Kinds == {"agent", "tool", "script", "human", "provision", "checkout", "exec"}

\* An attempt at a super-step by some nodes, each with what the world answers it:
\* they all start from the same state, and when one fails hard nothing is merged.
\* Beside the state, `ran` has all updates merged so far and `last` those of the
\* last super-step.
Attempt(seen, calls) ==
  LET said == [i \in DOMAIN calls |-> Run(calls[i].node, seen.st, calls[i].world).updates]
  IN IF \E i \in DOMAIN calls : said[i] = <<>> THEN seen
     ELSE [st   |-> Merge(seen.st, FlattenSeq(said)),
           ran  |-> seen.ran \o FlattenSeq(said),
           last |-> FlattenSeq(said)]

\* A run on a task, after each of its attempts.
Attempts(task, history) ==
  LET after[k \in 0..Len(history)] ==
        IF k = 0 THEN [st |-> NewState(task), ran |-> <<>>, last |-> <<>>]
        ELSE Attempt(after[k - 1], history[k])
  IN  after

-----------------------------------------------------------------------------
(* What Docker tells the container nodes (sandbox/docker.rs).              *)

\* The width of what comes before each character and after the last.
Widths(text) ==
  LET sum[k \in 0..Len(text)] == IF k = 0 THEN 0 ELSE sum[k - 1] + text[k]
  IN  sum

Width(text) == Widths(text)[Len(text)]
Room(kept, max) == max - Width(kept)

\* Mutant: whether output was cut is decided anew with every chunk.
Capture_Forgets(got, chunk, max) ==
  LET fits == {n \in 0..Len(chunk) : Widths(chunk)[n] <= Room(got.kept, max)}
      n == CHOOSE k \in fits : \A j \in fits : j <= k
  IN [kept |-> got.kept \o SubSeq(chunk, 1, n), cut |-> n < Len(chunk)]

\* append_capped and the loop around it: of each chunk, a sequence of characters
\* given by their widths, as many characters as the room left allows.
Capture(got, chunk, max) ==
  LET fits == {n \in 0..Len(chunk) : Widths(chunk)[n] <= Room(got.kept, max)}
      n == CHOOSE k \in fits : \A j \in fits : j <= k
  IN [kept |-> got.kept \o SubSeq(chunk, 1, n),
      cut  |-> IF Room(got.kept, max) = 0 THEN TRUE ELSE got.cut \/ n < Len(chunk)]

\* What there is after each of the chunks.
Capturing(chunks, max) ==
  LET got[k \in 0..Len(chunks)] ==
        IF k = 0 THEN [kept |-> <<>>, cut |-> FALSE] ELSE Capture(got[k - 1], chunks[k], max)
  IN  got

Captured(chunks, max) == Capturing(chunks, max)[Len(chunks)]

\* Mutant: the first network the map yields.
Endpoint_FirstListed(networks) ==
  LET up == SelectSeq(networks, LAMBDA net : net.up)
  IN IF up = <<>> THEN <<>> ELSE <<up[1].name>>

\* endpoint: of the networks in the order the map yields them, the default bridge
\* (0) if it has an address and otherwise the first by name that has.
Endpoint(networks) ==
  LET up == {networks[i].name : i \in {j \in DOMAIN networks : networks[j].up}}
  IN IF up = {} THEN <<>> ELSE <<CHOOSE n \in up : \A o \in up : n <= o>>

-----------------------------------------------------------------------------
\* RunResult::from_state, and what report_blueprint_state makes of the same.
FromState(st) ==
  [success |-> st.status = "ok",
   final   |-> IF st.messages = <<>> THEN NoAnswer ELSE Last(st.messages).text,
   error   |-> CASE st.status = "ok"     -> "no error"
                 [] st.status = "failed" -> "failing step"
                 [] st.status = "none"   -> "no node having run"]

-----------------------------------------------------------------------------
(* How sh reads a command line, and how a template is meant.               *)

Break(read) ==
  IF read.open THEN [read EXCEPT !.words = Append(@, read.word), !.word = <<>>, !.open = FALSE]
  ELSE read

ReadOn(read, c) ==
  CASE read.mode = "escaped" ->
         [read EXCEPT !.word = Append(@, c), !.mode = "plain"]
    [] read.mode = "quoted" ->
         IF c = Quote THEN [read EXCEPT !.mode = "plain"] ELSE [read EXCEPT !.word = Append(@, c)]
    [] read.mode = "plain" ->
         CASE c = " "   -> Break(read)
           [] c = Quote -> [read EXCEPT !.mode = "quoted", !.open = TRUE]
           [] c = "\\"  -> [read EXCEPT !.mode = "escaped", !.open = TRUE]
           [] OTHER     -> [read EXCEPT !.word = Append(@, c), !.open = TRUE]

\* What sh has read after each of the tokens.
Reading(read, line) ==
  LET after[k \in 0..Len(line)] ==
        IF k = 0 THEN read ELSE ReadOn(after[k - 1], line[k])
  IN  after

Reads(read, line) == Reading(read, line)[Len(line)]
Unread == [words |-> <<>>, word |-> <<>>, open |-> FALSE, mode |-> "plain"]

\* The words of a line without other metacharacters.
Words(line) == Break(Reads(Unread, line)).words

\* A state whose values are markers no template knows, and the values put in
\* for the markers afterwards.
Marked(st, mark) ==
  [st EXCEPT !.task = <<mark[<<"task">>]>>,
             !.vars = [key \in DOMAIN @ |-> <<mark[key]>>]]
Unmarked(text, st, mark) ==
  FlattenSeq([i \in DOMAIN text |->
                LET key == {k \in DOMAIN mark : mark[k] = text[i]}
                IN IF key = {} THEN <<text[i]>> ELSE Known(st, CHOOSE k \in key : TRUE)[1]])

\* A value that is substituted is never read again, and nothing but the known
\* placeholders is touched: rendering with markers and filling them in
\* afterwards comes to the same (render).
FilledOnce(t, st, mark) ==
  Render(t, st, FALSE) = Unmarked(Render(t, Marked(st, mark), FALSE), st, mark)

\* sh sees the words the author wrote, with the values in their places, to the
\* letter, whatever quotes, blanks or backslashes they hold (render_shell).
ReadToTheLetter(t, st, mark) ==
  LET meant == Words(Render(t, Marked(st, mark), TRUE))
  IN Words(Render(t, st, TRUE)) = [i \in DOMAIN meant |-> Unmarked(meant[i], st, mark)]

\* sh sees the repository, the path and the ref as they are, wherever they are
\* needed (checkout_command).
CloneIsRead(repo, path, refs) ==
  Words(CheckoutCommand(repo, path, refs))
    = <<<<"git">>, <<"clone">>, repo, path>>
        \o IF refs = <<>> THEN <<>>
           ELSE <<<<"&&">>, <<"git">>, <<"-C">>, path, <<"checkout">>, refs[1]>>

\* sh sees the command as it is (launch_command).
LaunchIsRead(command, port) ==
  Words(LaunchCommand(command, port))
    = <<<<"nohup">>, command, <<"--addr">>, <<port>>, <<"&">>>>

\* What a placeholder becomes: the task, or the variable of its name, or itself
\* (render_with).
PutIn(key, st) ==
  Render(<<"{">> \o key \o <<"}">>, st, FALSE)
    = IF key = <<"task">> THEN st.task
      ELSE IF key \in DOMAIN st.vars THEN st.vars[key] ELSE <<"{">> \o key \o <<"}">>

\* Text before a closed brace does not depend on what comes after it (render_with).
Piecewise(t, st) ==
  \A i \in DOMAIN t :
    t[i] = "}" => Render(t, st, FALSE)
                    = Render(SubSeq(t, 1, i), st, FALSE) \o Render(SubSeq(t, i + 1, Len(t)), st, FALSE)

\* Every node that has spoken is known to templates by its name, with its latest
\* words, but for a node called task; the transcript has every word and nothing of
\* a failed attempt; and the run is reported a success exactly when no node of its
\* last super-step failed (State::apply, run_frontier, RunResult::from_state).
ToldWhatWasSaid(task, history) ==
  LET end  == Attempts(task, history)[Len(history)]
      said == end.st.messages
  IN /\ said = FlattenSeq([i \in DOMAIN end.ran |-> end.ran[i].messages])
     /\ \A i \in DOMAIN said :
          said[i].node # "task" /\ (\A j \in DOMAIN said : j > i => said[j].node # said[i].node)
            => Known(end.st, <<said[i].node>>) = <<said[i].text>>
     /\ \A key \in DOMAIN end.st.vars : \E i \in DOMAIN said : key = <<said[i].node>>
     /\ Known(end.st, <<"task">>) = <<task>>
     /\ end.last # <<>> =>
          (FromState(end.st).success <=> \A i \in DOMAIN end.last : end.last[i].status = "ok")

\* A person who says nothing, or is not there, has approved nothing (HumanNode::run).
SilenceIsNoApproval(node, st, world) ==
  LET updates == Run(node, st, world).updates
  IN node.kind = "human" /\ node.approval /\ (world.hard \/ \A i \in DOMAIN world.text : world.text[i] = " ")
       => updates = <<>> \/ updates[1].status = "failed"

\* A container is provisioned for the image as rendered, and with the variables
\* its process has, a blank one being none, before those of the configuration
\* (ProvisionNode::run, resolve_env).
ProvisionsAsAsked(node, st, world) ==
  LET asked == Run(node, st, world).asked
      own   == {v \in ToSet(node.env) \cap DOMAIN node.process : node.process[v] # " "}
  IN node.kind = "provision" =>
       /\ asked[1] = Render(node.prompt, st, FALSE)
       /\ ToSet(asked[2]) = {<<v, node.process[v]>> : v \in own}
            \cup {<<v, node.defaults[v]>> : v \in (ToSet(node.env) \cap DOMAIN node.defaults) \ own}

\* Command output is cut to the limit and never without saying so; up to the first
\* cut it is what was written (append_capped, exec).
CutIsTold(chunks, max) ==
  LET got == Captured(chunks, max)
      all == FlattenSeq(chunks)
  IN /\ Width(got.kept) <= max
     /\ got.kept # all => got.cut
     /\ got.cut /\ (\A i \in DOMAIN chunks : chunks[i] # <<>>) => got.kept # all
     /\ \E k \in 0..Len(got.kept) :
          /\ SubSeq(got.kept, 1, k) = SubSeq(all, 1, k)
          /\ k < Len(all) => Widths(all)[k + 1] > max

\* Which network an agent is reached on does not depend on the order they come in;
\* it has an address, and it is the default one when that has (endpoint).
SameEndpoint(a, b) ==
  /\ ToSet(a) = ToSet(b) => Endpoint(a) = Endpoint(b)
  /\ Endpoint(a) = <<>> <=> \A i \in DOMAIN a : ~a[i].up
  /\ Endpoint(a) # <<>> => \E i \in DOMAIN a : a[i].up /\ Endpoint(a) = <<a[i].name>>
  /\ (\E i \in DOMAIN a : a[i].up /\ a[i].name = 0) => Endpoint(a) = <<0>>
=============================================================================
