-------------------------------- MODULE Wire --------------------------------
(***************************************************************************)
(* What the agent loop's conversation is on the wire of each provider, and *)
(* what an answer on the wire is to the loop (boitata-core                 *)
(* provider/anthropic.rs, openai.rs, ollama.rs and mod.rs), and the tools  *)
(* a request offers (Toolbox).                                             *)
(*                                                                         *)
(* A text is one of the values of Said or the numbers of its pieces; the   *)
(* content of a tool result is a sequence of "text" and "image" parts.     *)
(* The name of a tool, its schema, the token counts and the sampling       *)
(* options go through unchanged and are left out.                          *)
(* An answer streamed by the server is a sequence of lines of LineBytes    *)
(* bytes, cut into network chunks anywhere.                                *)
(***************************************************************************)
EXTENDS AgentLoop, Toolbox

CONSTANTS
  LineBytes,    \* model bound: bytes of one line of a streamed answer
  MaxBlocks,    \* model bound: content blocks of one answer
  MaxPieces,    \* model bound: deltas a block is streamed in
  MaxRendered   \* MAX_RENDERED_PART

ASSUME WireAssumption ==
  /\ LineBytes \in Nat \ {0}
  /\ MaxBlocks \in Nat /\ MaxPieces \in Nat /\ MaxRendered \in Nat

None == "none"
Said == {None, "", "words"}
Contents == {ResultContent(blocks, structured) :
               blocks \in SeqOf({"text", "image", "audio"}, 2), structured \in BOOLEAN}

(***************************************************************************)
(* Requests.                                                               *)
(***************************************************************************)

\* Context::to_messages, where every assistant turn said `said` and every result
\* has the parts `parts`.
ToMessages(said, parts) ==
  [k \in 1..Len(messages) |->
     LET m == messages[k] IN
     [role    |-> m.role,
      text    |-> IF m.role = "assistant" THEN said ELSE "words",
      calls   |-> IF m.role = "assistant" THEN m.calls ELSE <<>>,
      results |-> IF m.role # "tool" THEN <<>>
                  ELSE [j \in 1..Len(m.calls) |->
                          [id |-> m.calls[j], content |-> parts]]]]

\* Text-only providers get one string, an image replaced by a placeholder.
ToolContentText(content) ==
  [k \in 1..Len(content) |-> IF content[k] = "image" THEN "placeholder" ELSE content[k]]

Texts(text) == IF text \in {None, ""} THEN <<>> ELSE <<[type |-> "text", text |-> text]>>

AnthropicContent(m) ==
  CASE m.role = "user" -> <<[type |-> "text", text |-> m.text]>>
    [] m.role = "tool" ->
         [k \in 1..Len(m.results) |->
            [type |-> "tool_result", id |-> m.results[k].id,
             content |-> m.results[k].content]]
    [] m.role = "assistant" ->
         Texts(m.text) \o [k \in 1..Len(m.calls) |->
                             [type |-> "tool_use", id |-> m.calls[k]]]

\* The system prompt is a field of its own; a message of that role is left out.
AnthropicMessages(conversation) ==
  LET turn(m) == [role    |-> IF m.role = "assistant" THEN "assistant" ELSE "user",
                  content |-> AnthropicContent(m)] IN
  FlattenSeq([k \in 1..Len(conversation) |->
                IF conversation[k].role = "system" THEN <<>> ELSE <<turn(conversation[k])>>])

Chat(role, content, calls, id) ==
  [role |-> role, content |-> content, calls |-> calls, id |-> id]

\* Mutant: a batch of results is one message, under the id of the first.
OpenAIChats_OnePerBatch(m) ==
  CASE m.role = "user" -> <<Chat("user", m.text, <<>>, None)>>
    [] m.role = "tool" ->
         <<Chat("tool", ToolContentText(m.results[1].content), <<>>, m.results[1].id)>>
    [] m.role = "assistant" -> <<Chat("assistant", m.text, m.calls, None)>>

OpenAIChats(m) ==
  CASE m.role = "user" -> <<Chat("user", m.text, <<>>, None)>>
    [] m.role = "tool" ->
         [k \in 1..Len(m.results) |->
            Chat("tool", ToolContentText(m.results[k].content), <<>>, m.results[k].id)]
    [] m.role = "assistant" -> <<Chat("assistant", m.text, m.calls, None)>>

ToOpenAIMessages(system, conversation) ==
  (IF system = None THEN <<>> ELSE <<Chat("system", system, <<>>, None)>>)
    \o FlattenSeq([k \in 1..Len(conversation) |-> OpenAIChats(conversation[k])])

\* Ollama has no ids and no absent content: the nth call of a turn and the nth
\* tool message after it belong together.
OllamaChats(m) ==
  CASE m.role = "user" -> <<Chat("user", m.text, <<>>, None)>>
    [] m.role = "tool" ->
         [k \in 1..Len(m.results) |->
            Chat("tool", ToolContentText(m.results[k].content), <<>>, None)]
    [] m.role = "assistant" ->
         <<Chat("assistant", IF m.text = None THEN "" ELSE m.text,
                [k \in 1..Len(m.calls) |-> None], None)>>

ToOllamaMessages(system, conversation) ==
  (IF system = None THEN <<>> ELSE <<Chat("system", system, <<>>, None)>>)
    \o FlattenSeq([k \in 1..Len(conversation) |-> OllamaChats(conversation[k])])

(***************************************************************************)
(* Answers.  A block is a text of some pieces or a call whose arguments    *)
(* come in some pieces of JSON; no piece at all is an empty argument.      *)
(***************************************************************************)
Block == [type : {"text"}, pieces : 1..MaxPieces]
           \cup [type : {"tool_use"}, pieces : 0..MaxPieces]
Answers == SeqOf(Block, MaxBlocks)

\* Why the model stopped; the service always says.
StopReasons == {"end_turn", "tool_use", "max_tokens"}

Pieces(answer, k) == [j \in 1..answer[k].pieces |-> <<k, j>>]
Arguments(json) == IF json = <<>> THEN "{}" ELSE json

\* The newline that join puts between two text blocks; no piece of a block.
Break == <<0, 0>>

\* Mutant: the blocks are concatenated.
Joined_Bare(content, text) == content \o text

\* content so far and one more text block; <<>> is a content of None.  A text
\* block has a piece at least, which may be an empty string.
Joined(content, text) == IF content = <<>> THEN text ELSE content \o <<Break>> \o text

\* What convert_anthropic_response has taken from the answer after each block.
Converted(answer) ==
  LET after[k \in 0..Len(answer)] ==
        IF k = 0 THEN [content |-> <<>>, calls |-> <<>>]
        ELSE IF answer[k].type = "text"
             THEN [after[k - 1] EXCEPT !.content = Joined(@, Pieces(answer, k))]
             ELSE [after[k - 1] EXCEPT !.calls = Append(@, <<k, Arguments(Pieces(answer, k))>>)]
  IN  after

\* The stop reason goes through unchanged.
ConvertAnthropicResponse(answer, reason) ==
  LET all == Converted(answer)[Len(answer)] IN
  [content |-> all.content, calls |-> all.calls, reason |-> reason]

\* The body of the streamed answer, as the service sends it: external.  Byte i of
\* a line is <<line, i>>; the last one is the newline.
Line(type, of) == [type |-> type, of |-> of]
LineOf(type, of) == [i \in 1..LineBytes |-> <<Line(type, of), i>>]

DeltaLines(answer, k) ==
  LET type == IF answer[k].type = "text" THEN "text_delta" ELSE "json_delta"
      upto[j \in 0..answer[k].pieces] ==
        IF j = 0 THEN <<>> ELSE upto[j - 1] \o LineOf(type, <<k, j>>)
  IN  upto

BlockLines(answer, k) ==
  LineOf("ping", k) \o LineOf(IF answer[k].type = "text" THEN "text_start" ELSE "tool_start", k)
    \o DeltaLines(answer, k)[answer[k].pieces] \o LineOf("block_stop", k)

BlocksLines(answer) ==
  LET upto[k \in 0..Len(answer)] ==
        IF k = 0 THEN <<>> ELSE upto[k - 1] \o BlockLines(answer, k)
  IN  upto

StreamBytes(answer, reason) ==
  BlocksLines(answer)[Len(answer)]
    \o LineOf("message_delta", reason)
    \o LineOf("message_stop", None)

\* A line that lost a byte is no event.
Event(bytes) == IF Len(bytes) = LineBytes THEN bytes[1][1] ELSE Line("noise", None)

Closed == [buffer |-> <<>>, tool |-> <<>>, sent |-> <<>>, open |-> FALSE]
Listening == [Closed EXCEPT !.open = TRUE]

Send(d, chunk) == [d EXCEPT !.sent = Append(@, chunk)]

\* stream_complete: one line of the body.
OnLine(d, line) ==
  CASE line.type = "tool_start" -> [d EXCEPT !.tool = <<[id |-> line.of, json |-> <<>>]>>]
    [] line.type = "text_delta" -> Send(d, <<"text", line.of>>)
    [] line.type = "json_delta" /\ d.tool # <<>> ->
         [d EXCEPT !.tool = <<[id |-> @[1].id, json |-> Append(@[1].json, line.of)]>>]
    [] line.type = "block_stop" /\ d.tool # <<>> ->
         [Send(d, <<"call", <<d.tool[1].id, Arguments(d.tool[1].json)>>>>) EXCEPT !.tool = <<>>]
    [] line.type = "message_delta" -> Send(d, <<"reason", line.of>>)
    [] line.type = "message_stop" -> [d EXCEPT !.open = FALSE]
    [] line.type = "error" -> [Send(d, <<"error", None>>) EXCEPT !.open = FALSE]
    [] OTHER -> d

OnByte(d, byte) ==
  LET line == Append(d.buffer, byte) IN
  IF ~d.open THEN d
  ELSE IF byte[2] = LineBytes THEN OnLine([d EXCEPT !.buffer = <<>>], Event(line))
  ELSE [d EXCEPT !.buffer = line]

\* The decoder after each of the bytes.
Reading(d, bytes) ==
  LET read[k \in 0..Len(bytes)] == IF k = 0 THEN d ELSE OnByte(read[k - 1], bytes[k])
  IN  read

\* Mutant: the bytes after the last newline of a chunk are dropped.
OnChunk_Fresh(d, bytes) == Reading([d EXCEPT !.buffer = <<>>], bytes)[Len(bytes)]

\* stream_complete: one network chunk; what follows its last newline is kept.
OnChunk(d, bytes) == Reading(d, bytes)[Len(bytes)]

\* The decoder after each of the chunks.
Receiving(chunks) ==
  LET after[k \in 0..Len(chunks)] ==
        IF k = 0 THEN Listening ELSE OnChunk(after[k - 1], chunks[k])
  IN  after

Decode(chunks) == Receiving(chunks)[Len(chunks)]

(***************************************************************************)
(* Answers of the other two providers: one message, a text and calls.      *)
(***************************************************************************)
ChatReplies == [text : Said, pieces : SeqOf(0..1, MaxBlocks)]

\* convert_openai_response: the first choice; no choice is an error.
ConvertOpenAIResponse(choices) ==
  IF choices = <<>> THEN "invalid"
  ELSE [content |-> choices[1].text,
        calls   |-> [k \in 1..Len(choices[1].pieces) |->
                       <<k, Arguments([j \in 1..choices[1].pieces[k] |-> <<k, j>>])>>]]

\* convert_ollama_response: an empty text is none, and each call gets a fresh id.
ConvertOllamaResponse(message) ==
  [content |-> IF message.text \in {None, ""} THEN None ELSE message.text,
   calls   |-> [k \in 1..Len(message.pieces) |->
                  <<k, Arguments([j \in 1..message.pieces[k] |-> <<k, j>>])>>]]

\* single_chunk_stream: the whole answer as the only chunk of a stream.
SingleChunkStream(response) ==
  <<[content |-> response.content,
     calls   |-> IF response.calls = <<>> THEN <<None>> ELSE response.calls]>>

(***************************************************************************)
(* What the summarizer is asked, where every part has the size n.          *)
(***************************************************************************)
\* truncated: a part that is too long ends with a note of what is missing.  A
\* result is written without its id: here the id stands for its text.
Part(what, n) ==
  [what |-> what, kept |-> Min({n, MaxRendered}), missing |-> n - Min({n, MaxRendered})]

\* Mutant: a batch is rendered as its first call.
RenderMessage_FirstCall(m, n) ==
  CASE m.role = "user" -> <<Part(<<"user">>, n)>>
    [] m.role = "tool" -> [k \in 1..Len(m.results) |-> Part(<<"result", m.results[k].id>>, n)]
    [] m.role = "assistant" -> <<Part(<<"call", m.calls[1]>>, n)>>

\* render_message_into.
RenderMessage(m, n) ==
  CASE m.role = "user" -> <<Part(<<"user">>, n)>>
    [] m.role = "tool" -> [k \in 1..Len(m.results) |-> Part(<<"result", m.results[k].id>>, n)]
    [] m.role = "assistant" ->
         [k \in 1..Len(Texts(m.text)) |-> Part(<<"assistant">>, n)]
           \o [k \in 1..Len(m.calls) |-> Part(<<"call", m.calls[k]>>, n)]

RenderForSummary(conversation, cutoff, n) ==
  FlattenSeq([k \in 1..cutoff |-> RenderMessage(conversation[k], n)])

(***************************************************************************)
(* Properties.                                                             *)
(***************************************************************************)
Ids(content, type) ==
  FlattenSeq([k \in 1..Len(content) |->
                IF content[k].type = type THEN <<content[k].id>> ELSE <<>>])

\* Roles alternate from the user on, no block is an empty text, and the calls of
\* a turn are answered by the next one.
AnthropicAccepts(request) ==
  /\ request[1].role = "user" /\ Last(request).role = "user"
  /\ \A k \in 1..Len(request) :
       /\ request[k].content # <<>>
       /\ k > 1 => request[k].role # request[k - 1].role
       /\ \A b \in ToSet(request[k].content) : b.type = "text" => b.text \notin {None, ""}
       /\ Ids(request[k].content, "tool_result") =
            IF k = 1 THEN <<>> ELSE Ids(request[k - 1].content, "tool_use")

\* The tool messages are those right after a turn with calls, one for each.
ChatAccepts(request, named) ==
  /\ request[1].role = "system"
  /\ \A k \in 1..Len(request) :
       LET n == Len(request[k].calls) IN
       /\ k + n <= Len(request)
       /\ \A j \in 1..n :
            /\ request[k + j].role = "tool"
            /\ named => request[k + j].id = request[k].calls[j]
       /\ n > 0 /\ k + n < Len(request) => request[k + n + 1].role # "tool"
       /\ request[k].role = "tool" => request[k - 1].role \in {"tool", "assistant"}

RequestFaithful ==
  InFlight =>
    \A said \in Said, parts \in Contents :
      LET conversation == ToMessages(said, parts) IN
      /\ AnthropicAccepts(AnthropicMessages(conversation))
      /\ ChatAccepts(ToOpenAIMessages("prompt", conversation), TRUE)
      /\ ChatAccepts(ToOllamaMessages("prompt", conversation), FALSE)

\* The summarizer is told of every call of the turns it replaces, together with the
\* result, of nothing else, and how much of each part is missing.
SummaryFaithful ==
  pc = "summary" =>
    \A said \in Said, n \in 0..(MaxRendered + 1) :
      LET conversation == ToMessages(said, <<"text">>)
          prompt == RenderForSummary(conversation, PickCutoff, n)
          told(kind) == {c \in Call : \E k \in DOMAIN prompt : prompt[k].what = <<kind, c>>}
          replaced == UNION {ToSet(messages[k].calls) : k \in 1..PickCutoff} IN
      /\ told("call") = replaced /\ told("result") = replaced
      /\ \A k \in DOMAIN prompt : /\ prompt[k].kept <= MaxRendered
                                  /\ prompt[k].kept + prompt[k].missing = n

\* What was sent of a kind, in order.
Of(kind, sent) ==
  LET upto[k \in 0..Len(sent)] ==
        IF k = 0 THEN <<>>
        ELSE IF sent[k][1] = kind THEN Append(upto[k - 1], sent[k][2]) ELSE upto[k - 1]
  IN  upto[Len(sent)]

\* A text without the newlines that join its blocks.
Unbroken(text) ==
  LET upto[k \in 0..Len(text)] ==
        IF k = 0 THEN <<>>
        ELSE IF text[k] = Break THEN upto[k - 1] ELSE Append(upto[k - 1], text[k])
  IN  upto[Len(text)]

OneText(answer) ==
  \A j, k \in DOMAIN answer : answer[j].type = "text" /\ answer[k].type = "text" => j = k

\* A body in three chunks, the last of which may be missing.
Cut(bytes, i, j) == <<SubSeq(bytes, 1, i), SubSeq(bytes, i + 1, j)>>

AnswerFaithful ==
  \A answer \in Answers, reason \in StopReasons :
    LET whole == ConvertAnthropicResponse(answer, reason)
        bytes == StreamBytes(answer, reason)
        n == Len(bytes)
        sent == Decode(<<bytes>>).sent IN
    /\ Of("text", sent) = Unbroken(whole.content)
    /\ Of("text", sent) = whole.content <=> OneText(answer)
    /\ Of("call", sent) = whole.calls
    /\ Of("reason", sent) = <<whole.reason>>
    /\ \A i \in 0..n, j \in 0..n : i <= j =>
         LET cut == Decode(Cut(bytes, i, j)).sent IN
         /\ IsPrefix(cut, sent)
         /\ Decode(Append(Cut(bytes, i, j), SubSeq(bytes, j + 1, n))).sent = sent
         /\ Of("reason", cut) # <<>> => cut = sent

Turn(response) ==
  [role |-> "assistant", text |-> response.content, calls |-> response.calls,
   results |-> <<>>]

\* What an answer is recorded as goes back to the provider as it came.
EchoFaithful ==
  \A reply \in ChatReplies :
    LET openai == ConvertOpenAIResponse(<<reply>>)
        ollama == ConvertOllamaResponse(reply)
        echo == OllamaChats(Turn(ollama))[1] IN
    /\ OpenAIChats(Turn(openai)) = <<Chat("assistant", reply.text, openai.calls, None)>>
    /\ Len(openai.calls) = Len(reply.pieces)
    /\ echo.content = (IF reply.text = None THEN "" ELSE reply.text)
    /\ Len(echo.calls) = Len(reply.pieces) /\ IsInjective(ollama.calls)
    /\ reply.pieces # <<>> =>
         SingleChunkStream(ollama) = <<[content |-> ollama.content, calls |-> ollama.calls]>>

\* Whatever was compacted, denied or interrupted, each provider is sent a request
\* its API accepts, in which every call and its result find each other, by id or by
\* order; and an answer streamed in chunks cut anywhere, or broken off, gives the
\* calls, the stop reason and the text the unstreamed answer gives, or the first
\* of them, but for the newlines that join two text blocks, which are only in the
\* unstreamed text; and a synopsis is asked for of whole turns (build_request,
\* to_openai_messages, to_ollama_messages, stream_complete, render_for_summary,
\* convert_openai_response, convert_ollama_response).
WireFaithful == RequestFaithful /\ AnswerFaithful /\ EchoFaithful /\ SummaryFaithful

\* Whatever the servers are called, whatever they offer and whichever of them is
\* up: a name a request offers to the model is one a provider takes and reaches
\* the first tool found under it, so a built-in tool is never replaced and no tool
\* with a name of its own is lost; an agent's scope only narrows this; and a policy
\* decides on the tool the name reaches (discover_tools, register, subset, decide).
NamesReachTools == InFlight => EveryNameReachesItsTool
=============================================================================
