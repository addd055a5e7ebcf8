------------------------------ MODULE AgentLoop -----------------------------
(***************************************************************************)
(* One run of an agent: the conversation it keeps, the requests it sends   *)
(* to the model, the batches of tool calls it executes, the compaction of  *)
(* older turns and cancellation (boitata-agent/src/lib.rs, boitata-core    *)
(* context/mod.rs and context/compact.rs).                                 *)
(*                                                                         *)
(* A message is abstracted to its role, the calls it asks for or answers,  *)
(* and the numbers of the messages of the conversation it stands for: its  *)
(* own, or those of the prefix a synopsis replaces.  A poll of a biased    *)
(* select! is one step; cancellation comes from another thread, between    *)
(* any two steps.                                                          *)
(***************************************************************************)
EXTENDS Integers, Sequences, FiniteSets, FiniteSetsExt

CONSTANTS
  MaxIterations,  \* task.max_iterations
  KeepRecent,     \* KEEP_RECENT_MESSAGES
  MaxBatch        \* model bound: tool calls of one answer

ASSUME AgentAssumption ==
  MaxIterations \in Nat /\ KeepRecent \in Nat /\ MaxBatch \in Nat

VARIABLES
  messages,   \* Context.messages
  iteration,  \* completed rounds of the loop
  pc,         \* what the run is doing or waiting for
  cancelled,  \* the run's CancellationToken
  outcome,    \* how the run ended
  late        \* history: tool calls begun after the cancellation

vars == <<messages, iteration, pc, cancelled, outcome, late>>

At == {"top", "summary", "request", "model", "tools", "tool", "batch", "over"}
Outcome == {"none", "success", "error", "cancelled", "max"}
Call == (1..MaxIterations) \X (1..MaxBatch)
Message == [role  : {"user", "assistant", "tool"},
            calls : Seq(Call),
            of    : SUBSET (1..(2 * MaxIterations + 1))]

\* The type of the state; rounds stay within the budget of the task.
TypeOK ==
  /\ messages \in Seq(Message) /\ messages # <<>>
  /\ iteration \in 0..MaxIterations
  /\ pc \in At
  /\ cancelled \in BOOLEAN
  /\ outcome \in Outcome /\ (outcome # "none" <=> pc = "over")
  /\ late \in Nat

Final == messages[Len(messages)]

\* Messages spoken before the current round, and its assistant turn.
Asked == 2 * iteration + 1
Reply == Asked + 1

Init ==
  /\ messages = <<[role |-> "user", calls |-> <<>>, of |-> {1}]>>
  /\ iteration = 0
  /\ pc = "top"
  /\ cancelled = FALSE
  /\ outcome = "none"
  /\ late = 0

Finish(how) == pc' = "over" /\ outcome' = how

Cancel ==
  /\ pc # "over" /\ ~cancelled
  /\ cancelled' = TRUE
  /\ UNCHANGED <<messages, iteration, pc, outcome, late>>

(***************************************************************************)
(* Compaction.  A cutoff of 0 is the None of pick_cutoff.                  *)
(***************************************************************************)
Cutoffs ==
  {c \in 0..(Len(messages) - 1) :
     c >= Len(messages) - KeepRecent /\ messages[c + 1].role = "assistant"}

\* Mutant: the cutoff is where the suffix of KeepRecent messages begins.
PickCutoff_Unsnapped ==
  IF Len(messages) <= KeepRecent \/ Len(messages) - KeepRecent < 2
  THEN 0 ELSE Len(messages) - KeepRecent

\* Mutant: the cutoff is searched from the end of the conversation.
PickCutoff_Last ==
  IF Len(messages) <= KeepRecent \/ Cutoffs = {} \/ Max(Cutoffs) < 2
  THEN 0 ELSE Max(Cutoffs)

PickCutoff ==
  IF Len(messages) <= KeepRecent \/ Cutoffs = {} \/ Min(Cutoffs) < 2
  THEN 0 ELSE Min(Cutoffs)

\* Mutant: the synopsis is made of the messages after an earlier synopsis only.
ApplySummary_Anew(cutoff) ==
  <<[role  |-> "user",
     calls |-> <<>>,
     of    |-> UNION {messages[k].of : k \in 2..cutoff}]>>
    \o SubSeq(messages, cutoff + 1, Len(messages))

ApplySummary(cutoff) ==
  <<[role  |-> "user",
     calls |-> <<>>,
     of    |-> UNION {messages[k].of : k \in 1..cutoff}]>>
    \o SubSeq(messages, cutoff + 1, Len(messages))

MoreIterations == iteration < MaxIterations

\* Usage is below the threshold, there is nothing worth a summary, or the run is
\* cancelled when it would ask for one.
SkipCompaction ==
  /\ pc = "top" /\ MoreIterations
  /\ pc' = "request"
  /\ UNCHANGED <<messages, iteration, cancelled, outcome, late>>

AskSummary ==
  /\ pc = "top" /\ MoreIterations
  /\ PickCutoff # 0 /\ ~cancelled
  /\ pc' = "summary"
  /\ UNCHANGED <<messages, iteration, cancelled, outcome, late>>

Summarized ==
  /\ pc = "summary" /\ ~cancelled
  /\ messages' = ApplySummary(PickCutoff)
  /\ pc' = "request"
  /\ UNCHANGED <<iteration, cancelled, outcome, late>>

\* The summarizer fails or answers nothing, or the run is cancelled first.
SummaryAbandoned ==
  /\ pc = "summary"
  /\ pc' = "request"
  /\ UNCHANGED <<messages, iteration, cancelled, outcome, late>>

(***************************************************************************)
(* The call of the model.                                                  *)
(***************************************************************************)
SendRequest ==
  /\ pc = "request" /\ ~cancelled
  /\ pc' = "model"
  /\ UNCHANGED <<messages, iteration, cancelled, outcome, late>>

\* Mutant: the call of the model is awaited without looking at the token.
CancelledAtModel_Unraced ==
  /\ pc = "request" /\ cancelled
  /\ Finish("cancelled")
  /\ UNCHANGED <<messages, iteration, cancelled, late>>

CancelledAtModel ==
  /\ pc \in {"request", "model"} /\ cancelled
  /\ Finish("cancelled")
  /\ UNCHANGED <<messages, iteration, cancelled, late>>

ModelFails ==
  /\ pc = "model" /\ ~cancelled
  /\ Finish("error")
  /\ UNCHANGED <<messages, iteration, cancelled, late>>

ModelIsDone ==
  /\ pc = "model" /\ ~cancelled
  /\ Finish("success")
  /\ UNCHANGED <<messages, iteration, cancelled, late>>

ModelCalls ==
  /\ pc = "model" /\ ~cancelled
  /\ \E n \in 1..MaxBatch :
       messages' = Append(messages,
         [role  |-> "assistant",
          calls |-> [k \in 1..n |-> <<iteration + 1, k>>],
          of    |-> {Reply}])
  /\ pc' = "tools"
  /\ UNCHANGED <<iteration, cancelled, outcome, late>>

(***************************************************************************)
(* A batch of tool calls.                                                  *)
(***************************************************************************)
Results == IF Final.role = "tool" THEN Final.calls ELSE <<>>
Batch == messages[IF Final.role = "tool" THEN Len(messages) - 1
                  ELSE Len(messages)].calls
NextCall == Batch[Len(Results) + 1]

AddToolResult(call) ==
  IF Final.role = "tool"
  THEN [messages EXCEPT ![Len(messages)].calls = Append(@, call)]
  ELSE Append(messages,
              [role |-> "tool", calls |-> <<call>>, of |-> {Reply + 1}])

\* Mutant: the rest of a batch is executed after a cancellation.
AfterResult_Unchecked ==
  IF Len(Results) + 1 = Len(Batch) THEN "batch" ELSE "tools"

\* After a result: no further call once the run is cancelled.
AfterResult ==
  IF cancelled \/ Len(Results) + 1 = Len(Batch) THEN "batch" ELSE "tools"

Denied ==
  /\ pc = "tools"
  /\ messages' = AddToolResult(NextCall)
  /\ pc' = AfterResult
  /\ UNCHANGED <<iteration, cancelled, outcome, late>>

StartTool ==
  /\ pc = "tools"
  /\ pc' = "tool"
  /\ late' = IF cancelled THEN late + 1 ELSE late
  /\ UNCHANGED <<messages, iteration, cancelled, outcome>>

ToolReturns ==
  /\ pc = "tool"
  /\ messages' = AddToolResult(NextCall)
  /\ pc' = AfterResult
  /\ UNCHANGED <<iteration, cancelled, outcome, late>>

BatchDone ==
  /\ pc = "batch"
  /\ IF cancelled
     THEN Finish("cancelled") /\ UNCHANGED iteration
     ELSE pc' = "top" /\ iteration' = iteration + 1 /\ UNCHANGED outcome
  /\ UNCHANGED <<messages, cancelled, late>>

OutOfIterations ==
  /\ pc = "top" /\ ~MoreIterations
  /\ Finish("max")
  /\ UNCHANGED <<messages, iteration, cancelled, late>>

(***************************************************************************)
(* The specification.                                                      *)
(***************************************************************************)
Compact == SkipCompaction \/ AskSummary \/ Summarized \/ SummaryAbandoned
Converse == SendRequest \/ CancelledAtModel \/ ModelFails \/ ModelIsDone \/ ModelCalls
Execute == Denied \/ StartTool \/ ToolReturns \/ BatchDone
Next == Cancel \/ Compact \/ Converse \/ Execute \/ OutOfIterations

Spec == Init /\ [][Next]_vars

\* The run is polled.  Nobody answers for sure: neither the model nor, before
\* its token is cancelled, a tool.
Unaided == SkipCompaction \/ SendRequest \/ CancelledAtModel \/ Denied
             \/ StartTool \/ BatchDone \/ OutOfIterations
WhenCancelled == cancelled /\ (SummaryAbandoned \/ ToolReturns)

FairSpec == Spec /\ WF_vars(Unaided) /\ WF_vars(WhenCancelled)

(***************************************************************************)
(* Properties.                                                             *)
(***************************************************************************)
InFlight == pc = "model"

Alternates ==
  /\ messages[1].role = "user"
  /\ \A k \in 2..Len(messages) :
       (messages[k].role = "assistant") # (messages[k - 1].role = "assistant")

\* Every call is answered by the very next message, in the order of the calls,
\* and nothing else is.
Paired ==
  /\ Final.role # "assistant"
  /\ \A k \in 2..Len(messages) :
       messages[k].role = "tool" => messages[k].calls = messages[k - 1].calls
  /\ \A k \in 2..Len(messages) : messages[k].role # "user"

\* A request in flight is one a strict provider accepts, after any number of
\* compactions, denied calls and interrupted batches (Context, apply_summary
\* and the two cancellation checks of run_with_cancel).
RequestWellFormed == InFlight => Alternates /\ Paired

\* A request stands for everything said so far, once and in order: a synopsis
\* covers exactly the messages it replaces, those of earlier synopses included
\* (maybe_compact, apply_summary).
NothingForgotten ==
  InFlight =>
    /\ UNION {messages[k].of : k \in 1..Len(messages)} = 1..Asked
    /\ \A j, k \in 1..Len(messages) :
         j < k => \A a \in messages[j].of, b \in messages[k].of : a < b

\* Compaction leaves the last KeepRecent messages word for word, but for the
\* one it may give up to begin on an assistant turn (pick_cutoff).
RecentIsVerbatim ==
  InFlight =>
    \A n \in 1..Asked :
      n > Asked - KeepRecent + 1 => \E k \in 1..Len(messages) : messages[k].of = {n}

\* A cancelled run begins at most one more tool call: the one whose turn had
\* come before the token was looked at again (run_with_cancel).
CancelStopsSoon == late <= 1

\* A cancelled run ends, whatever the model, the summarizer or a tool does
\* (the selects of run_with_cancel and maybe_compact).
CancelEnds == cancelled ~> pc = "over"
=============================================================================
