----------------------------- MODULE EventStream ----------------------------
(***************************************************************************)
(* How the events of a server run reach a watcher: the run's               *)
(* ChannelAuditSink (boitata-server events.rs), one SSE stream over it     *)
(* (api.rs run_events), the run's last steps (record_outcome, FinishGuard) *)
(* and a CLI that tails the stream and then asks for the result            *)
(* (boitata-cli remote.rs).                                                *)
(*                                                                         *)
(* The run is one task, so its records are not concurrent with each other; *)
(* they are with the stream and the CLI, which run on other threads.  An   *)
(* event is its sequence number; the k-th event sent carries number k - 1. *)
(***************************************************************************)
EXTENDS Integers, SequencesExt

CONSTANTS
  Scripts,       \* the kinds of event, in order, that a run may emit
  MaxHistory,    \* MAX_HISTORY: the history is trimmed beyond MaxHistory +
  TrimBatch,     \* TRIM_BATCH entries, by TRIM_BATCH
  Capacity       \* of the broadcast channel

Kind == {"other", "run_completed", "blueprint_completed"}

ASSUME StreamAssumption ==
  /\ Scripts \subseteq Seq(Kind)
  /\ MaxHistory \in Nat /\ TrimBatch \in Nat \ {0} /\ Capacity \in Nat \ {0}

VARIABLES
  script,      \* what this run emits, unless it panics first
  seq,         \* ChannelAuditSink.seq
  recording,   \* how far the current record() is
  history,     \* ChannelAuditSink.history
  sent,        \* events sent to the broadcast channel
  status,      \* RunHandle.status
  finished,    \* RunHandle.finished
  reader,      \* where the SSE stream is
  rx,          \* its receiver: number of the next event it will look at
  snapshot,    \* the cloned history it has not yielded yet
  ended,       \* already_finished
  last,        \* last_seq, or -1
  delivered,   \* events yielded, in order
  lagged,      \* history: the receiver was overtaken
  heard,       \* events the CLI has read
  exit         \* how the CLI exits

run    == <<script, seq, recording, history, sent>>
ending == <<status, finished>>
stream == <<reader, rx, snapshot, ended, last, delivered, lagged>>
tail   == <<heard, exit>>
vars   == <<run, ending, stream, tail>>

RunStatus == {"running", "succeeded", "failed", "cancelled"}
ReaderAt == {"none", "subscribing", "looking", "replaying", "receiving",
             "empty", "parked", "draining", "closed"}

TypeOK ==
  /\ script \in Scripts
  /\ seq \in 0..Len(script)
  /\ recording \in {"no", "stamped", "pushed"}
  /\ history \in Seq(Nat)
  /\ sent \in 0..seq
  /\ status \in RunStatus
  /\ finished \in BOOLEAN
  /\ reader \in ReaderAt
  /\ rx \in Nat
  /\ snapshot \in Seq(Nat)
  /\ ended \in BOOLEAN
  /\ last \in Int
  /\ delivered \in Seq(Nat)
  /\ lagged \in BOOLEAN
  /\ heard \in 0..Len(delivered)
  /\ exit \in {"none", "ok", "cancelled", "failed"}

Init ==
  /\ script \in Scripts
  /\ seq = 0 /\ recording = "no" /\ history = <<>> /\ sent = 0
  /\ status = "running" /\ finished = FALSE
  /\ reader = "none" /\ rx = 0 /\ snapshot = <<>> /\ ended = FALSE
  /\ last = -1 /\ delivered = <<>> /\ lagged = FALSE
  /\ heard = 0 /\ exit = "none"

-----------------------------------------------------------------------------
(* ChannelAuditSink::record: stamp, push under the lock, send.             *)

Stamp ==
  /\ status = "running"
  /\ recording = "no"
  /\ seq < Len(script)
  /\ seq' = seq + 1
  /\ recording' = "stamped"
  /\ UNCHANGED <<script, history, sent, ending, stream, tail>>

\* Mutant: the newest events are dropped instead of the oldest.
Trimmed_Newest(h) ==
  IF Len(h) > MaxHistory + TrimBatch THEN SubSeq(h, 1, Len(h) - TrimBatch) ELSE h

Trimmed(h) ==
  IF Len(h) > MaxHistory + TrimBatch THEN SubSeq(h, TrimBatch + 1, Len(h)) ELSE h

Push ==
  /\ recording = "stamped"
  /\ history' = Trimmed(Append(history, seq - 1))
  /\ recording' = "pushed"
  /\ UNCHANGED <<script, seq, sent, ending, stream, tail>>

Send ==
  /\ recording = "pushed"
  /\ sent' = sent + 1
  /\ recording' = "no"
  /\ UNCHANGED <<script, seq, history, ending, stream, tail>>

-----------------------------------------------------------------------------
(* The end of run_job.                                                     *)

\* The run returned and its outcome is written.
RecordOutcome ==
  /\ status = "running"
  /\ recording = "no"
  /\ seq = Len(script)
  /\ status' \in {"succeeded", "failed", "cancelled"}
  /\ UNCHANGED <<finished, run, stream, tail>>

\* FinishGuard::drop on the unwind path of a run that panicked.
TaskPanics ==
  /\ status = "running"
  /\ recording = "no"
  /\ status' = "failed"
  /\ UNCHANGED <<finished, run, stream, tail>>

Decided == status # "running"

\* FinishGuard::drop fires the token in every case.
Finish ==
  /\ Decided
  /\ ~finished
  /\ finished' = TRUE
  /\ UNCHANGED <<status, run, stream, tail>>

-----------------------------------------------------------------------------
(* run_events.                                                             *)

\* Mutant: the history is cloned before the receiver exists.
Attach_Swapped(n) ==
  IF n = 1 THEN snapshot' = history /\ UNCHANGED rx
           ELSE rx' = sent /\ UNCHANGED snapshot

\* Subscribe, then snapshot.
Attach(n) ==
  IF n = 1 THEN rx' = sent /\ UNCHANGED snapshot
           ELSE snapshot' = history /\ UNCHANGED rx

Subscribe ==
  /\ reader = "none"
  /\ reader' = "subscribing"
  /\ Attach(1)
  /\ UNCHANGED <<run, ending, ended, last, delivered, lagged, tail>>

Snapshot ==
  /\ reader = "subscribing"
  /\ reader' = "looking"
  /\ Attach(2)
  /\ UNCHANGED <<run, ending, ended, last, delivered, lagged, tail>>

LookFinished ==
  /\ reader = "looking"
  /\ reader' = "replaying"
  /\ ended' = finished
  /\ UNCHANGED <<run, ending, rx, snapshot, last, delivered, lagged, tail>>

Replay ==
  /\ reader = "replaying"
  /\ snapshot # <<>>
  /\ last' = Head(snapshot)
  /\ delivered' = Append(delivered, Head(snapshot))
  /\ snapshot' = Tail(snapshot)
  /\ UNCHANGED <<run, ending, reader, rx, ended, lagged, tail>>

Replayed ==
  /\ reader = "replaying"
  /\ snapshot = <<>>
  /\ reader' = IF ended THEN "closed" ELSE "receiving"
  /\ UNCHANGED <<run, ending, rx, snapshot, ended, last, delivered, lagged, tail>>

\* The receiver was overtaken by more than the channel keeps.
Overtaken == rx + Capacity < sent

\* Mutant: the comparison is off by one.
Fresh_OffByOne == rx > last + 1

\* The dedupe by sequence number.
Fresh == rx > last

\* Take the next event from the channel.
Take ==
  /\ ~Overtaken
  /\ rx < sent
  /\ rx' = rx + 1
  /\ last' = IF Fresh THEN rx ELSE last
  /\ delivered' = IF Fresh THEN Append(delivered, rx) ELSE delivered

\* The receiver is moved to the oldest event the channel still holds.
SkipLost ==
  /\ Overtaken
  /\ rx' = sent - Capacity
  /\ lagged' = TRUE

\* The biased select! polls recv first: an event, a lag (continue), or nothing.
Recv ==
  /\ reader = "receiving"
  /\ \/ Take /\ UNCHANGED <<reader, lagged>>
     \/ SkipLost /\ UNCHANGED <<reader, last, delivered>>
     \/ /\ rx = sent
        /\ reader' = "empty"
        /\ UNCHANGED <<rx, last, delivered, lagged>>
  /\ UNCHANGED <<run, ending, snapshot, ended, tail>>

\* ... and the token second.
PollFinished ==
  /\ reader = "empty"
  /\ reader' = IF finished THEN "draining" ELSE "parked"
  /\ UNCHANGED <<run, ending, rx, snapshot, ended, last, delivered, lagged, tail>>

\* Mutant: only an event wakes the stream.
Awake_EventOnly == rx < sent

Awake == rx < sent \/ finished

Wake ==
  /\ reader = "parked"
  /\ Awake
  /\ reader' = "receiving"
  /\ UNCHANGED <<run, ending, rx, snapshot, ended, last, delivered, lagged, tail>>

\* while let Ok(ev) = rx.try_recv(): a lag ends the loop as emptiness does.
Drain ==
  /\ reader = "draining"
  /\ \/ Take /\ UNCHANGED <<reader, lagged>>
     \/ SkipLost /\ reader' = "closed" /\ UNCHANGED <<last, delivered>>
     \/ /\ rx = sent
        /\ reader' = "closed"
        /\ UNCHANGED <<rx, last, delivered, lagged>>
  /\ UNCHANGED <<run, ending, snapshot, ended, tail>>

-----------------------------------------------------------------------------
(* remote.rs run.                                                          *)

Asking == /\ heard > 0
          /\ script[delivered[heard] + 1] \in {"run_completed", "blueprint_completed"}

\* Read one event; a terminal one ends the loop.
Hear ==
  /\ exit = "none"
  /\ ~Asking
  /\ heard < Len(delivered)
  /\ heard' = heard + 1
  /\ UNCHANGED <<run, ending, stream, exit>>

\* After a terminal event or the end of the stream, GET the run and exit.
Ask ==
  /\ exit = "none"
  /\ Asking \/ (heard = Len(delivered) /\ reader = "closed")
  /\ exit' = CASE status = "succeeded" -> "ok"
               [] status = "cancelled" -> "cancelled"
               [] OTHER                -> "failed"
  /\ UNCHANGED <<run, ending, stream, heard>>

-----------------------------------------------------------------------------
Record == Stamp \/ Push \/ Send
RunEnds == RecordOutcome \/ TaskPanics \/ Finish
Stream == \/ Subscribe \/ Snapshot \/ LookFinished \/ Replay \/ Replayed
          \/ Recv \/ PollFinished \/ Wake \/ Drain
Client == Hear \/ Ask

Next == Record \/ RunEnds \/ Stream \/ Client

Spec == Init /\ [][Next]_vars

\* The server's runtime polls the stream while the connection is open.
FairSpec == Spec /\ WF_vars(Stream)

-----------------------------------------------------------------------------
\* The history holds the latest stamped events, in order and without a hole,
\* and no more of them than the cap (record, MAX_HISTORY, TRIM_BATCH).
HistoryIsRecent ==
  LET pushed == IF recording = "stamped" THEN seq - 1 ELSE seq
      n == Len(history)
  IN  /\ n <= MaxHistory + TrimBatch
      /\ n >= (IF pushed < MaxHistory THEN pushed ELSE MaxHistory)
      /\ \A i \in 1..n : history[i] = pushed - n + i - 1

\* No watcher sees an event twice or out of order, whatever the overlap of
\* replayed and live events ("removed by the seq dedupe"), and none slips through
\* the gap between subscribing and the snapshot: a stream that was never
\* overtaken shows consecutive events (run_events).
InOrder ==
  \A i \in 1..(Len(delivered) - 1) :
    /\ delivered[i] < delivered[i + 1]
    /\ ~lagged => delivered[i + 1] = delivered[i] + 1

\* A stream that closes has nothing more to tell: having gone live without being
\* overtaken it showed the last event of the run, also when the run ended while
\* it was being polled, and the outcome can be asked for, on the panic path too
\* (run_events, FinishGuard).
CloseIsFinal ==
  reader = "closed" =>
    /\ ~lagged /\ ~ended => last = sent - 1
    /\ status # "running"

\* A finished run's streams close (run_events), however late they subscribed.
FinishedCloses == (finished /\ reader # "none") ~> reader = "closed"

-----------------------------------------------------------------------------
(* Statements of the repository the code does not keep.                    *)

\* "If the run already ended, the history above is complete -- stop."
\* (run_events): what was replayed to a stream that stops there is everything.
ReplayIsComplete == reader = "closed" /\ ended => last = sent - 1

\* The CLI "prints the final result" (remote.rs): when it asks for the result
\* the run has one.
AsksForFinalResult == exit = "failed" => status # "running"
=============================================================================
