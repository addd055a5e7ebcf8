-------------------------- MODULE EventStreamProofs -------------------------
(***************************************************************************)
(* Proofs about EventStream for every script of a run, length of the kept  *)
(* history and capacity of the channel: no watcher sees an event twice or  *)
(* out of order, and a stream that closes has told everything.             *)
(***************************************************************************)
EXTENDS EventStream, SequenceTheorems, TLAPS

Live == {"receiving", "empty", "parked", "draining", "closed"}

\* How many events have reached the history.
Pushed == IF recording = "stamped" THEN seq - 1 ELSE seq

\* An event reaches the history before the channel; a decided run records no more.
RecordInv ==
  /\ sent = (IF recording = "no" THEN seq ELSE seq - 1)
  /\ recording # "no" => status = "running"
  /\ finished => status # "running"

HistoryInv == HistoryIsRecent /\ (Pushed > 0 => history # <<>>)

\* What is left to replay runs up to the receiver's first event or beyond it, and
\* goes on where what was replayed stops.
ReplayInv ==
  LET n == Len(snapshot)
  IN  /\ ~lagged
      /\ n = 0 => last >= rx - 1
      /\ n > 0 => /\ snapshot[n] >= rx - 1 /\ snapshot[n] < Pushed
                  /\ delivered # <<>> => snapshot[1] = last + 1
      /\ \A i \in 1..n : snapshot[i] = snapshot[n] - n + i

\* The receiver never runs ahead of what was told, unless it was overtaken.
ReaderInv ==
  /\ rx <= sent
  /\ reader \in {"none", "subscribing"} =>
       snapshot = <<>> /\ delivered = <<>> /\ ~lagged /\ ~ended
  /\ reader \in {"looking", "replaying"} => ReplayInv
  /\ reader \in Live /\ ~lagged => last >= rx - 1
  /\ last < Pushed
  /\ last = (IF delivered = <<>> THEN -1 ELSE delivered[Len(delivered)])
  /\ InOrder

\* The token is fired before a stream sees the end, and nothing is sent after.
EndInv ==
  /\ ended => finished
  /\ reader = "draining" => finished
  /\ CloseIsFinal

StreamInv == TypeOK /\ RecordInv /\ HistoryInv /\ ReaderInv /\ EndInv

-----------------------------------------------------------------------------
(* The run.                                                                *)

LEMMA Parameters ==
  /\ script \in Scripts => Len(script) \in Nat
  /\ MaxHistory \in Nat /\ TrimBatch \in Nat /\ TrimBatch > 0
  /\ Capacity \in Nat /\ Capacity > 0
BY StreamAssumption

\* Trimming keeps the newest events, at least one of them and MAX_HISTORY of them.
LEMMA TrimmedIsRecent ==
  ASSUME NEW h \in Seq(Nat), NEW e \in Nat, Len(h) <= MaxHistory + TrimBatch,
         \A i \in 1..Len(h) : h[i] = e - Len(h) + i - 1,
         Len(h) >= (IF e < MaxHistory THEN e ELSE MaxHistory)
  PROVE  LET t == Trimmed(Append(h, e))
             n == Len(t)
         IN  /\ t \in Seq(Nat) /\ t # <<>>
             /\ n <= MaxHistory + TrimBatch
             /\ n >= (IF e + 1 < MaxHistory THEN e + 1 ELSE MaxHistory)
             /\ \A i \in 1..n : t[i] = (e + 1) - n + i - 1
<1> DEFINE a == Append(h, e)
           t == Trimmed(a)
<1>1. /\ a \in Seq(Nat) /\ Len(a) = Len(h) + 1 /\ Len(h) \in Nat
      /\ \A i \in 1..Len(a) : a[i] = (e + 1) - Len(a) + i - 1
  OBVIOUS
<1>2. CASE Len(a) > MaxHistory + TrimBatch
  <2>1. t = SubSeq(a, TrimBatch + 1, Len(a))
    BY <1>2 DEF Trimmed
  <2>2. /\ t \in Seq(Nat) /\ Len(t) = Len(a) - TrimBatch
        /\ \A i \in 1..Len(t) : t[i] = a[i + TrimBatch]
    <3>1. TrimBatch + 1 \in Int /\ Len(a) \in Int /\ TrimBatch + 1 <= Len(a)
          /\ \A i \in (TrimBatch + 1)..Len(a) : a[i] \in Nat
      BY <1>1, <1>2, Parameters
    <3>2. LET u == SubSeq(a, TrimBatch + 1, Len(a))
          IN  /\ u \in Seq(Nat)
              /\ Len(u) = IF TrimBatch + 1 <= Len(a) THEN Len(a) - (TrimBatch + 1) + 1 ELSE 0
              /\ \A i \in 1..(Len(a) - (TrimBatch + 1) + 1) : u[i] = a[TrimBatch + 1 + i - 1]
      <4> HIDE DEF a
      <4>1. QED
        BY <3>1, SubSeqProperties
    <3>3. Len(a) - (TrimBatch + 1) + 1 = Len(a) - TrimBatch
      BY <1>1, Parameters
    <3>4. \A i \in 1..(Len(a) - TrimBatch) : TrimBatch + 1 + i - 1 = i + TrimBatch
      BY <1>1, Parameters
    <3>5. t \in Seq(Nat) /\ Len(t) = Len(a) - TrimBatch
      BY <2>1, <3>1, <3>2, <3>3
    <3>6. ASSUME NEW i \in 1..(Len(a) - TrimBatch) PROVE t[i] = a[i + TrimBatch]
      <4>1. t[i] = a[TrimBatch + 1 + i - 1]
        BY <2>1, <3>2, <3>3
      <4>2. QED
        BY <3>4, <4>1
    <3>7. QED
      BY <3>5, <3>6
  <2>3. \A i \in 1..Len(t) : t[i] = (e + 1) - Len(t) + i - 1
    <3>1. TAKE i \in 1..Len(t)
    <3>2. i + TrimBatch \in 1..Len(a) /\ i \in Int
      <4>1. Len(a) \in Nat /\ Len(t) = Len(a) - TrimBatch /\ TrimBatch \in Nat
        BY <1>1, <2>2, Parameters
      <4> HIDE DEF a, t
      <4>2. QED
        BY <4>1
    <3>3. t[i] = (e + 1) - Len(a) + (i + TrimBatch) - 1
      BY <1>1, <2>2, <3>2
    <3>4. QED
      BY <1>1, <2>2, <3>2, <3>3, Parameters
  <2>4. Len(t) <= MaxHistory + TrimBatch /\ Len(t) >= MaxHistory /\ Len(t) > 0
    BY <1>1, <1>2, <2>2, Parameters
  <2>5. QED
    BY <2>2, <2>3, <2>4, Parameters
<1>3. CASE ~(Len(a) > MaxHistory + TrimBatch)
  <2>1. t = a
    BY <1>3 DEF Trimmed
  <2>2. QED
    BY <1>1, <1>3, <2>1, Parameters
<1>4. QED
  BY <1>2, <1>3

LEMMA InitStreamInv == Init => StreamInv
<1> SUFFICES ASSUME Init PROVE StreamInv
  OBVIOUS
<1>1. TypeOK
  <2>1. <<>> \in Seq(Nat) /\ Len(<<>>) = 0 /\ Len(script) \in Nat
    BY Parameters DEF Init
  <2>2. /\ script \in Scripts /\ seq \in 0..Len(script) /\ sent \in 0..seq /\ rx \in Nat
        /\ recording \in {"no", "stamped", "pushed"} /\ last \in Int
    BY <2>1 DEF Init
  <2>3. /\ status \in RunStatus /\ reader \in ReaderAt
        /\ exit \in {"none", "ok", "cancelled", "failed"}
        /\ finished \in BOOLEAN /\ ended \in BOOLEAN /\ lagged \in BOOLEAN
    BY DEF Init, RunStatus, ReaderAt
  <2>4. history \in Seq(Nat) /\ snapshot \in Seq(Nat) /\ delivered \in Seq(Nat)
        /\ heard \in 0..Len(delivered)
    BY <2>1 DEF Init
  <2>5. QED
    BY <2>2, <2>3, <2>4 DEF TypeOK
<1>2. RecordInv /\ HistoryInv
  BY Parameters DEF Init, RecordInv, HistoryInv, HistoryIsRecent, Pushed
<1>3. ReaderInv /\ EndInv
  BY Parameters DEF Init, ReaderInv, EndInv, CloseIsFinal, InOrder, Live, Pushed
<1>4. QED
  BY <1>1, <1>2, <1>3 DEF StreamInv

\* A reader that stands still: the run may go on meanwhile.
LEMMA ReaderStays ==
  ASSUME StreamInv, UNCHANGED stream,
         sent <= sent', Pushed <= Pushed', sent' \in Nat, Pushed' \in Nat,
         finished => finished', finished => sent' = sent,
         status # "running" => sent' = sent /\ status' # "running"
  PROVE  ReaderInv' /\ EndInv'
<1> USE DEF stream
<1>1. /\ rx \in Nat /\ last \in Int /\ sent \in Nat /\ Pushed \in Int
      /\ snapshot \in Seq(Nat) /\ delivered \in Seq(Nat)
  BY Parameters DEF StreamInv, TypeOK, Pushed
<1>2. reader \in {"looking", "replaying"} => ReplayInv'
  <2>1. SUFFICES ASSUME reader \in {"looking", "replaying"} PROVE ReplayInv'
    OBVIOUS
  <2>2. ReplayInv
    BY <2>1 DEF StreamInv, ReaderInv
  <2>3. QED
    BY <1>1, <2>2 DEF ReplayInv
<1>3. ReaderInv'
  BY <1>1, <1>2 DEF StreamInv, ReaderInv, InOrder
<1>4. EndInv'
  BY DEF StreamInv, EndInv, CloseIsFinal
<1>5. QED
  BY <1>3, <1>4

LEMMA StampKeeps == StreamInv /\ Stamp => StreamInv'
<1> SUFFICES ASSUME StreamInv, Stamp PROVE StreamInv'
  OBVIOUS
<1> USE DEF StreamInv
<1>1. TypeOK'
  BY Parameters DEF Stamp, TypeOK, ending, stream, tail
<1>2. Pushed' = Pushed /\ Pushed' \in Nat /\ sent \in Nat /\ seq \in Nat
  BY Parameters DEF Stamp, Pushed, TypeOK
<1>3. RecordInv'
  BY <1>2 DEF Stamp, RecordInv, ending
<1>4. HistoryInv'
  BY <1>2 DEF Stamp, HistoryInv, HistoryIsRecent, Pushed
<1>5. ReaderInv' /\ EndInv'
  BY <1>2, ReaderStays DEF Stamp, ending
<1>6. QED
  BY <1>1, <1>3, <1>4, <1>5

LEMMA PushKeeps == StreamInv /\ Push => StreamInv'
<1> SUFFICES ASSUME StreamInv, Push PROVE StreamInv'
  OBVIOUS
<1> USE DEF StreamInv
<1> DEFINE e == seq - 1
<1>1. /\ e \in Nat /\ Pushed = e /\ Pushed' = e + 1 /\ sent = e /\ seq \in Nat
      /\ history \in Seq(Nat) /\ history' = Trimmed(Append(history, e))
  BY Parameters DEF Push, Pushed, TypeOK, RecordInv
<1>2. /\ Len(history) <= MaxHistory + TrimBatch
      /\ \A i \in 1..Len(history) : history[i] = e - Len(history) + i - 1
      /\ Len(history) >= (IF e < MaxHistory THEN e ELSE MaxHistory)
  BY <1>1 DEF Push, HistoryInv, HistoryIsRecent
<1>3. LET n == Len(history')
      IN  /\ history' \in Seq(Nat) /\ history' # <<>>
          /\ n <= MaxHistory + TrimBatch
          /\ n >= (IF e + 1 < MaxHistory THEN e + 1 ELSE MaxHistory)
          /\ \A i \in 1..n : history'[i] = (e + 1) - n + i - 1
  BY <1>1, <1>2, TrimmedIsRecent
<1>4. TypeOK'
  BY <1>3 DEF Push, TypeOK, ending, stream, tail
<1>5. RecordInv'
  BY DEF Push, RecordInv, ending
<1>6. HistoryInv'
  <2>1. (IF recording' = "stamped" THEN seq' - 1 ELSE seq') = e + 1
    BY <1>1 DEF Pushed
  <2>2. QED
    BY <1>1, <1>3, <2>1 DEF HistoryInv, HistoryIsRecent
<1>7. ReaderInv' /\ EndInv'
  BY <1>1, ReaderStays DEF Push, ending
<1>8. QED
  BY <1>4, <1>5, <1>6, <1>7

LEMMA SendKeeps == StreamInv /\ Send => StreamInv'
<1> SUFFICES ASSUME StreamInv, Send PROVE StreamInv'
  OBVIOUS
<1> USE DEF StreamInv
<1>1. Pushed' = Pushed /\ Pushed' \in Nat /\ sent \in Nat /\ seq \in Nat /\ sent' = seq
  BY Parameters DEF Send, Pushed, TypeOK, RecordInv
<1>2. TypeOK'
  BY <1>1, Parameters DEF Send, TypeOK, ending, stream, tail
<1>3. RecordInv'
  BY <1>1 DEF Send, RecordInv, ending
<1>4. HistoryInv'
  BY <1>1 DEF Send, HistoryInv, HistoryIsRecent, Pushed
<1>5. status = "running" /\ ~finished
  BY DEF Send, RecordInv
<1>6. sent <= sent'
  BY <1>1 DEF Send, RecordInv
<1>7. ReaderInv' /\ EndInv'
  BY <1>1, <1>5, <1>6, ReaderStays DEF Send, ending
<1>8. QED
  BY <1>2, <1>3, <1>4, <1>7

\* The end of the run, and a step of the CLI, send nothing.
LEMMA RunEndsKeeps == StreamInv /\ (RunEnds \/ Client) => StreamInv'
<1> SUFFICES ASSUME StreamInv, RunEnds \/ Client PROVE StreamInv'
  OBVIOUS
<1> USE DEF StreamInv
<1>1. UNCHANGED <<run, stream>>
  BY DEF RunEnds, Client, RecordOutcome, TaskPanics, Finish, Hear, Ask
<1>2. Pushed' = Pushed /\ Pushed \in Nat /\ sent \in Nat
  BY <1>1, Parameters DEF run, Pushed, TypeOK, RecordInv
<1>3. /\ status' \in RunStatus /\ finished' \in BOOLEAN
      /\ finished => finished'
      /\ status # "running" => status' # "running"
      /\ finished' => status' # "running"
      /\ recording # "no" => status' = status
  <2>1. CASE RecordOutcome
    BY <2>1 DEF RecordOutcome, TypeOK, RunStatus, RecordInv
  <2>2. CASE TaskPanics
    BY <2>2 DEF TaskPanics, TypeOK, RunStatus, RecordInv
  <2>3. CASE Finish
    BY <2>3 DEF Finish, Decided, TypeOK, RecordInv
  <2>4. CASE Client
    BY <2>4 DEF Client, Hear, Ask, ending, TypeOK, RecordInv
  <2>5. QED
    BY <2>1, <2>2, <2>3, <2>4 DEF RunEnds
<1>4. heard' \in 0..Len(delivered') /\ exit' \in {"none", "ok", "cancelled", "failed"}
  <2>1. CASE RunEnds
    BY <2>1 DEF RunEnds, RecordOutcome, TaskPanics, Finish, tail, stream, TypeOK
  <2>2. CASE Hear
    <3>1. delivered \in Seq(Nat) /\ Len(delivered) \in Nat
      BY DEF TypeOK
    <3>2. QED
      BY <2>2, <3>1 DEF Hear, stream, TypeOK
  <2>3. CASE Ask
    BY <2>3 DEF Ask, stream, TypeOK
  <2>4. QED
    BY <2>1, <2>2, <2>3 DEF Client
<1>5. TypeOK'
  BY <1>1, <1>3, <1>4 DEF TypeOK, run, stream
<1>6. RecordInv'
  BY <1>1, <1>3 DEF RecordInv, run
<1>7. HistoryInv'
  BY <1>1, <1>2 DEF HistoryInv, HistoryIsRecent, run
<1>8. ReaderInv' /\ EndInv'
  BY <1>1, <1>2, <1>3, ReaderStays DEF run
<1>9. QED
  BY <1>5, <1>6, <1>7, <1>8

-----------------------------------------------------------------------------
(* The stream.                                                             *)

\* A step of the stream leaves the run and the CLI alone.
LEMMA StreamStep ==
  ASSUME StreamInv, UNCHANGED <<run, ending, tail>>,
         reader' \in ReaderAt, rx' \in Nat, snapshot' \in Seq(Nat), ended' \in BOOLEAN,
         last' \in Int, delivered' \in Seq(Nat), lagged' \in BOOLEAN,
         Len(delivered) <= Len(delivered'),
         ReaderInv', EndInv'
  PROVE  StreamInv'
<1> USE DEF StreamInv, run, ending, tail
<1>1. Len(delivered) \in Nat /\ Len(delivered') \in Nat /\ heard \in 0..Len(delivered)
  BY DEF TypeOK
<1>2. TypeOK'
  BY <1>1 DEF TypeOK
<1>3. RecordInv' /\ HistoryInv'
  BY DEF RecordInv, HistoryInv, HistoryIsRecent, Pushed
<1>4. QED
  BY <1>2, <1>3

LEMMA StreamFacts ==
  ASSUME StreamInv
  PROVE  /\ rx \in Nat /\ last \in Int /\ sent \in Nat /\ Pushed \in Nat /\ sent <= Pushed
         /\ snapshot \in Seq(Nat) /\ delivered \in Seq(Nat) /\ history \in Seq(Nat)
         /\ Len(snapshot) \in Nat /\ Len(delivered) \in Nat
         /\ reader \in ReaderAt /\ ended \in BOOLEAN /\ lagged \in BOOLEAN /\ finished \in BOOLEAN
         /\ rx <= sent /\ last < Pushed /\ InOrder
         /\ finished => sent = Pushed /\ status # "running"
<1> USE DEF StreamInv
<1>1. /\ rx \in Nat /\ last \in Int /\ sent \in Nat /\ seq \in Nat
      /\ snapshot \in Seq(Nat) /\ delivered \in Seq(Nat) /\ history \in Seq(Nat)
      /\ reader \in ReaderAt /\ ended \in BOOLEAN /\ lagged \in BOOLEAN /\ finished \in BOOLEAN
      /\ recording \in {"no", "stamped", "pushed"}
  BY Parameters DEF TypeOK
<1>2. Pushed \in Nat /\ sent <= Pushed /\ (finished => sent = Pushed /\ status # "running")
  BY <1>1 DEF RecordInv, Pushed
<1>3. rx <= sent /\ last < Pushed /\ InOrder
  BY DEF ReaderInv
<1>4. QED
  BY <1>1, <1>2, <1>3

LEMMA SubscribeKeeps == StreamInv /\ Subscribe => StreamInv'
<1> SUFFICES ASSUME StreamInv, Subscribe PROVE StreamInv'
  OBVIOUS
<1>1. UNCHANGED <<run, ending, tail, snapshot, ended, last, delivered, lagged>>
      /\ rx' = sent /\ reader = "none" /\ reader' = "subscribing"
  BY DEF Subscribe, Attach
<1>2. Pushed' = Pushed /\ sent' = sent
  BY <1>1 DEF run, Pushed
<1>3. ReaderInv'
  BY <1>1, <1>2, StreamFacts DEF StreamInv, ReaderInv, InOrder, Live
<1>4. EndInv'
  BY <1>1 DEF StreamInv, EndInv, CloseIsFinal, ending
<1>5. QED
  BY <1>1, <1>2, <1>3, <1>4, StreamStep, StreamFacts DEF ReaderAt

\* Whatever the history lacks, the receiver will still be given.
LEMMA SnapshotKeeps == StreamInv /\ Snapshot => StreamInv'
<1> SUFFICES ASSUME StreamInv, Snapshot PROVE StreamInv'
  OBVIOUS
<1>1. UNCHANGED <<run, ending, tail, rx, ended, last, delivered, lagged>>
      /\ snapshot' = history /\ reader = "subscribing" /\ reader' = "looking"
  BY DEF Snapshot, Attach
<1>2. Pushed' = Pushed /\ sent' = sent
  BY <1>1 DEF run, Pushed
<1>3. ~lagged /\ delivered = <<>> /\ last = -1 /\ ~ended
  BY <1>1 DEF StreamInv, ReaderInv
<1> DEFINE n == Len(history)
<1>4. /\ n \in Nat /\ (Pushed > 0 => n > 0)
      /\ \A i \in 1..n : history[i] = Pushed - n + i - 1
  BY StreamFacts DEF StreamInv, HistoryInv, HistoryIsRecent, Pushed
<1>5. n > 0 => history[n] = Pushed - 1
  <2>1. Pushed \in Nat
    BY StreamFacts
  <2>2. QED
    BY <1>4, <2>1
<1>6. n = 0 => rx = 0
  <2>1. rx \in Nat /\ sent \in Nat /\ Pushed \in Nat /\ rx <= sent /\ sent <= Pushed
    BY StreamFacts
  <2>2. QED
    BY <1>4, <2>1
<1>7. ASSUME NEW i \in 1..n PROVE history[i] = history[n] - n + i
  <2>1. n \in Int /\ n > 0 /\ i \in Int /\ Pushed \in Int
    BY <1>4, StreamFacts
  <2>2. history[n] = Pushed - 1 /\ history[i] = Pushed - n + i - 1
    BY <1>4, <1>5, <2>1
  <2>3. QED
    BY <2>1, <2>2
<1>8. ReplayInv'
  BY <1>1, <1>2, <1>3, <1>5, <1>6, <1>7, StreamFacts DEF ReplayInv
<1>9. ReaderInv'
  BY <1>1, <1>2, <1>3, <1>8, StreamFacts DEF StreamInv, ReaderInv, InOrder, Live
<1>10. EndInv'
  BY <1>1 DEF StreamInv, EndInv, CloseIsFinal, ending
<1>11. QED
  BY <1>1, <1>2, <1>9, <1>10, StreamStep, StreamFacts DEF ReaderAt

LEMMA LookFinishedKeeps == StreamInv /\ LookFinished => StreamInv'
<1> SUFFICES ASSUME StreamInv, LookFinished PROVE StreamInv'
  OBVIOUS
<1>1. UNCHANGED <<run, ending, tail, rx, snapshot, last, delivered, lagged>>
      /\ ended' = finished /\ reader = "looking" /\ reader' = "replaying"
  BY DEF LookFinished
<1>2. Pushed' = Pushed /\ sent' = sent
  BY <1>1 DEF run, Pushed
<1>3. ReplayInv'
  BY <1>1, <1>2 DEF StreamInv, ReaderInv, ReplayInv
<1>4. ReaderInv'
  BY <1>1, <1>2, <1>3, StreamFacts DEF StreamInv, ReaderInv, InOrder, Live
<1>5. EndInv'
  BY <1>1 DEF StreamInv, EndInv, CloseIsFinal, ending
<1>6. QED
  BY <1>1, <1>2, <1>4, <1>5, StreamStep, StreamFacts DEF ReaderAt

\* One more event in front of a watcher keeps the order if it is newer, and
\* leaves no hole if it is the next one.
LEMMA AppendInOrder ==
  ASSUME StreamInv, NEW e \in Nat, e > last,
         delivered' = Append(delivered, e),
         lagged => lagged',
         ~lagged' => delivered = <<>> \/ e = last + 1
  PROVE  /\ delivered' \in Seq(Nat) /\ delivered' # <<>> /\ InOrder'
         /\ Len(delivered') = Len(delivered) + 1 /\ delivered'[Len(delivered')] = e
<1>1. /\ delivered \in Seq(Nat) /\ Len(delivered) \in Nat /\ InOrder
      /\ delivered # <<>> => last = delivered[Len(delivered)]
  BY StreamFacts DEF StreamInv, ReaderInv
<1>2. /\ delivered' \in Seq(Nat) /\ delivered' # <<>>
      /\ Len(delivered') = Len(delivered) + 1 /\ delivered'[Len(delivered')] = e
      /\ \A i \in 1..Len(delivered) : delivered'[i] = delivered[i]
  BY <1>1
<1>3. ASSUME NEW i \in 1..(Len(delivered') - 1)
      PROVE  /\ delivered'[i] < delivered'[i + 1]
             /\ ~lagged' => delivered'[i + 1] = delivered'[i] + 1
  <2>1. CASE i = Len(delivered)
    <3>1. /\ delivered # <<>> /\ i + 1 = Len(delivered') /\ i \in 1..Len(delivered)
          /\ i \in 1..Len(delivered')
      BY <1>1, <1>2, <2>1
    <3>2. delivered'[i] = last /\ delivered'[i + 1] = e
      BY <1>1, <1>2, <2>1, <3>1
    <3>3. QED
      BY <3>1, <3>2
  <2>2. CASE i # Len(delivered)
    <3>1. i \in 1..(Len(delivered) - 1) /\ i + 1 \in 1..Len(delivered) /\ i \in 1..Len(delivered)
      BY <1>1, <1>2, <2>2
    <3>2. delivered'[i] = delivered[i] /\ delivered'[i + 1] = delivered[i + 1]
      BY <1>2, <3>1
    <3>3. QED
      BY <1>1, <3>1, <3>2 DEF InOrder
  <2>3. QED
    BY <2>1, <2>2
<1>4. QED
  BY <1>2, <1>3 DEF InOrder

LEMMA ReplayKeeps == StreamInv /\ Replay => StreamInv'
<1> SUFFICES ASSUME StreamInv, Replay PROVE StreamInv'
  OBVIOUS
<1> DEFINE n == Len(snapshot)
           e == snapshot[1]
<1>1. /\ UNCHANGED <<run, ending, tail, reader, rx, ended, lagged>>
      /\ reader = "replaying" /\ snapshot # <<>>
      /\ last' = e /\ delivered' = Append(delivered, e)
      /\ snapshot' = Tail(snapshot)
  BY StreamFacts DEF Replay
<1>2. Pushed' = Pushed /\ sent' = sent
  BY <1>1 DEF run, Pushed
<1>3. /\ ~lagged /\ n \in Nat /\ n > 0 /\ e \in Nat
      /\ snapshot[n] >= rx - 1 /\ snapshot[n] < Pushed /\ snapshot[n] \in Nat
      /\ delivered # <<>> => e = last + 1
      /\ \A i \in 1..n : snapshot[i] = snapshot[n] - n + i
  <2>1. snapshot \in Seq(Nat) /\ snapshot # <<>>
    BY <1>1, StreamFacts
  <2>2. n \in Nat /\ n > 0 /\ e \in Nat /\ snapshot[n] \in Nat
    BY <2>1
  <2>3. ReplayInv
    BY <1>1 DEF StreamInv, ReaderInv
  <2>4. QED
    BY <2>2, <2>3 DEF ReplayInv
<1>4. e = snapshot[n] - n + 1 /\ e < Pushed
  <2>1. 1 \in 1..n
    BY <1>3
  <2>2. e = snapshot[n] - n + 1
    BY <1>3, <2>1
  <2>3. QED
    BY <1>3, <2>2, StreamFacts
<1>5. e > last
  BY <1>3 DEF StreamInv, ReaderInv
<1>6. /\ delivered' \in Seq(Nat) /\ delivered' # <<>> /\ InOrder'
      /\ Len(delivered') = Len(delivered) + 1 /\ delivered'[Len(delivered')] = e
  BY <1>1, <1>3, <1>5, AppendInOrder
<1>7. /\ snapshot' \in Seq(Nat) /\ Len(snapshot') = n - 1
      /\ \A i \in 1..(n - 1) : snapshot'[i] = snapshot[i + 1]
  BY <1>1, <1>3, StreamFacts, HeadTailProperties
<1>8. ReplayInv'
  <2>1. CASE n = 1
    <3>1. e = snapshot[n] /\ Len(snapshot') = 0
      BY <1>3, <1>7, <2>1
    <3>2. QED
      <4>1. last' >= rx' - 1 /\ ~lagged'
        BY <1>1, <1>3, <3>1
      <4>2. QED
        BY <3>1, <4>1 DEF ReplayInv
  <2>2. CASE n > 1
    <3>1. /\ snapshot'[n - 1] = snapshot[n] /\ snapshot'[1] = snapshot[2]
          /\ snapshot[2] = snapshot[n] - n + 2
      BY <1>3, <1>7, <2>2
    <3>2. snapshot'[1] = last' + 1
      <4>1. snapshot'[1] = snapshot[n] - n + 2 /\ last' = snapshot[n] - n + 1
        BY <1>1, <1>4, <3>1
      <4>2. QED
        BY <1>3, <4>1
    <3>3. ASSUME NEW i \in 1..(n - 1) PROVE snapshot'[i] = snapshot'[n - 1] - (n - 1) + i
      <4>1. i + 1 \in 1..n /\ snapshot'[i] = snapshot[i + 1] /\ i \in Int
        BY <1>3, <1>7, <2>2
      <4>2. snapshot[i + 1] = snapshot[n] - n + (i + 1)
        BY <1>3, <4>1
      <4>3. QED
        BY <1>3, <3>1, <4>1, <4>2
    <3>4. QED
      <4>1. Len(snapshot') = n - 1 /\ n - 1 > 0 /\ ~lagged'
            /\ snapshot'[n - 1] >= rx' - 1 /\ snapshot'[n - 1] < Pushed'
        BY <1>1, <1>2, <1>3, <1>7, <2>2, <3>1
      <4> DEFINE m == Len(snapshot')
      <4>2. m > 0 /\ snapshot'[m] >= rx' - 1 /\ snapshot'[m] < Pushed'
        BY <4>1
      <4>3. \A i \in 1..m : snapshot'[i] = snapshot'[m] - m + i
        BY <3>3, <4>1
      <4>4. QED
        BY <3>2, <4>1, <4>2, <4>3 DEF ReplayInv
  <2>3. n = 1 \/ n > 1
    <3>1. \A k \in Nat : k > 0 => k = 1 \/ k > 1
      OBVIOUS
    <3>2. QED
      BY <1>3, <3>1
  <2>4. QED
    BY <2>1, <2>2, <2>3
<1>9. ReaderInv'
  BY <1>1, <1>2, <1>4, <1>6, <1>8, StreamFacts DEF ReaderInv, Live
<1>10. EndInv'
  BY <1>1 DEF StreamInv, EndInv, CloseIsFinal, ending
<1>11. QED
  BY <1>1, <1>3, <1>6, <1>7, <1>9, <1>10, StreamStep, StreamFacts DEF ReaderAt

LEMMA ReplayedKeeps == StreamInv /\ Replayed => StreamInv'
<1> SUFFICES ASSUME StreamInv, Replayed PROVE StreamInv'
  OBVIOUS
<1>1. /\ UNCHANGED <<run, ending, tail, rx, snapshot, ended, last, delivered, lagged>>
      /\ reader = "replaying" /\ snapshot = <<>>
      /\ reader' = IF ended THEN "closed" ELSE "receiving"
  BY DEF Replayed
<1>2. Pushed' = Pushed /\ sent' = sent
  BY <1>1 DEF run, Pushed
<1>3. last >= rx - 1
  BY <1>1 DEF StreamInv, ReaderInv, ReplayInv
<1>4. ReaderInv'
  BY <1>1, <1>2, <1>3, StreamFacts DEF StreamInv, ReaderInv, InOrder, Live
<1>5. EndInv'
  BY <1>1, <1>2, StreamFacts DEF StreamInv, EndInv, CloseIsFinal, ending
<1>6. QED
  BY <1>1, <1>2, <1>4, <1>5, StreamStep, StreamFacts DEF ReaderAt

\* Taking an event or skipping the lost ones keeps the order.
LEMMA TakeKeeps ==
  ASSUME StreamInv, reader \in {"receiving", "draining"}, reader' = reader,
         UNCHANGED <<run, ending, tail, snapshot, ended, lagged>>, Take
  PROVE  StreamInv'
<1>1. /\ rx < sent /\ rx' = rx + 1 /\ rx \in Nat
      /\ last' = IF Fresh THEN rx ELSE last
      /\ delivered' = IF Fresh THEN Append(delivered, rx) ELSE delivered
  BY StreamFacts DEF Take
<1>2. Pushed' = Pushed /\ sent' = sent /\ lagged' = lagged
  BY DEF run, Pushed
<1>3. ~lagged => last >= rx - 1
  BY DEF StreamInv, ReaderInv, Live
<1>4. EndInv'
  BY <1>1 DEF StreamInv, EndInv, CloseIsFinal, ending
<1>5. CASE Fresh
  <2>1. rx > last /\ last' = rx /\ delivered' = Append(delivered, rx)
    BY <1>1, <1>5 DEF Fresh
  <2>2. ~lagged' => delivered = <<>> \/ rx = last + 1
    BY <1>2, <1>3, <2>1, StreamFacts
  <2>3. /\ delivered' \in Seq(Nat) /\ delivered' # <<>> /\ InOrder'
        /\ Len(delivered') = Len(delivered) + 1 /\ delivered'[Len(delivered')] = rx
    BY <1>1, <1>2, <2>1, <2>2, AppendInOrder
  <2>4. ReaderInv'
    BY <1>1, <1>2, <2>1, <2>3, StreamFacts DEF ReaderInv, Live
  <2>5. /\ rx' \in Nat /\ last' \in Int /\ reader' \in ReaderAt /\ snapshot' \in Seq(Nat)
        /\ ended' \in BOOLEAN /\ lagged' \in BOOLEAN
    BY <1>1, <2>1, StreamFacts
  <2>6. Len(delivered) <= Len(delivered')
    BY <2>3, StreamFacts
  <2>7. QED
    BY <1>4, <2>3, <2>4, <2>5, <2>6, StreamStep
<1>6. CASE ~Fresh
  <2>1. rx <= last /\ last' = last /\ delivered' = delivered
    BY <1>1, <1>6, StreamFacts DEF Fresh
  <2>2. InOrder' /\ last < Pushed
        /\ last = (IF delivered = <<>> THEN -1 ELSE delivered[Len(delivered)])
    BY <1>2, <2>1 DEF StreamInv, ReaderInv, InOrder
  <2>3. rx + 1 <= sent /\ last >= rx
    BY <1>1, <2>1, StreamFacts
  <2>4. ReaderInv'
    BY <1>1, <1>2, <2>1, <2>2, <2>3, StreamFacts DEF ReaderInv, Live
  <2>5. QED
    BY <1>1, <1>4, <2>1, <2>4, StreamStep, StreamFacts
<1>7. QED
  BY <1>5, <1>6

LEMMA SkipKeeps ==
  ASSUME StreamInv, reader \in Live, reader' \in Live,
         reader' = "draining" => reader = "draining",
         reader' = "closed" => finished,
         UNCHANGED <<run, ending, tail, snapshot, ended, last, delivered>>, SkipLost
  PROVE  StreamInv'
<1>1. rx' = sent - Capacity /\ rx' \in Nat /\ rx' <= sent /\ lagged'
  BY StreamFacts, Parameters DEF SkipLost, Overtaken
<1>2. Pushed' = Pushed /\ sent' = sent
  BY DEF run, Pushed
<1>3. ReaderInv'
  BY <1>1, <1>2, StreamFacts DEF StreamInv, ReaderInv, InOrder, Live
<1>4. EndInv'
  BY <1>1, StreamFacts DEF StreamInv, EndInv, CloseIsFinal, ending
<1>5. QED
  BY <1>1, <1>3, <1>4, StreamStep, StreamFacts DEF ReaderAt, Live

\* The stream moves on without touching what it has told.
LEMMA MoveKeeps ==
  ASSUME StreamInv, reader \in Live, reader' \in Live,
         reader' = "draining" => finished,
         reader' = "closed" => finished /\ rx = sent,
         UNCHANGED <<run, ending, tail, rx, snapshot, ended, last, delivered, lagged>>
  PROVE  StreamInv'
<1>1. Pushed' = Pushed /\ sent' = sent
  BY DEF run, Pushed
<1>2. ReaderInv'
  BY <1>1, StreamFacts DEF StreamInv, ReaderInv, InOrder, Live
<1>3. EndInv'
  <2>1. ~lagged => last >= rx - 1
    BY DEF StreamInv, ReaderInv, Live
  <2>2. reader' = "closed" => (~lagged => last = sent - 1) /\ status # "running"
    BY <2>1, StreamFacts
  <2>3. QED
    BY <1>1, <2>2 DEF StreamInv, EndInv, CloseIsFinal, ending
<1>4. QED
  BY <1>2, <1>3, StreamStep, StreamFacts DEF ReaderAt, Live

LEMMA RecvKeeps == StreamInv /\ Recv => StreamInv'
<1> SUFFICES ASSUME StreamInv, Recv PROVE StreamInv'
  OBVIOUS
<1>1. reader = "receiving" /\ UNCHANGED <<run, ending, snapshot, ended, tail>>
  BY DEF Recv
<1>2. CASE Take /\ UNCHANGED <<reader, lagged>>
  BY <1>1, <1>2, TakeKeeps
<1>3. CASE SkipLost /\ UNCHANGED <<reader, last, delivered>>
  BY <1>1, <1>3, SkipKeeps DEF Live
<1>4. CASE rx = sent /\ reader' = "empty" /\ UNCHANGED <<rx, last, delivered, lagged>>
  BY <1>1, <1>4, MoveKeeps DEF Live
<1>5. QED
  BY <1>2, <1>3, <1>4 DEF Recv

LEMMA DrainKeeps == StreamInv /\ Drain => StreamInv'
<1> SUFFICES ASSUME StreamInv, Drain PROVE StreamInv'
  OBVIOUS
<1>1. /\ reader = "draining" /\ UNCHANGED <<run, ending, snapshot, ended, tail>>
      /\ finished
  BY DEF Drain, StreamInv, EndInv
<1>2. CASE Take /\ UNCHANGED <<reader, lagged>>
  BY <1>1, <1>2, TakeKeeps
<1>3. CASE SkipLost /\ reader' = "closed" /\ UNCHANGED <<last, delivered>>
  BY <1>1, <1>3, SkipKeeps DEF Live
<1>4. CASE rx = sent /\ reader' = "closed" /\ UNCHANGED <<rx, last, delivered, lagged>>
  BY <1>1, <1>4, MoveKeeps DEF Live
<1>5. QED
  BY <1>2, <1>3, <1>4 DEF Drain

LEMMA NextStreamInv == StreamInv /\ [Next]_vars => StreamInv'
<1> SUFFICES ASSUME StreamInv, [Next]_vars PROVE StreamInv'
  OBVIOUS
<1>1. CASE Record
  BY <1>1, StampKeeps, PushKeeps, SendKeeps DEF Record
<1>2. CASE RunEnds \/ Client
  BY <1>2, RunEndsKeeps
<1>3. CASE Stream
  <2>1. CASE PollFinished
    BY <2>1, MoveKeeps DEF PollFinished, Live
  <2>2. CASE Wake
    BY <2>2, MoveKeeps DEF Wake, Live
  <2>3. QED
    BY <1>3, <2>1, <2>2, SubscribeKeeps, SnapshotKeeps, LookFinishedKeeps, ReplayKeeps,
       ReplayedKeeps, RecvKeeps, DrainKeeps DEF Stream
<1>4. CASE UNCHANGED vars
  BY <1>4 DEF vars, run, ending, stream, tail, StreamInv, TypeOK, RecordInv, HistoryInv,
     HistoryIsRecent, ReaderInv, ReplayInv, EndInv, CloseIsFinal, InOrder, Pushed
<1>5. QED
  BY <1>1, <1>2, <1>3, <1>4 DEF Next

LEMMA StreamInvHolds == Spec => []StreamInv
BY InitStreamInv, NextStreamInv, PTL DEF Spec

\* Every variable of a run's sink, of a stream over it and of the CLI that tails
\* it keeps its type.
THEOREM StreamTypeCorrect == Spec => []TypeOK
<1>1. StreamInv => TypeOK
  BY DEF StreamInv
<1>2. QED
  BY <1>1, StreamInvHolds, PTL

\* The history is the newest events without a hole, for every cap and batch of the
\* trim (record, MAX_HISTORY, TRIM_BATCH).
THEOREM HistoryKeepsRecent == Spec => []HistoryIsRecent
<1>1. StreamInv => HistoryIsRecent
  BY DEF StreamInv, HistoryInv
<1>2. QED
  BY <1>1, StreamInvHolds, PTL

\* The replay, the dedupe by number and the channel give a watcher every event at
\* most once and in order, and without a hole unless it was overtaken (run_events).
THEOREM EachOnceInOrder == Spec => []InOrder
<1>1. StreamInv => InOrder
  BY DEF StreamInv, ReaderInv
<1>2. QED
  BY <1>1, StreamInvHolds, PTL

\* A stream that went live and was not overtaken closes after the last event of a
\* run whose outcome is known, whenever the run ends (run_events, FinishGuard).
THEOREM ClosesComplete == Spec => []CloseIsFinal
<1>1. StreamInv => CloseIsFinal
  BY DEF StreamInv, EndInv
<1>2. QED
  BY <1>1, StreamInvHolds, PTL
=============================================================================
