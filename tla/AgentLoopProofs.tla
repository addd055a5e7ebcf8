-------------------------- MODULE AgentLoopProofs ---------------------------
(***************************************************************************)
(* Proofs about AgentLoop for every number of rounds, size of a batch and  *)
(* number of messages kept: the safety properties of a conversation.  Then *)
(* about Toolbox, for any number of servers of any names and tools: what   *)
(* the names in a request reach.  And about the decoder of Wire, for any   *)
(* answer: that it makes no difference where its stream is cut.  And about *)
(* the requests of the conversation and its synopsis: that each provider   *)
(* takes them, and that every call and its result go together.             *)
(***************************************************************************)
EXTENDS Wire, Recursion, SequenceTheorems, TLAPS

Waiting == {"top", "summary", "request", "model"}
Working == {"tools", "tool", "batch"}

\* b may follow a in a conversation whose turns are complete.
MayFollow(a, b) ==
  \/ b.role = "assistant" /\ a.role # "assistant" /\ b.calls # <<>>
  \/ b.role = "tool" /\ a.role = "assistant" /\ b.calls = a.calls

\* The first n messages are complete turns.
Turns(ms, n) == ms[1].role = "user" /\ \A k \in 2..n : MayFollow(ms[k - 1], ms[k])

\* The messages stand for 1..last: the first one for all but the others, which
\* stand for themselves.
Covers(ms, last) ==
  /\ ms[1].of = 1..(last - Len(ms) + 1)
  /\ \A k \in 2..Len(ms) : ms[k].of = {last - Len(ms) + k}

\* The last message spoken.
Spoken == IF pc \in Waiting THEN Asked
          ELSE IF Final.role = "tool" THEN Reply + 1 ELSE Reply

\* A batch begins with the assistant turn alone; its results are those of the
\* first calls, in order.
Answering ==
  \/ Final.role = "assistant" /\ Turns(messages, Len(messages)) /\ pc # "batch"
  \/ /\ Final.role = "tool"
     /\ Len(messages) > 2
     /\ messages[Len(messages) - 1].role = "assistant"
     /\ Turns(messages, Len(messages) - 1)
     /\ Len(Results) <= Len(Batch)
     /\ \A k \in 1..Len(Results) : Results[k] = Batch[k]
     /\ pc # "batch" => Len(Results) < Len(Batch)
     /\ pc = "batch" /\ ~cancelled => Len(Results) = Len(Batch)

Shape ==
  /\ pc \in Waiting => Turns(messages, Len(messages)) /\ Final.role # "assistant"
  /\ pc \in Working => Answering

\* Either nothing was cut, or enough was left.
KeepsRecent == Len(messages) = Spoken \/ Len(messages) >= KeepRecent

\* A summary is only asked for when there is a cutoff, and nothing moves it.
InRound ==
  /\ pc = "summary" => PickCutoff # 0
  /\ pc \notin {"top", "over"} => iteration < MaxIterations

LoopInv ==
  /\ TypeOK /\ InRound
  /\ pc # "over" => /\ Shape
                    /\ Covers(messages, Spoken) /\ Len(messages) <= Spoken
                    /\ KeepsRecent

-----------------------------------------------------------------------------
(* Lemmas about conversations.                                             *)

LEMMA Constants == MaxIterations \in Nat /\ KeepRecent \in Nat /\ MaxBatch \in Nat
BY AgentAssumption

\* Appending a message that may follow the last one keeps the turns complete.
LEMMA TurnsAppend ==
  ASSUME NEW ms \in Seq(Message), ms # <<>>, Turns(ms, Len(ms)),
         NEW e \in Message, MayFollow(ms[Len(ms)], e)
  PROVE  Turns(Append(ms, e), Len(ms) + 1)
<1> DEFINE n == Len(ms)
           as == Append(ms, e)
<1>1. n \in Nat /\ n >= 1
  BY EmptySeq
<1>2. \A k \in 1..n : as[k] = ms[k]
  OBVIOUS
<1>3. as[n + 1] = e
  OBVIOUS
<1>4. ASSUME NEW k \in 2..(n + 1) PROVE MayFollow(as[k - 1], as[k])
  <2>1. CASE k = n + 1
    BY <1>1, <1>2, <1>3, <2>1
  <2>2. CASE k # n + 1
    <3>1. k \in 2..n /\ k \in 1..n /\ k - 1 \in 1..n
      BY <1>1, <2>2
    <3>2. MayFollow(ms[k - 1], ms[k])
      BY <3>1 DEF Turns
    <3>3. QED
      BY <1>2, <3>1, <3>2
  <2>3. QED
    BY <2>1, <2>2
<1>5. as[1].role = "user"
  BY <1>1, <1>2 DEF Turns
<1>6. QED
  BY <1>4, <1>5 DEF Turns

\* So does the record of what the messages stand for.
LEMMA CoversAppend ==
  ASSUME NEW ms \in Seq(Message), ms # <<>>, NEW last \in Nat, Covers(ms, last),
         NEW e \in Message, e.of = {last + 1}
  PROVE  Covers(Append(ms, e), last + 1)
<1> DEFINE n == Len(ms)
           as == Append(ms, e)
<1>1. n \in Nat /\ n >= 1 /\ Len(as) = n + 1
  BY EmptySeq
<1>2. \A k \in 1..n : as[k] = ms[k]
  OBVIOUS
<1>3. as[n + 1] = e
  OBVIOUS
<1>4. as[1].of = 1..(last + 1 - Len(as) + 1)
  <2>1. as[1].of = 1..(last - n + 1)
    BY <1>1, <1>2 DEF Covers
  <2>2. last + 1 - Len(as) + 1 = last - n + 1
    BY <1>1
  <2>3. QED
    BY <2>1, <2>2
<1>5. ASSUME NEW k \in 2..Len(as) PROVE as[k].of = {last + 1 - Len(as) + k}
  <2>1. last + 1 - Len(as) + k = last - n + k
    BY <1>1
  <2>2. CASE k = n + 1
    BY <1>1, <1>3, <2>1, <2>2
  <2>3. CASE k # n + 1
    <3>1. k \in 2..n /\ k \in 1..n
      BY <1>1, <2>3
    <3>2. QED
      BY <1>2, <2>1, <3>1 DEF Covers
  <2>4. QED
    BY <2>2, <2>3
<1>6. QED
  BY <1>4, <1>5 DEF Covers

\* In a conversation that waits for the model a cutoff, when there is one, is an
\* assistant turn, leaves a synopsis of two messages or more, and keeps
\* KeepRecent messages or one less.
LEMMA CutoffFacts ==
  ASSUME messages \in Seq(Message), messages # <<>>,
         Turns(messages, Len(messages)), Final.role # "assistant",
         PickCutoff # 0
  PROVE  /\ PickCutoff \in 2..(Len(messages) - 1)
         /\ PickCutoff <= Len(messages) - KeepRecent + 1
         /\ messages[PickCutoff + 1].role = "assistant"
<1> DEFINE n == Len(messages)
           a == n - KeepRecent
<1>1. n \in Nat /\ n >= 1 /\ KeepRecent \in Nat
  BY Constants, EmptySeq
<1>2. n > KeepRecent /\ Cutoffs # {} /\ PickCutoff = Min(Cutoffs) /\ ~(Min(Cutoffs) < 2)
  BY <1>1 DEF PickCutoff
<1>3. a \in 1..n
  BY <1>1, <1>2
<1>4. \A c \in Cutoffs : c \in Nat /\ c >= a /\ c <= n - 1
  BY <1>1, <1>3 DEF Cutoffs
<1>5. a \in Cutoffs \/ a + 1 \in Cutoffs
  <2>1. PICK c \in Cutoffs : TRUE
    BY <1>2
  <2>2. a + 1 <= n
    BY <1>1, <1>3, <1>4, <2>1
  <2>3. CASE messages[a + 1].role = "assistant"
    BY <1>1, <1>3, <2>2, <2>3 DEF Cutoffs
  <2>4. CASE messages[a + 1].role # "assistant"
    <3>1. c # a
      BY <2>4 DEF Cutoffs
    <3>2. a + 2 \in 2..n /\ (a + 2) - 1 = a + 1 /\ (a + 1) + 1 = a + 2
      BY <1>1, <1>3, <1>4, <3>1
    <3>3. MayFollow(messages[a + 1], messages[a + 2])
      BY <3>2 DEF Turns
    <3>4. messages[a + 2].role = "assistant"
      BY <2>4, <3>3 DEF MayFollow
    <3>5. a + 1 \in Cutoffs
      BY <1>1, <1>3, <3>2, <3>4 DEF Cutoffs
    <3>6. QED
      BY <3>5
  <2>5. QED
    BY <2>3, <2>4
<1>6. \E c \in Cutoffs : \A d \in Cutoffs : c <= d
  <2>1. CASE a \in Cutoffs
    BY <1>4, <2>1
  <2>2. CASE a \notin Cutoffs
    <3>1. a + 1 \in Cutoffs
      BY <1>5, <2>2
    <3>2. \A d \in Cutoffs : a + 1 <= d
      BY <1>1, <1>3, <1>4, <2>2
    <3>3. QED
      BY <3>1, <3>2
  <2>3. QED
    BY <2>1, <2>2
<1>7. Min(Cutoffs) \in Cutoffs /\ \A d \in Cutoffs : Min(Cutoffs) <= d
  BY <1>6 DEF Min
<1>8. Min(Cutoffs) <= a + 1
  <2>1. Min(Cutoffs) \in Nat
    BY <1>4, <1>7
  <2>2. Min(Cutoffs) <= a \/ Min(Cutoffs) <= a + 1
    BY <1>5, <1>7
  <2>3. QED
    BY <1>1, <1>3, <2>1, <2>2
<1>9. QED
  BY <1>1, <1>2, <1>3, <1>4, <1>7, <1>8 DEF Cutoffs

\* A synopsis in place of the messages before an assistant turn leaves complete
\* turns that stand for the same conversation.
LEMMA SummaryFacts ==
  ASSUME messages \in Seq(Message), Turns(messages, Len(messages)),
         NEW last \in 1..(2 * MaxIterations + 1),
         Covers(messages, last), Len(messages) <= last,
         NEW c \in 2..(Len(messages) - 1), messages[c + 1].role = "assistant"
  PROVE  LET ms == ApplySummary(c) IN
         /\ ms \in Seq(Message)
         /\ Len(ms) = Len(messages) - c + 1
         /\ ms[Len(ms)] = messages[Len(messages)]
         /\ Turns(ms, Len(ms)) /\ Covers(ms, last)
<1> DEFINE n == Len(messages)
           first == [role |-> "user", calls |-> <<>>,
                     of |-> UNION {messages[k].of : k \in 1..c}]
           rest == SubSeq(messages, c + 1, n)
           ms == ApplySummary(c)
<1>1. n \in Nat /\ c \in Nat /\ c >= 2 /\ c + 1 <= n /\ last \in Nat /\ n <= last
  BY Constants
<1>2. first.of = 1..(last - n + c)
  <2>1. ASSUME NEW x \in first.of PROVE x \in 1..(last - n + c)
    <3>1. PICK k \in 1..c : x \in messages[k].of
      BY <2>1
    <3>2. CASE k = 1
      <4>1. x \in 1..(last - n + 1)
        BY <3>1, <3>2 DEF Covers
      <4>2. QED
        BY <1>1, <4>1
    <3>3. CASE k # 1
      <4>1. k \in 2..n
        BY <1>1, <3>3
      <4>2. x = last - n + k
        BY <3>1, <4>1 DEF Covers
      <4>3. QED
        BY <1>1, <4>1, <4>2
    <3>4. QED
      BY <3>2, <3>3
  <2>2. ASSUME NEW x \in 1..(last - n + c) PROVE x \in first.of
    <3>1. CASE x \in 1..(last - n + 1)
      <4>1. x \in messages[1].of
        BY <3>1 DEF Covers
      <4>2. QED
        BY <1>1, <4>1
    <3>2. CASE x \notin 1..(last - n + 1)
      <4>1. x - (last - n) \in 2..c /\ x - (last - n) \in 2..n
        BY <1>1, <3>2
      <4>2. x \in messages[x - (last - n)].of
        <5>1. messages[x - (last - n)].of = {last - n + (x - (last - n))}
          BY <4>1 DEF Covers
        <5>2. last - n + (x - (last - n)) = x
          BY <1>1
        <5>3. QED
          BY <5>1, <5>2
      <4>3. QED
        BY <1>1, <4>1, <4>2
    <3>3. QED
      BY <3>1, <3>2
  <2>3. QED
    BY <2>1, <2>2
<1>3. first \in Message
  <2>1. 1..(last - n + c) \subseteq 1..(2 * MaxIterations + 1)
    BY <1>1, Constants
  <2>2. QED
    BY <1>2, <2>1 DEF Message
<1>4. /\ rest \in Seq(Message) /\ Len(rest) = n - c
      /\ \A k \in 1..(n - c) : rest[k] = messages[c + k]
  BY <1>1
<1>5. <<first>> \in Seq(Message) /\ Len(<<first>>) = 1 /\ <<first>>[1] = first
  BY <1>3
<1>6. ms = <<first>> \o rest
  BY DEF ApplySummary
<1>7. /\ ms \in Seq(Message) /\ Len(ms) = n - c + 1
      /\ ms[1] = first
      /\ \A k \in 2..(n - c + 1) : ms[k] = messages[c + k - 1]
  <2>1. /\ ms \in Seq(Message) /\ Len(ms) = 1 + (n - c)
        /\ \A i \in 1..(1 + (n - c)) : ms[i] = IF i <= 1 THEN <<first>>[i] ELSE rest[i - 1]
    <3> DEFINE one == <<first>>
               both == one \o rest
    <3>1. one \in Seq(Message) /\ Len(one) = 1
      BY <1>5
    <3>2. rest \in Seq(Message) /\ Len(rest) = n - c
      BY <1>4
    <3>3. ms = both
      BY <1>6
    <3> HIDE DEF one, rest
    <3>4. /\ both \in Seq(Message) /\ Len(both) = Len(one) + Len(rest)
          /\ \A i \in 1..(Len(one) + Len(rest)) : both[i] = IF i <= Len(one) THEN one[i] ELSE rest[i - Len(one)]
      BY <3>1, <3>2, ConcatProperties
    <3> HIDE DEF both, ms
    <3>5. /\ both \in Seq(Message) /\ Len(both) = 1 + (n - c)
          /\ \A i \in 1..(1 + (n - c)) : both[i] = IF i <= 1 THEN one[i] ELSE rest[i - 1]
      BY <3>1, <3>2, <3>4
    <3>6. QED
      BY <3>3, <3>5, Zenon DEF one
  <2>2. 1 \in 1..(1 + (n - c)) /\ 1 + (n - c) = n - c + 1
    BY <1>1
  <2>3. ms[1] = first
    <3>1. ms[1] = IF 1 <= 1 THEN <<first>>[1] ELSE rest[1 - 1]
      BY <2>1, <2>2, Zenon
    <3>2. ms[1] = <<first>>[1]
      <4> HIDE DEF ms, first, rest
      <4>1. QED
        BY <3>1
    <3>3. QED
      BY <1>5, <3>2, Zenon
  <2>4. ASSUME NEW k \in 2..(n - c + 1) PROVE ms[k] = messages[c + k - 1]
    <3>1. k \in 1..(1 + (n - c)) /\ ~(k <= 1) /\ k - 1 \in 1..(n - c)
          /\ c + (k - 1) = c + k - 1
      BY <1>1, <2>4
    <3>2. ms[k] = rest[k - 1]
      BY <2>1, <3>1
    <3>3. rest[k - 1] = messages[c + (k - 1)]
      BY <1>4, <3>1
    <3>4. QED
      BY <3>1, <3>2, <3>3
  <2>5. QED
    BY <2>1, <2>2, <2>3, <2>4
<1>8. ms[Len(ms)] = messages[n]
  <2>1. n - c + 1 \in 2..(n - c + 1) /\ c + (n - c + 1) - 1 = n
    BY <1>1
  <2>2. QED
    BY <1>7, <2>1
<1>9. Turns(ms, Len(ms))
  <2>1. ASSUME NEW k \in 2..(n - c + 1) PROVE MayFollow(ms[k - 1], ms[k])
    <3>1. c + k - 1 \in 2..n /\ (c + k - 1) - 1 = c + (k - 1) - 1
      BY <1>1, <2>1
    <3>2. MayFollow(messages[(c + k - 1) - 1], messages[c + k - 1])
      BY <3>1 DEF Turns
    <3>3. CASE k = 2
      <4>1. ms[k] = messages[c + 1] /\ ms[k - 1] = first
        <5>1. c + 2 - 1 = c + 1 /\ 2 - 1 = 1
          BY <1>1
        <5>2. QED
          BY <1>7, <2>1, <3>3, <5>1
      <4>2. messages[c + 1].calls # <<>>
        BY <1>1, <3>2, <3>3 DEF MayFollow
      <4>3. QED
        BY <4>1, <4>2 DEF MayFollow
    <3>4. CASE k # 2
      <4>1. k - 1 \in 2..(n - c + 1)
        BY <1>1, <2>1, <3>4
      <4>2. ms[k] = messages[c + k - 1] /\ ms[k - 1] = messages[c + (k - 1) - 1]
        BY <1>7, <2>1, <4>1
      <4>3. QED
        BY <3>1, <3>2, <4>2
    <3>5. QED
      BY <3>3, <3>4
  <2>2. ms[1].role = "user"
    BY <1>7
  <2>3. QED
    BY <1>7, <2>1, <2>2 DEF Turns
<1>10. Covers(ms, last)
  <2>1. ms[1].of = 1..(last - Len(ms) + 1)
    <3>1. last - (n - c + 1) + 1 = last - n + c
      BY <1>1
    <3>2. QED
      BY <1>2, <1>7, <3>1
  <2>2. ASSUME NEW k \in 2..(n - c + 1) PROVE ms[k].of = {last - (n - c + 1) + k}
    <3>1. c + k - 1 \in 2..n /\ last - n + (c + k - 1) = last - (n - c + 1) + k
      BY <1>1, <2>2
    <3>2. QED
      BY <1>7, <2>2, <3>1 DEF Covers
  <2>3. QED
    BY <1>7, <2>1, <2>2 DEF Covers
<1>11. QED
  BY <1>7, <1>8, <1>9, <1>10

-----------------------------------------------------------------------------
(* The inductive invariant.                                                *)

LEMMA InitLoopInv == Init => LoopInv
<1> SUFFICES ASSUME Init PROVE LoopInv
  OBVIOUS
<1>1. messages[1].of = 1..1 /\ Len(messages) = 1 /\ Asked = 1
  BY DEF Init, Asked
<1>2. messages \in Seq(Message)
  <2>1. 1 \in 1..(2 * MaxIterations + 1)
    BY Constants
  <2>2. QED
    BY <2>1 DEF Init, Message
<1>3. TypeOK
  <2>1. messages # <<>>
    BY <1>1
  <2>2. iteration \in 0..MaxIterations /\ late \in Nat
    BY Constants DEF Init
  <2>3. pc \in At /\ cancelled \in BOOLEAN /\ outcome \in Outcome
        /\ (outcome # "none" <=> pc = "over")
    BY DEF Init, At, Outcome
  <2>4. QED
    BY <1>2, <2>1, <2>2, <2>3 DEF TypeOK
<1>4. Shape
  BY <1>1 DEF Init, Shape, Turns, Final, Waiting, Working
<1>5. Spoken = 1
  BY <1>1 DEF Init, Spoken, Waiting
<1>6. Covers(messages, Spoken) /\ Len(messages) <= Spoken /\ KeepsRecent
  BY <1>1, <1>5 DEF Covers, KeepsRecent
<1>7. QED
  BY <1>3, <1>4, <1>6 DEF Init, LoopInv, InRound

\* The conversation while the run waits outside of a batch.
LEMMA WaitingFacts ==
  ASSUME LoopInv, pc \in Waiting
  PROVE  /\ messages \in Seq(Message) /\ messages # <<>>
         /\ Turns(messages, Len(messages)) /\ Final.role # "assistant"
         /\ Asked \in 1..(2 * MaxIterations + 1) /\ Spoken = Asked
         /\ Covers(messages, Asked) /\ Len(messages) <= Asked
         /\ Len(messages) = Asked \/ Len(messages) >= KeepRecent
BY Constants DEF LoopInv, TypeOK, Shape, KeepsRecent, Spoken, Asked, Waiting

\* A step that leaves the conversation alone and stays outside of a batch.
LEMMA QuietWait ==
  ASSUME LoopInv, TypeOK', UNCHANGED <<messages, iteration>>,
         pc \in Waiting, pc' \in Waiting \cup {"over"},
         pc' \in {"summary", "request", "model"} => iteration < MaxIterations,
         pc' = "summary" => PickCutoff # 0
  PROVE  LoopInv'
<1>1. InRound'
  BY DEF InRound, PickCutoff, Cutoffs, Waiting
<1>2. ASSUME pc' # "over"
      PROVE  (Shape /\ Covers(messages, Spoken) /\ Len(messages) <= Spoken /\ KeepsRecent)'
  <2>1. pc' \in Waiting
    BY <1>2
  <2>2. Spoken' = Asked
    BY <2>1 DEF Spoken, Asked
  <2>3. Shape'
    BY <2>1, WaitingFacts DEF Shape, Final, Waiting, Working, Turns, MayFollow
  <2>4. QED
    BY <2>2, <2>3, WaitingFacts DEF KeepsRecent, Covers
<1>3. QED
  BY <1>1, <1>2 DEF LoopInv

\* The step that replaces the prefix.
LEMMA SummarizedInv ==
  ASSUME LoopInv, Summarized
  PROVE  LoopInv'
<1>1. /\ pc = "summary" /\ pc' = "request" /\ messages' = ApplySummary(PickCutoff)
      /\ UNCHANGED <<iteration, cancelled, outcome, late>>
      /\ PickCutoff # 0 /\ iteration < MaxIterations
  BY DEF Summarized, LoopInv, InRound
<1>2. pc \in Waiting /\ pc' \in Waiting
  BY <1>1 DEF Waiting
<1>3. /\ messages \in Seq(Message) /\ messages # <<>>
      /\ Turns(messages, Len(messages)) /\ Final.role # "assistant"
      /\ Asked \in 1..(2 * MaxIterations + 1)
      /\ Covers(messages, Asked) /\ Len(messages) <= Asked
  BY <1>2, WaitingFacts
<1>4. /\ PickCutoff \in 2..(Len(messages) - 1)
      /\ PickCutoff <= Len(messages) - KeepRecent + 1
      /\ messages[PickCutoff + 1].role = "assistant"
  BY <1>1, <1>3, CutoffFacts
<1>5. /\ messages' \in Seq(Message)
      /\ Len(messages') = Len(messages) - PickCutoff + 1
      /\ messages'[Len(messages')] = messages[Len(messages)]
      /\ Turns(messages', Len(messages')) /\ Covers(messages', Asked)
  BY <1>1, <1>3, <1>4, SummaryFacts
<1>6. Len(messages') >= 2 /\ Len(messages') <= Asked /\ Len(messages') >= KeepRecent
  BY <1>3, <1>4, <1>5, Constants
<1>7. messages' # <<>>
  BY <1>5, <1>6
<1>8. TypeOK'
  BY <1>1, <1>5, <1>7 DEF LoopInv, TypeOK, At
<1>9. Spoken' = Asked /\ Final'.role # "assistant"
  BY <1>1, <1>2, <1>3, <1>5 DEF Spoken, Asked, Final
<1>10. Shape'
  BY <1>1, <1>5, <1>9 DEF Shape, Working
<1>11. QED
  BY <1>1, <1>5, <1>6, <1>8, <1>9, <1>10 DEF LoopInv, InRound, KeepsRecent

\* The assistant turn that opens a batch.
LEMMA ModelCallsInv ==
  ASSUME LoopInv, ModelCalls
  PROVE  LoopInv'
<1>1. PICK n \in 1..MaxBatch :
        messages' = Append(messages,
          [role  |-> "assistant",
           calls |-> [k \in 1..n |-> <<iteration + 1, k>>],
           of    |-> {Reply}])
  BY DEF ModelCalls
<1> DEFINE cs == [k \in 1..n |-> <<iteration + 1, k>>]
           e == [role |-> "assistant", calls |-> cs, of |-> {Reply}]
<1>2. /\ pc = "model" /\ pc' = "tools" /\ iteration < MaxIterations
      /\ UNCHANGED <<iteration, cancelled, outcome, late>>
  BY DEF ModelCalls, LoopInv, InRound
<1>3. pc \in Waiting
  BY <1>2 DEF Waiting
<1>4. /\ messages \in Seq(Message) /\ messages # <<>>
      /\ Turns(messages, Len(messages)) /\ Final.role # "assistant"
      /\ Asked \in 1..(2 * MaxIterations + 1)
      /\ Covers(messages, Asked) /\ Len(messages) <= Asked
      /\ Len(messages) = Asked \/ Len(messages) >= KeepRecent
  BY <1>3, WaitingFacts
<1>5. iteration \in Nat /\ iteration + 1 \in 1..MaxIterations
      /\ Reply = Asked + 1 /\ Reply \in 1..(2 * MaxIterations + 1)
  BY <1>2, Constants DEF LoopInv, TypeOK, Asked, Reply
<1>6. cs \in Seq(Call) /\ cs # <<>>
  <2>1. n \in Nat /\ n >= 1 /\ \A k \in 1..n : k \in 1..MaxBatch
    BY Constants
  <2>2. \A k \in 1..n : <<iteration + 1, k>> \in Call
    BY <1>5, <2>1 DEF Call
  <2>3. cs \in [1..n -> Call]
    BY <2>2
  <2>4. cs \in Seq(Call)
    BY <2>1, <2>3, SeqDef
  <2>5. 1 \in DOMAIN cs
    BY <2>1
  <2>6. QED
    BY <2>4, <2>5
<1>7. e \in Message
  BY <1>5, <1>6 DEF Message
<1> HIDE DEF cs
<1>8. messages' = Append(messages, e)
  BY <1>1 DEF cs
<1>9. MayFollow(messages[Len(messages)], e)
  BY <1>4, <1>6 DEF MayFollow, Final
<1>10. Turns(messages', Len(messages) + 1)
  BY <1>4, <1>7, <1>8, <1>9, TurnsAppend
<1>11. Covers(messages', Asked + 1)
  BY <1>4, <1>5, <1>7, <1>8, CoversAppend
<1>12. /\ messages' \in Seq(Message) /\ messages' # <<>>
       /\ Len(messages') = Len(messages) + 1 /\ messages'[Len(messages')] = e
  BY <1>4, <1>7, <1>8, AppendProperties
<1>13. Final'.role = "assistant"
  BY <1>12 DEF Final
<1>14. Spoken' = Asked + 1
  BY <1>2, <1>5, <1>13 DEF Spoken, Waiting, Reply, Asked
<1>15. TypeOK'
  BY <1>2, <1>12 DEF LoopInv, TypeOK, At
<1>16. Shape'
  BY <1>2, <1>10, <1>12, <1>13 DEF Shape, Answering, Waiting
<1>17. Len(messages') <= Spoken' /\ KeepsRecent'
  BY <1>4, <1>12, <1>14, Constants DEF KeepsRecent
<1>18. QED
  BY <1>2, <1>11, <1>14, <1>15, <1>16, <1>17 DEF LoopInv, InRound

\* What a batch looks like from inside.
LEMMA BatchFacts ==
  ASSUME LoopInv, pc \in Working
  PROVE  /\ messages \in Seq(Message) /\ Len(messages) >= 2
         /\ Batch \in Seq(Call) /\ Results \in Seq(Call)
         /\ Len(Results) <= Len(Batch)
         /\ \A k \in 1..Len(Results) : Results[k] = Batch[k]
         /\ pc # "batch" => Len(Results) < Len(Batch)
         /\ iteration < MaxIterations /\ iteration \in Nat
         /\ Reply = Asked + 1 /\ Reply + 1 \in 1..(2 * MaxIterations + 1)
<1> DEFINE n == Len(messages)
<1>1. /\ messages \in Seq(Message) /\ messages # <<>> /\ n \in Nat /\ n >= 1
      /\ Answering /\ iteration < MaxIterations /\ iteration \in Nat
  BY Constants, EmptySeq DEF LoopInv, TypeOK, InRound, Shape, Working
<1>2. Reply = Asked + 1 /\ Reply + 1 \in 1..(2 * MaxIterations + 1)
  BY <1>1, Constants DEF Reply, Asked
<1>3. CASE Final.role = "assistant"
  <2>1. n >= 2
    BY <1>1, <1>3 DEF Answering, Turns, Final
  <2>2. MayFollow(messages[n - 1], messages[n])
    <3>1. n \in 2..n
      BY <1>1, <2>1
    <3>2. QED
      BY <1>1, <1>3, <3>1 DEF Answering, Turns
  <2>3. Batch = messages[n].calls /\ Results = <<>>
    BY <1>3 DEF Batch, Results
  <2>4. messages[n] \in Message
    BY <1>1
  <2>5. Batch \in Seq(Call) /\ Batch # <<>>
    BY <1>3, <2>2, <2>3, <2>4 DEF Message, MayFollow, Final
  <2>6. Len(Batch) > 0 /\ Len(Results) = 0
    BY <2>3, <2>5
  <2>7. QED
    BY <1>1, <1>2, <2>1, <2>3, <2>5, <2>6
<1>4. CASE Final.role # "assistant"
  <2>1. Final.role = "tool" /\ n > 2
    BY <1>1, <1>4 DEF Answering
  <2>2. Batch = messages[n - 1].calls /\ Results = messages[n].calls
    BY <2>1 DEF Batch, Results, Final
  <2>3. messages[n] \in Message /\ messages[n - 1] \in Message
    BY <1>1, <2>1
  <2>4. QED
    BY <1>1, <1>2, <1>4, <2>1, <2>2, <2>3 DEF Answering, Message
<1>5. QED
  BY <1>3, <1>4

\* A result, of a tool or of the policy.
LEMMA ToolResultInv ==
  ASSUME LoopInv, pc \in {"tools", "tool"},
         messages' = AddToolResult(NextCall), pc' = AfterResult,
         UNCHANGED <<iteration, cancelled, outcome>>, late' = late
  PROVE  LoopInv'
<1> DEFINE n == Len(messages)
           r == Len(Results)
           m == Len(messages')
<1>1. /\ messages \in Seq(Message) /\ n \in Nat /\ n >= 2
      /\ Batch \in Seq(Call) /\ Results \in Seq(Call)
      /\ r \in Nat /\ Len(Batch) \in Nat /\ r < Len(Batch)
      /\ \A k \in 1..r : Results[k] = Batch[k]
      /\ iteration < MaxIterations /\ iteration \in Nat
      /\ Reply = Asked + 1 /\ Reply + 1 \in 1..(2 * MaxIterations + 1)
      /\ Reply \in Nat
  <2>1. pc \in Working /\ pc # "batch"
    BY DEF Working
  <2>2. /\ messages \in Seq(Message) /\ n >= 2
        /\ Batch \in Seq(Call) /\ Results \in Seq(Call) /\ r < Len(Batch)
        /\ \A k \in 1..r : Results[k] = Batch[k]
        /\ iteration < MaxIterations /\ iteration \in Nat
        /\ Reply = Asked + 1 /\ Reply + 1 \in 1..(2 * MaxIterations + 1)
    BY <2>1, BatchFacts
  <2>3. n \in Nat /\ r \in Nat /\ Len(Batch) \in Nat
    BY <2>2
  <2>4. Reply \in Nat
    BY <2>2 DEF Reply, Asked
  <2>5. QED
    BY <2>2, <2>3, <2>4
<1>2. NextCall \in Call
  BY <1>1 DEF NextCall
<1>3. Answering /\ Covers(messages, Spoken) /\ n <= Spoken
      /\ (n = Spoken \/ n >= KeepRecent)
  BY DEF LoopInv, Shape, Working, KeepsRecent
<1>4. pc \notin Waiting /\ pc' \in {"tools", "batch"} /\ pc' \notin Waiting
  BY DEF Waiting, AfterResult
\* The new list of messages, in either case.
<1>5. /\ messages' \in Seq(Message) /\ m > 2 /\ m \in Nat
      /\ messages'[m].role = "tool" /\ messages'[m].calls = Append(Results, NextCall)
      /\ messages'[m - 1].role = "assistant" /\ messages'[m - 1].calls = Batch
      /\ Turns(messages', m - 1)
      /\ Covers(messages', Reply + 1) /\ m <= Reply + 1
      /\ m = Reply + 1 \/ m >= KeepRecent
  <2>1. CASE Final.role = "tool"
    <3>1. messages' = [messages EXCEPT ![n].calls = Append(@, NextCall)]
      BY <2>1 DEF AddToolResult
    <3>2. /\ n > 2 /\ messages[n - 1].role = "assistant" /\ Turns(messages, n - 1)
          /\ Spoken = Reply + 1
          /\ Batch = messages[n - 1].calls /\ Results = messages[n].calls
      BY <1>3, <1>4, <2>1 DEF Answering, Spoken, Batch, Results, Final
    <3>3. messages[n] \in Message /\ n \in 1..n
      BY <1>1
    <3>4. /\ m = n /\ messages' \in Seq(Message)
          /\ \A k \in 1..n : k # n => messages'[k] = messages[k]
          /\ messages'[n].role = messages[n].role
          /\ messages'[n].of = messages[n].of
          /\ messages'[n].calls = Append(Results, NextCall)
      <4>1. DEFINE e == [messages[n] EXCEPT !.calls = Append(@, NextCall)]
      <4>2. /\ e \in Message /\ e.role = messages[n].role /\ e.of = messages[n].of
            /\ e.calls = Append(Results, NextCall)
        <5>1. e = [messages[n] EXCEPT !.calls = Append(Results, NextCall)]
          BY <3>2
        <5>2. Append(Results, NextCall) \in Seq(Call)
          BY <1>1, <1>2
        <5>3. QED
          BY <3>3, <5>1, <5>2 DEF Message
      <4>3. messages' = [messages EXCEPT ![n] = e]
        BY <3>1
      <4> HIDE DEF e
      <4>4. QED
        BY <1>1, <3>3, <4>2, <4>3
    <3>5. Turns(messages', n - 1)
      <4>1. messages'[1] = messages[1]
        BY <1>1, <3>4
      <4>2. ASSUME NEW k \in 2..(n - 1)
            PROVE  messages'[k] = messages[k] /\ messages'[k - 1] = messages[k - 1]
        <5>1. k \in 1..n /\ k # n /\ k - 1 \in 1..n /\ k - 1 # n
          BY <1>1, <4>2
        <5>2. QED
          BY <3>4, <5>1
      <4>3. QED
        BY <3>2, <4>1, <4>2 DEF Turns
    <3>6. Covers(messages', Reply + 1)
      <4>1. \A k \in 1..n : messages'[k].of = messages[k].of
        BY <1>1, <3>4
      <4>2. 1 \in 1..n /\ \A k \in 2..n : k \in 1..n
        BY <1>1
      <4>3. QED
        BY <1>3, <3>2, <3>4, <4>1, <4>2 DEF Covers
    <3>7. messages'[n - 1] = messages[n - 1] /\ messages'[n].role = "tool"
      <4>1. n - 1 \in 1..n /\ n - 1 # n
        BY <1>1
      <4>2. QED
        BY <2>1, <3>4, <4>1 DEF Final
    <3>8. QED
      BY <1>1, <1>3, <3>2, <3>4, <3>5, <3>6, <3>7
  <2>2. CASE Final.role # "tool"
    <3> DEFINE e == [role |-> "tool", calls |-> <<NextCall>>, of |-> {Reply + 1}]
    <3>1. messages' = Append(messages, e)
      BY <2>2 DEF AddToolResult
    <3>2. /\ Final.role = "assistant" /\ Turns(messages, n) /\ Spoken = Reply
          /\ Batch = messages[n].calls /\ Results = <<>>
      BY <1>3, <1>4, <2>2 DEF Answering, Spoken, Batch, Results, Final
    <3>3. e \in Message
      BY <1>1, <1>2 DEF Message
    <3>4. e.role = "tool" /\ e.calls = Append(Results, NextCall) /\ e.of = {Reply + 1}
      BY <1>2, <3>2
    <3> HIDE DEF e
    <3>5. /\ m = n + 1 /\ messages' \in Seq(Message) /\ messages'[n + 1] = e
          /\ \A k \in 1..n : messages'[k] = messages[k]
      BY <1>1, <3>1, <3>3, AppendProperties
    <3>6. Turns(messages', n)
      <4>1. \A k \in 2..n : k \in 1..n /\ k - 1 \in 1..n
        BY <1>1
      <4>2. 1 \in 1..n
        BY <1>1
      <4>3. QED
        BY <3>2, <3>5, <4>1, <4>2 DEF Turns
    <3>7. Covers(messages', Reply + 1)
      <4>1. messages # <<>>
        BY <1>1
      <4>2. QED
        BY <1>1, <1>3, <3>1, <3>2, <3>3, <3>4, <4>1, CoversAppend
    <3>8. messages'[n] = messages[n] /\ messages[n].role = "assistant"
      BY <1>1, <3>2, <3>5 DEF Final
    <3>9. m - 1 = n /\ m > 2 /\ m <= Reply + 1 /\ (m = Reply + 1 \/ m >= KeepRecent)
      BY <1>1, <1>3, <3>2, <3>5, Constants
    <3>10. QED
      BY <1>1, <3>2, <3>4, <3>5, <3>6, <3>7, <3>8, <3>9
  <2>3. QED
    BY <2>1, <2>2
<1>6. /\ Final' = messages'[m] /\ Final'.role = "tool"
      /\ Results' = Append(Results, NextCall) /\ Batch' = Batch
  BY <1>5 DEF Final, Results, Batch
<1>7. /\ Len(Results') = r + 1
      /\ \A k \in 1..(r + 1) : Results'[k] = Batch[k]
  <2>1. Append(Results, NextCall)[r + 1] = NextCall
        /\ \A k \in 1..r : Append(Results, NextCall)[k] = Results[k]
        /\ Len(Append(Results, NextCall)) = r + 1
    BY <1>1, <1>2
  <2>2. NextCall = Batch[r + 1]
    BY DEF NextCall
  <2>3. QED
    BY <1>1, <1>6, <2>1, <2>2
<1>8. /\ pc' # "batch" => r + 1 < Len(Batch)
      /\ pc' = "batch" /\ ~cancelled => r + 1 = Len(Batch)
  BY <1>1 DEF AfterResult
<1>9. Answering'
  <2>1. /\ Len(messages') > 2
        /\ messages'[Len(messages') - 1].role = "assistant"
        /\ Turns(messages', Len(messages') - 1)
    BY <1>1, <1>5
  <2>2. /\ Len(Results') <= Len(Batch')
        /\ \A k \in 1..Len(Results') : Results'[k] = Batch'[k]
    BY <1>1, <1>6, <1>7
  <2>3. /\ pc' # "batch" => Len(Results') < Len(Batch')
        /\ pc' = "batch" /\ ~cancelled' => Len(Results') = Len(Batch')
    BY <1>1, <1>6, <1>7, <1>8
  <2>4. QED
    BY <1>6, <2>1, <2>2, <2>3 DEF Answering
<1>10. Spoken' = Reply + 1
  BY <1>4, <1>6 DEF Spoken, Reply, Asked
<1>11. TypeOK'
  <2>1. messages' # <<>>
    BY <1>5
  <2>2. QED
    BY <1>4, <1>5, <2>1 DEF LoopInv, TypeOK, At
<1>12. Shape' /\ KeepsRecent' /\ Covers(messages', Spoken') /\ m <= Spoken'
  BY <1>4, <1>5, <1>9, <1>10 DEF Shape, KeepsRecent
<1>13. QED
  BY <1>1, <1>4, <1>11, <1>12 DEF LoopInv, InRound

LEMMA NextLoopInv == LoopInv /\ [Next]_vars => LoopInv'
<1> SUFFICES ASSUME LoopInv, [Next]_vars PROVE LoopInv'
  OBVIOUS
<1>t. TypeOK
  BY DEF LoopInv
\* The run is over.
<1>o. ASSUME TypeOK', pc' = "over" PROVE LoopInv'
  BY <1>o DEF LoopInv, InRound
<1>1. CASE Cancel
  <2>1. TypeOK'
    BY <1>1, <1>t DEF Cancel, TypeOK
  <2>2. Spoken' = Spoken /\ Shape' /\ KeepsRecent' /\ InRound'
    BY <1>1
       DEF Cancel, LoopInv, Spoken, Asked, Reply, Final, Shape, Answering, Results,
           Batch, KeepsRecent, InRound, PickCutoff, Cutoffs
  <2>3. QED
    BY <1>1, <2>1, <2>2 DEF Cancel, LoopInv
<1>2. CASE SkipCompaction
  <2>1. TypeOK'
    BY <1>2, <1>t DEF SkipCompaction, TypeOK, At
  <2>2. QED
    BY <1>2, <2>1, QuietWait DEF SkipCompaction, MoreIterations, Waiting
<1>3. CASE AskSummary
  <2>1. TypeOK'
    BY <1>3, <1>t DEF AskSummary, TypeOK, At
  <2>2. QED
    BY <1>3, <2>1, QuietWait DEF AskSummary, MoreIterations, Waiting
<1>4. CASE Summarized
  BY <1>4, SummarizedInv
<1>5. CASE SummaryAbandoned \/ SendRequest
  <2>1. TypeOK'
    BY <1>5, <1>t DEF SummaryAbandoned, SendRequest, TypeOK, At
  <2>2. iteration < MaxIterations
    BY <1>5 DEF SummaryAbandoned, SendRequest, LoopInv, InRound
  <2>3. QED
    BY <1>5, <2>1, <2>2, QuietWait DEF SummaryAbandoned, SendRequest, Waiting
<1>6. CASE CancelledAtModel \/ ModelFails \/ ModelIsDone \/ OutOfIterations
  <2>1. TypeOK' /\ pc' = "over"
    BY <1>6, <1>t
       DEF CancelledAtModel, ModelFails, ModelIsDone, OutOfIterations, Finish,
           TypeOK, At, Outcome
  <2>2. QED
    BY <1>o, <2>1
<1>7. CASE ModelCalls
  BY <1>7, ModelCallsInv
<1>8. CASE Denied \/ ToolReturns
  BY <1>8, ToolResultInv DEF Denied, ToolReturns
<1>9. CASE StartTool
  <2>1. TypeOK'
    BY <1>9, <1>t DEF StartTool, TypeOK, At
  <2>2. Spoken' = Spoken /\ Shape' /\ KeepsRecent' /\ InRound'
    BY <1>9
       DEF StartTool, LoopInv, Spoken, Asked, Reply, Final, Shape, Answering, Results,
           Batch, KeepsRecent, InRound, PickCutoff, Cutoffs, Waiting, Working
  <2>3. QED
    BY <1>9, <2>1, <2>2 DEF StartTool, LoopInv
<1>10. CASE BatchDone
  <2>1. CASE cancelled
    <3>1. TypeOK' /\ pc' = "over"
      BY <1>10, <2>1, <1>t DEF BatchDone, Finish, TypeOK, At, Outcome
    <3>2. QED
      BY <1>o, <3>1
  <2>2. CASE ~cancelled
    <3> DEFINE n == Len(messages)
    <3>1. /\ pc = "batch" /\ pc' = "top" /\ iteration' = iteration + 1
          /\ UNCHANGED <<messages, cancelled, outcome, late>>
      BY <1>10, <2>2 DEF BatchDone
    <3>2. /\ messages \in Seq(Message) /\ n \in Nat
          /\ Batch \in Seq(Call) /\ Results \in Seq(Call)
          /\ \A k \in 1..Len(Results) : Results[k] = Batch[k]
          /\ iteration < MaxIterations /\ iteration \in Nat
      BY <3>1, BatchFacts DEF Working
    <3>3. /\ Final.role = "tool" /\ n > 2
          /\ messages[n - 1].role = "assistant" /\ Turns(messages, n - 1)
          /\ Len(Results) = Len(Batch)
      BY <2>2, <3>1 DEF LoopInv, Shape, Working, Answering
    <3>4. Results = Batch
      BY <3>2, <3>3
    <3>5. messages[n].calls = messages[n - 1].calls
      BY <3>3, <3>4 DEF Results, Batch, Final
    <3>6. Turns(messages, n)
      <4>1. MayFollow(messages[n - 1], messages[n])
        BY <3>3, <3>5 DEF MayFollow, Final
      <4>2. \A k \in 2..n : k = n \/ k \in 2..(n - 1)
        BY <3>2
      <4>3. QED
        BY <3>3, <4>1, <4>2 DEF Turns
    <3>7. Spoken = Reply + 1 /\ Spoken' = Spoken
      BY <3>1, <3>2, <3>3 DEF Spoken, Asked, Reply, Waiting
    <3>8. TypeOK'
      BY <1>t, <3>1, <3>2, Constants DEF TypeOK, At
    <3>9. Shape'
      BY <3>1, <3>3, <3>6 DEF Shape, Final, Waiting, Working
    <3>10. QED
      BY <3>1, <3>7, <3>8, <3>9 DEF LoopInv, KeepsRecent, InRound
  <2>3. QED
    BY <2>1, <2>2
<1>11. CASE UNCHANGED vars
  <2>1. TypeOK'
    BY <1>11, <1>t DEF vars, TypeOK
  <2>2. UNCHANGED <<messages, iteration, pc, cancelled, outcome, late>>
    BY <1>11 DEF vars
  <2>3. /\ Spoken' = Spoken /\ Final' = Final
        /\ Results' = Results /\ Batch' = Batch
    BY <2>2 DEF Spoken, Asked, Reply, Final, Results, Batch
  <2>4. Answering' = Answering
    BY <2>2, <2>3 DEF Answering
  <2>5. Shape' = Shape
    BY <2>2, <2>3, <2>4 DEF Shape
  <2>6. Cutoffs' = Cutoffs
    BY <2>2 DEF Cutoffs
  <2>7. InRound' = InRound
    BY <2>2, <2>6 DEF InRound, PickCutoff
  <2>8. KeepsRecent' = KeepsRecent
    BY <2>2, <2>3 DEF KeepsRecent
  <2>9. QED
    BY <2>1, <2>2, <2>3, <2>5, <2>7, <2>8 DEF LoopInv
<1>12. QED
  BY <1>1, <1>2, <1>3, <1>4, <1>5, <1>6, <1>7, <1>8, <1>9, <1>10, <1>11
     DEF Next, Compact, Converse, Execute

-----------------------------------------------------------------------------
(* Theorems.                                                               *)

\* The variables keep their types; no task gets more rounds than it may have
\* (run_with_cancel).
THEOREM LoopTypeCorrect == Spec => []TypeOK
<1>1. LoopInv => TypeOK
  BY DEF LoopInv
<1>2. QED
  BY InitLoopInv, NextLoopInv, <1>1, PTL DEF Spec

\* Every request in flight alternates its roles and answers each call in the
\* next message, whatever was compacted, denied or interrupted before
\* (Context, apply_summary, run_with_cancel).
THEOREM RequestsWellFormed == Spec => []RequestWellFormed
<1>1. ASSUME LoopInv, InFlight PROVE Alternates /\ Paired
  <2>1. /\ Turns(messages, Len(messages)) /\ Final.role # "assistant"
    BY <1>1, WaitingFacts DEF InFlight, Waiting
  <2>2. QED
    BY <2>1 DEF Turns, MayFollow, Alternates, Paired
<1>2. LoopInv => RequestWellFormed
  BY <1>1 DEF RequestWellFormed
<1>3. QED
  BY InitLoopInv, NextLoopInv, <1>2, PTL DEF Spec

\* Every request stands for all that was said, once and in order
\* (maybe_compact, apply_summary).
THEOREM NothingIsForgotten == Spec => []NothingForgotten
<1>1. ASSUME LoopInv, InFlight
      PROVE  /\ UNION {messages[k].of : k \in 1..Len(messages)} = 1..Asked
             /\ \A j, k \in 1..Len(messages) :
                  j < k => \A a \in messages[j].of, b \in messages[k].of : a < b
  <2> DEFINE n == Len(messages)
  <2>1. /\ messages \in Seq(Message) /\ messages # <<>> /\ Covers(messages, Asked)
        /\ Asked \in Nat /\ n <= Asked /\ n \in Nat /\ n >= 1
    BY <1>1, WaitingFacts, EmptySeq DEF InFlight, Waiting
  <2>2. ASSUME NEW k \in 1..n, NEW x \in messages[k].of
        PROVE  /\ x \in 1..Asked
               /\ k = 1 => x <= Asked - n + 1
               /\ k # 1 => x = Asked - n + k
    <3>1. CASE k = 1
      BY <2>1, <2>2, <3>1 DEF Covers
    <3>2. CASE k # 1
      <4>1. k \in 2..n
        BY <2>1, <3>2
      <4>2. messages[k].of = {Asked - n + k}
        BY <2>1, <4>1 DEF Covers
      <4>3. x = Asked - n + k
        BY <2>2, <4>2
      <4>4. QED
        BY <2>1, <3>2, <4>1, <4>3
    <3>3. QED
      BY <3>1, <3>2
  <2>3. ASSUME NEW x \in 1..Asked PROVE \E k \in 1..n : x \in messages[k].of
    <3>1. CASE x \in 1..(Asked - n + 1)
      <4>1. x \in messages[1].of /\ 1 \in 1..n
        BY <2>1, <3>1 DEF Covers
      <4>2. QED
        BY <4>1
    <3>2. CASE x \notin 1..(Asked - n + 1)
      <4>1. x - (Asked - n) \in 2..n /\ x - (Asked - n) \in 1..n
            /\ Asked - n + (x - (Asked - n)) = x
        BY <2>1, <3>2
      <4>2. messages[x - (Asked - n)].of = {Asked - n + (x - (Asked - n))}
        BY <2>1, <4>1 DEF Covers
      <4>3. x \in messages[x - (Asked - n)].of
        BY <4>1, <4>2
      <4>4. QED
        BY <4>1, <4>3
    <3>3. QED
      BY <3>1, <3>2
  <2>4. UNION {messages[k].of : k \in 1..n} = 1..Asked
    BY <2>2, <2>3
  <2>5. ASSUME NEW j \in 1..n, NEW k \in 1..n, j < k,
               NEW a \in messages[j].of, NEW b \in messages[k].of
        PROVE  a < b
    <3>1. k # 1 /\ b = Asked - n + k
      BY <2>1, <2>2, <2>5
    <3>2. CASE j = 1
      BY <2>1, <2>2, <2>5, <3>1, <3>2
    <3>3. CASE j # 1
      <4>1. a = Asked - n + j
        BY <2>2, <3>3
      <4>2. QED
        BY <2>1, <2>5, <3>1, <4>1
    <3>4. QED
      BY <3>2, <3>3
  <2>6. QED
    BY <2>4, <2>5
<1>2. LoopInv => NothingForgotten
  BY <1>1 DEF NothingForgotten
<1>3. QED
  BY InitLoopInv, NextLoopInv, <1>2, PTL DEF Spec

\* Compaction never touches the last KeepRecent messages, but for one
\* (pick_cutoff).
THEOREM RecentStaysVerbatim == Spec => []RecentIsVerbatim
<1>1. ASSUME LoopInv, InFlight, NEW x \in 1..Asked, x > Asked - KeepRecent + 1
      PROVE  \E k \in 1..Len(messages) : messages[k].of = {x}
  <2> DEFINE n == Len(messages)
             k == x - (Asked - n)
  <2>1. /\ messages \in Seq(Message) /\ Covers(messages, Asked)
        /\ Asked \in Nat /\ n <= Asked /\ n \in Nat /\ messages # <<>>
        /\ n = Asked \/ n >= KeepRecent
    BY <1>1, WaitingFacts DEF InFlight, Waiting
  <2>2. n >= 1 /\ KeepRecent \in Nat
    BY <2>1, EmptySeq, Constants
  <2>3. k \in 1..n /\ Asked - n + k = x
    BY <1>1, <2>1, <2>2
  <2>4. CASE k = 1
    <3>1. n = Asked /\ x = 1 /\ Asked - n + 1 = 1
      BY <1>1, <2>1, <2>2, <2>3, <2>4
    <3>2. messages[1].of = 1..1
      BY <2>1, <3>1 DEF Covers
    <3>3. messages[1].of = {x} /\ 1 \in 1..n
      BY <2>2, <3>1, <3>2
    <3>4. QED
      BY <3>3
  <2>5. CASE k # 1
    <3>1. k \in 2..n
      BY <2>1, <2>3, <2>5
    <3>2. messages[k].of = {x}
      BY <2>1, <2>3, <3>1 DEF Covers
    <3>3. QED
      BY <2>3, <3>2
  <2>6. QED
    BY <2>4, <2>5
<1>2. LoopInv => RecentIsVerbatim
  BY <1>1 DEF RecentIsVerbatim
<1>3. QED
  BY InitLoopInv, NextLoopInv, <1>2, PTL DEF Spec

-----------------------------------------------------------------------------
(* Cancellation.  A call begun after it is the last: the batch is left.    *)

CancelInv ==
  /\ late \in {0, 1}
  /\ late = 1 => cancelled /\ pc \in {"tool", "batch", "over"}

LEMMA InitCancelInv == Init => CancelInv
BY DEF Init, CancelInv

LEMMA NextCancelInv == CancelInv /\ [Next]_vars => CancelInv'
<1> SUFFICES ASSUME CancelInv, [Next]_vars PROVE CancelInv'
  OBVIOUS
<1>1. CASE Cancel
  BY <1>1 DEF Cancel, CancelInv
<1>2. CASE Compact
  BY <1>2 DEF Compact, SkipCompaction, AskSummary, Summarized, SummaryAbandoned, CancelInv
<1>3. CASE Converse
  BY <1>3 DEF Converse, SendRequest, CancelledAtModel, ModelFails, ModelIsDone,
              ModelCalls, Finish, CancelInv
<1>4. CASE Denied
  BY <1>4 DEF Denied, CancelInv
<1>5. CASE StartTool
  BY <1>5 DEF StartTool, CancelInv
<1>6. CASE ToolReturns
  BY <1>6 DEF ToolReturns, AfterResult, CancelInv
<1>7. CASE BatchDone
  BY <1>7 DEF BatchDone, Finish, CancelInv
<1>8. CASE OutOfIterations
  BY <1>8 DEF OutOfIterations, Finish, CancelInv
<1>9. CASE UNCHANGED vars
  BY <1>9 DEF vars, CancelInv
<1>10. QED
  BY <1>1, <1>2, <1>3, <1>4, <1>5, <1>6, <1>7, <1>8, <1>9 DEF Next, Execute

\* A cancelled run begins at most one more tool call (run_with_cancel).
THEOREM CancellationIsSoon == Spec => []CancelStopsSoon
<1>1. CancelInv => CancelStopsSoon
  BY DEF CancelInv, CancelStopsSoon
<1>2. QED
  BY InitCancelInv, NextCancelInv, <1>1, PTL DEF Spec

-----------------------------------------------------------------------------
(* The tools of a run.                                                     *)

\* D has the first tool of each name among the first m of L, and no other.
Firsts(D, L, m) ==
  /\ \A j \in 1..Len(D) : \E k \in 1..m : D[j] = L[k]
  /\ \A i, j \in 1..Len(D) : i # j => D[i].name # D[j].name
  /\ \A k \in 1..m :
       /\ \E j \in 1..Len(D) : D[j].name = L[k].name
       /\ (\A i \in 1..(k - 1) : L[i].name # L[k].name) => \E j \in 1..Len(D) : D[j] = L[k]

LEMMA UnseenStep ==
  ASSUME NEW T, NEW L \in Seq(T), NEW D \in Seq(T), NEW m \in 1..Len(L), Firsts(D, L, m - 1)
  PROVE  Unseen(D, L[m]) \in Seq(T) /\ Firsts(Unseen(D, L[m]), L, m)
<1> DEFINE t == L[m]
           N == Unseen(D, t)
<1>1. t \in T /\ m \in Nat /\ m >= 1 /\ DOMAIN D = 1..Len(D) /\ Len(D) \in Nat
  OBVIOUS
<1>2. /\ \A j \in 1..Len(D) : \E k \in 1..(m - 1) : D[j] = L[k]
      /\ \A i, j \in 1..Len(D) : i # j => D[i].name # D[j].name
      /\ \A k \in 1..(m - 1) :
           /\ \E j \in 1..Len(D) : D[j].name = L[k].name
           /\ (\A i \in 1..(k - 1) : L[i].name # L[k].name) => \E j \in 1..Len(D) : D[j] = L[k]
  BY DEF Firsts
<1>3. \A k \in 1..m : k = m \/ k \in 1..(m - 1)
  BY <1>1
<1>4. \A k \in 1..(m - 1) : k \in 1..m
  BY <1>1
<1>5. CASE \E j \in 1..Len(D) : D[j].name = t.name
  <2>1. N = D
    BY <1>1, <1>5 DEF Unseen
  <2>2. ~(\A i \in 1..(m - 1) : L[i].name # t.name)
    <3>1. PICK j \in 1..Len(D) : D[j].name = t.name
      BY <1>5
    <3>2. PICK k \in 1..(m - 1) : D[j] = L[k]
      BY <1>2
    <3>3. QED
      BY <3>1, <3>2
  <2> HIDE DEF N, t
  <2>3. \A j \in 1..Len(D) : \E k \in 1..m : D[j] = L[k]
    BY <1>2, <1>4
  <2>4. ASSUME NEW k \in 1..m
        PROVE  /\ \E j \in 1..Len(D) : D[j].name = L[k].name
               /\ (\A i \in 1..(k - 1) : L[i].name # L[k].name) => \E j \in 1..Len(D) : D[j] = L[k]
    <3>1. CASE k = m
      BY <1>5, <2>2, <3>1 DEF t
    <3>2. CASE k \in 1..(m - 1)
      BY <1>2, <3>2
    <3>3. QED
      BY <1>3, <3>1, <3>2
  <2>5. QED
    BY <1>2, <2>1, <2>3, <2>4 DEF Firsts, N, t
<1>6. CASE \A j \in 1..Len(D) : D[j].name # t.name
  <2>1. N = Append(D, t)
    BY <1>1, <1>6 DEF Unseen
  <2> HIDE DEF N, t
  <2>2. /\ N \in Seq(T) /\ Len(N) = Len(D) + 1 /\ N[Len(D) + 1] = t
        /\ \A j \in 1..Len(D) : N[j] = D[j]
    BY <1>1, <2>1
  <2>3. /\ \A j \in 1..Len(N) : j = Len(D) + 1 \/ j \in 1..Len(D)
        /\ \A j \in 1..Len(D) : j \in 1..Len(N)
        /\ Len(D) + 1 \in 1..Len(N)
    BY <1>1, <2>2
  <2>4. \A j \in 1..Len(N) : \E k \in 1..m : N[j] = L[k]
    <3> SUFFICES ASSUME NEW j \in 1..Len(N) PROVE \E k \in 1..m : N[j] = L[k]
      OBVIOUS
    <3>1. CASE j = Len(D) + 1
      BY <1>1, <2>2, <3>1 DEF t
    <3>2. CASE j \in 1..Len(D)
      <4>1. PICK k \in 1..(m - 1) : D[j] = L[k]
        BY <1>2, <3>2
      <4>2. QED
        BY <1>4, <2>2, <3>2, <4>1
    <3>3. QED
      BY <2>3, <3>1, <3>2
  <2>5. ASSUME NEW i \in 1..Len(N), NEW j \in 1..Len(N), i # j PROVE N[i].name # N[j].name
    <3>1. CASE i \in 1..Len(D) /\ j \in 1..Len(D)
      <4>1. D[i].name # D[j].name
        BY <1>2, <2>5, <3>1
      <4>2. QED
        BY <2>2, <3>1, <4>1
    <3>2. CASE i = Len(D) + 1 /\ j \in 1..Len(D)
      BY <1>6, <2>2, <3>2
    <3>3. CASE i \in 1..Len(D) /\ j = Len(D) + 1
      BY <1>6, <2>2, <3>3
    <3>4. QED
      BY <2>3, <2>5, <3>1, <3>2, <3>3
  <2>6. ASSUME NEW k \in 1..m
        PROVE  /\ \E j \in 1..Len(N) : N[j].name = L[k].name
               /\ (\A i \in 1..(k - 1) : L[i].name # L[k].name) => \E j \in 1..Len(N) : N[j] = L[k]
    <3>1. CASE k = m
      BY <2>2, <2>3, <3>1 DEF t
    <3>2. CASE k \in 1..(m - 1)
      <4>1. PICK j \in 1..Len(D) : D[j].name = L[k].name
        BY <1>2, <3>2
      <4>2. N[j].name = L[k].name /\ j \in 1..Len(N)
        BY <2>2, <2>3, <4>1
      <4>3. ASSUME \A i \in 1..(k - 1) : L[i].name # L[k].name
            PROVE  \E i \in 1..Len(N) : N[i] = L[k]
        <5>1. PICK i \in 1..Len(D) : D[i] = L[k]
          BY <1>2, <3>2, <4>3
        <5>2. QED
          BY <2>2, <2>3, <5>1
      <4>4. QED
        BY <4>2, <4>3
    <3>3. QED
      BY <1>3, <3>1, <3>2
  <2>7. QED
    BY <2>2, <2>4, <2>5, <2>6 DEF Firsts, N, t
<1>7. QED
  BY <1>5, <1>6

\* What discover_tools finds: of each name the first tool.
LEMMA SeenFacts ==
  ASSUME NEW T, NEW L \in Seq(T)
  PROVE  Seen(L)[Len(L)] \in Seq(T) /\ Firsts(Seen(L)[Len(L)], L, Len(L))
<1> DEFINE n == Len(L)
           A == Seq(T)
           step == [k \in 1..n |-> [D \in A |-> Unseen(D, L[k])]]
           Is(f) == f = [k \in 0..n |-> IF k = 0 THEN <<>> ELSE Unseen(f[k - 1], L[k])]
<1>1. n \in Nat /\ <<>> \in A
  OBVIOUS
<1>2. \A D \in A, k \in 1..n : Unseen(D, L[k]) \in A
  BY DEF Unseen
<1>3. step \in [1..n -> [A -> A]]
  <2> HIDE DEF A
  <2>1. QED
    BY <1>2
<1>4. PICK f : Follows(f, A, <<>>, n, step)
  <2> HIDE DEF A, n, step
  <2>1. QED
    BY <1>1, <1>3, RecursionExists
<1>5. f \in [0..n -> A] /\ f[0] = <<>> /\ \A k \in 1..n : f[k] = step[k][f[k - 1]]
  <2> HIDE DEF A, n, step
  <2>1. QED
    BY <1>4 DEF Follows
<1>6. \A k \in 1..n : f[k - 1] \in A /\ f[k] = Unseen(f[k - 1], L[k])
  <2> SUFFICES ASSUME NEW k \in 1..n PROVE f[k - 1] \in A /\ f[k] = Unseen(f[k - 1], L[k])
    OBVIOUS
  <2>1. k - 1 \in 0..n
    BY <1>1
  <2> HIDE DEF A, n
  <2>2. f[k - 1] \in A
    BY <1>5, <2>1
  <2>3. QED
    BY <1>5, <2>2
<1>7. Is(f)
  <2>1. \A k \in 0..n : f[k] = IF k = 0 THEN <<>> ELSE Unseen(f[k - 1], L[k])
    BY <1>1, <1>5, <1>6
  <2>2. f = [k \in 0..n |-> f[k]]
    BY <1>5
  <2>3. QED
    BY <2>1, <2>2, Zenon
<1>8. Is(Seen(L))
  BY <1>7, Zenon DEF Seen
<1> DEFINE g == Seen(L)
           Good == {k \in 0..n : g[k] \in A /\ Firsts(g[k], L, k)}
<1> HIDE DEF g
<1>9. g[0] = <<>> /\ \A k \in 1..n : g[k] = Unseen(g[k - 1], L[k])
  <2>1. \A k \in 0..n : g[k] = IF k = 0 THEN <<>> ELSE Unseen(g[k - 1], L[k])
    BY <1>8 DEF g
  <2>2. 0 \in 0..n /\ \A k \in 1..n : k \in 0..n /\ k # 0
    BY <1>1
  <2> HIDE DEF n
  <2>3. QED
    BY <2>1, <2>2
<1>10. 0 \in Good
  <2>1. g[0] \in A /\ Len(g[0]) = 0
    BY <1>1, <1>9
  <2>2. Firsts(g[0], L, 0)
    BY <2>1 DEF Firsts
  <2>3. QED
    BY <1>1, <2>1, <2>2
<1>11. \A k \in 1..n : k - 1 \in Good => k \in Good
  BY <1>9, UnseenStep
<1>12. n \in Good
  <2>1. n \in 0..n
    BY <1>1
  <2> HIDE DEF Good, n
  <2>2. QED
    BY <1>1, <1>10, <1>11, <2>1, Climb
<1>13. QED
  BY <1>12 DEF g

\* Registries of tools of T.
Registries(T) == UNION {[D -> T] : D \in SUBSET {t.name : t \in T}}

\* R is R0 with the first tool of each new name among the first m of L.
Grown(R0, R, L, m) ==
  /\ \A n \in DOMAIN R0 : n \in DOMAIN R /\ R[n] = R0[n]
  /\ \A n \in DOMAIN R : n \in DOMAIN R0 \/ \E k \in 1..m : R[n] = L[k] /\ L[k].name = n
  /\ \A k \in 1..m :
       /\ L[k].name \in DOMAIN R
       /\ L[k].name \notin DOMAIN R0 /\ (\A i \in 1..(k - 1) : L[i].name # L[k].name)
            => R[L[k].name] = L[k]

\* N is R with t, if R has no tool of the name.
Takes(R, t, N) ==
  /\ DOMAIN N = DOMAIN R \cup {t.name}
  /\ \A n \in DOMAIN R : N[n] = R[n]
  /\ t.name \notin DOMAIN R => N[t.name] = t

LEMMA RegisterType ==
  ASSUME NEW T, NEW R \in Registries(T), NEW t \in T
  PROVE  Register(R, t) \in Registries(T) /\ Takes(R, t, Register(R, t))
<1>1. PICK D \in SUBSET {u.name : u \in T} : R \in [D -> T]
  BY DEF Registries
<1>2. Register(R, t) \in [D \cup {t.name} -> T]
  BY <1>1 DEF Register
<1>3. D \cup {t.name} \in SUBSET {u.name : u \in T}
  BY <1>1
<1>4. QED
  BY <1>1, <1>2, <1>3 DEF Registries, Register, Takes

LEMMA RegisterStep ==
  ASSUME NEW T, NEW L \in Seq(T), NEW R0 \in Registries(T), NEW R \in Registries(T),
         NEW m \in 1..Len(L), Grown(R0, R, L, m - 1)
  PROVE  Grown(R0, Register(R, L[m]), L, m)
<1> DEFINE t == L[m]
           N == Register(R, t)
<1>1. t \in T /\ m \in Nat /\ m >= 1
  OBVIOUS
<1>2. /\ DOMAIN N = DOMAIN R \cup {t.name} /\ \A n \in DOMAIN R : N[n] = R[n]
      /\ t.name \notin DOMAIN R => N[t.name] = t
  <2> HIDE DEF t, N
  <2>1. Takes(R, t, N)
    BY <1>1, RegisterType DEF N
  <2>2. QED
    BY <2>1 DEF Takes
<1>3. /\ \A n \in DOMAIN R0 : n \in DOMAIN R /\ R[n] = R0[n]
      /\ \A n \in DOMAIN R : n \in DOMAIN R0 \/ \E k \in 1..(m - 1) : R[n] = L[k] /\ L[k].name = n
      /\ \A k \in 1..(m - 1) :
           /\ L[k].name \in DOMAIN R
           /\ L[k].name \notin DOMAIN R0 /\ (\A i \in 1..(k - 1) : L[i].name # L[k].name)
                => R[L[k].name] = L[k]
  BY DEF Grown
<1>4. (\A k \in 1..m : k = m \/ k \in 1..(m - 1)) /\ \A k \in 1..(m - 1) : k \in 1..m
  BY <1>1
<1> HIDE DEF t, N
<1>5. \A n \in DOMAIN R0 : n \in DOMAIN N /\ N[n] = R0[n]
  BY <1>2, <1>3
<1>6. ASSUME NEW n \in DOMAIN N, n \notin DOMAIN R0
      PROVE  \E k \in 1..m : N[n] = L[k] /\ L[k].name = n
  <2>1. CASE n \in DOMAIN R
    <3>1. PICK k \in 1..(m - 1) : R[n] = L[k] /\ L[k].name = n
      BY <1>3, <1>6, <2>1
    <3>2. QED
      BY <1>2, <1>4, <2>1, <3>1
  <2>2. CASE n \notin DOMAIN R
    <3>1. n = t.name /\ N[n] = t /\ m \in 1..m
      BY <1>1, <1>2, <1>6, <2>2
    <3>2. QED
      BY <3>1 DEF t
  <2>3. QED
    BY <2>1, <2>2
<1>7. ASSUME NEW k \in 1..m
      PROVE  /\ L[k].name \in DOMAIN N
             /\ L[k].name \notin DOMAIN R0 /\ (\A i \in 1..(k - 1) : L[i].name # L[k].name)
                  => N[L[k].name] = L[k]
  <2>1. CASE k \in 1..(m - 1)
    BY <1>2, <1>3, <2>1
  <2>2. CASE k = m
    <3>1. ASSUME t.name \in DOMAIN R, t.name \notin DOMAIN R0
          PROVE  ~(\A i \in 1..(m - 1) : L[i].name # t.name)
      BY <1>3, <3>1
    <3>2. QED
      BY <1>2, <2>2, <3>1 DEF t
  <2>3. QED
    BY <1>4, <2>1, <2>2
<1>8. QED
  BY <1>5, <1>6, <1>7 DEF Grown, N, t

LEMMA RegisterAllFacts ==
  ASSUME NEW T, NEW L \in Seq(T), NEW R0 \in Registries(T)
  PROVE  RegisterAll(R0, L) \in Registries(T) /\ Grown(R0, RegisterAll(R0, L), L, Len(L))
<1> DEFINE n == Len(L)
           A == Registries(T)
           step == [k \in 1..n |-> [R \in A |-> Register(R, L[k])]]
           Is(f) == f = [k \in 0..n |-> IF k = 0 THEN R0 ELSE Register(f[k - 1], L[k])]
<1>1. n \in Nat /\ R0 \in A /\ \A k \in 1..n : L[k] \in T
  OBVIOUS
<1>2. \A R \in A, k \in 1..n : Register(R, L[k]) \in A
  BY <1>1, RegisterType
<1>3. step \in [1..n -> [A -> A]]
  <2> HIDE DEF A
  <2>1. QED
    BY <1>2
<1>4. PICK f : Follows(f, A, R0, n, step)
  <2> HIDE DEF A, n, step
  <2>1. QED
    BY <1>1, <1>3, RecursionExists
<1>5. f \in [0..n -> A] /\ f[0] = R0 /\ \A k \in 1..n : f[k] = step[k][f[k - 1]]
  <2> HIDE DEF A, n, step
  <2>1. QED
    BY <1>4 DEF Follows
<1>6. \A k \in 1..n : f[k - 1] \in A /\ f[k] = Register(f[k - 1], L[k])
  <2> SUFFICES ASSUME NEW k \in 1..n PROVE f[k - 1] \in A /\ f[k] = Register(f[k - 1], L[k])
    OBVIOUS
  <2>1. k - 1 \in 0..n
    BY <1>1
  <2> HIDE DEF A, n
  <2>2. f[k - 1] \in A
    BY <1>5, <2>1
  <2>3. QED
    BY <1>5, <2>2
<1>7. Is(f)
  <2>1. \A k \in 0..n : f[k] = IF k = 0 THEN R0 ELSE Register(f[k - 1], L[k])
    BY <1>1, <1>5, <1>6
  <2>2. f = [k \in 0..n |-> f[k]]
    BY <1>5
  <2>3. QED
    BY <2>1, <2>2, Zenon
<1>8. Is(Registering(R0, L))
  BY <1>7, Zenon DEF Registering
<1> DEFINE g == Registering(R0, L)
           Good == {k \in 0..n : g[k] \in A /\ Grown(R0, g[k], L, k)}
<1> HIDE DEF g
<1>9. g[0] = R0 /\ \A k \in 1..n : g[k] = Register(g[k - 1], L[k])
  <2>1. \A k \in 0..n : g[k] = IF k = 0 THEN R0 ELSE Register(g[k - 1], L[k])
    BY <1>8 DEF g
  <2>2. 0 \in 0..n /\ \A k \in 1..n : k \in 0..n /\ k # 0
    BY <1>1
  <2> HIDE DEF n
  <2>3. QED
    BY <2>1, <2>2
<1>10. 0 \in Good
  BY <1>1, <1>9 DEF Grown
<1>11. ASSUME NEW k \in 1..n, k - 1 \in Good PROVE k \in Good
  <2>1. g[k - 1] \in Registries(T) /\ Grown(R0, g[k - 1], L, k - 1)
    BY <1>11
  <2>2. g[k] \in Registries(T)
    BY <1>1, <1>9, <2>1, RegisterType
  <2>3. Grown(R0, g[k], L, k)
    BY <1>9, <2>1, RegisterStep
  <2>4. k \in 0..n
    BY <1>1
  <2>5. QED
    BY <2>2, <2>3, <2>4
<1>12. n \in Good
  <2>1. n \in 0..n
    BY <1>1
  <2> HIDE DEF Good, n
  <2>2. QED
    BY <1>1, <1>10, <1>11, <2>1, Climb
<1>13. QED
  BY <1>12 DEF g, RegisterAll

\* What a server's tools do to the registry: those it lists, first come first
\* served, whether or not it is discover_tools that leaves one out.
LEMMA ConnectFacts ==
  ASSUME NEW T, NEW server, Listed(server) \in Seq(T), NEW R0 \in Registries(T)
  PROVE  LET L == IF Connects(server) THEN Listed(server) ELSE <<>> IN
         /\ ConnectMcp(R0, server) \in Registries(T)
         /\ Grown(R0, ConnectMcp(R0, server), L, Len(L))
<1> DEFINE L == Listed(server)
           D == DiscoverTools(server)
           R == RegisterAll(R0, D)
<1>1. CASE ~Connects(server)
  BY <1>1 DEF ConnectMcp, Grown
<1>2. CASE Connects(server)
  <2>1. D \in Seq(T) /\ Firsts(D, L, Len(L))
    BY SeenFacts DEF DiscoverTools
  <2>2. R \in Registries(T) /\ Grown(R0, R, D, Len(D))
    BY <2>1, RegisterAllFacts
  <2>3. ConnectMcp(R0, server) = R
    BY <1>2 DEF ConnectMcp
  <2> HIDE DEF L, D, R
  <2>4. Grown(R0, R, L, Len(L))
    <3>1. \A n \in DOMAIN R0 : n \in DOMAIN R /\ R[n] = R0[n]
      BY <2>2 DEF Grown
    <3>2. ASSUME NEW n \in DOMAIN R, n \notin DOMAIN R0
          PROVE  \E k \in 1..Len(L) : R[n] = L[k] /\ L[k].name = n
      <4>1. PICK j \in 1..Len(D) : R[n] = D[j] /\ D[j].name = n
        BY <2>2, <3>2 DEF Grown
      <4>2. PICK k \in 1..Len(L) : D[j] = L[k]
        BY <2>1 DEF Firsts
      <4>3. QED
        BY <4>1, <4>2
    <3>3. ASSUME NEW k \in 1..Len(L) PROVE L[k].name \in DOMAIN R
      <4>1. PICK j \in 1..Len(D) : D[j].name = L[k].name
        BY <2>1 DEF Firsts
      <4>2. QED
        BY <2>2, <4>1 DEF Grown
    <3>4. ASSUME NEW k \in 1..Len(L), L[k].name \notin DOMAIN R0,
                 \A i \in 1..(k - 1) : L[i].name # L[k].name
          PROVE  R[L[k].name] = L[k]
      <4>1. PICK j \in 1..Len(D) : D[j] = L[k]
        BY <2>1, <3>4 DEF Firsts
      <4>2. \A i \in 1..(j - 1) : i \in 1..Len(D) /\ i # j
        BY <2>1
      <4>3. \A i \in 1..(j - 1) : D[i].name # D[j].name
        BY <2>1, <4>2 DEF Firsts
      <4>4. QED
        BY <2>2, <3>4, <4>1, <4>3 DEF Grown
    <3>5. QED
      BY <3>1, <3>2, <3>3, <3>4 DEF Grown
  <2>5. QED
    BY <1>2, <2>2, <2>3, <2>4 DEF L
<1>3. QED
  BY <1>1, <1>2

-----------------------------------------------------------------------------
(* The tools there are.                                                    *)

Chars == NameChars \cup {"resources", "list", "read", "built in"}

LEMMA Names ==
  /\ ServerNames \subseteq Seq(Chars) /\ RemoteNames \subseteq Seq(Chars)
  /\ BuiltIn \in Seq(Chars) /\ BuiltIn \notin ServerNames
<1>1. Seq(NameChars) \subseteq Seq(Chars)
  <2>1. NameChars \subseteq Chars
    BY DEF Chars
  <2>2. QED
    BY <2>1
<1>2. BuiltIn \in Seq(Chars)
  BY DEF BuiltIn, Chars
<1>3. BuiltIn \notin Seq(NameChars)
  <2>1. BuiltIn[1] \notin NameChars /\ Len(BuiltIn) = 1
    BY DEF BuiltIn, NameChars, Allowed
  <2>2. \A name \in Seq(NameChars) : Len(name) = 1 => name[1] \in NameChars
    OBVIOUS
  <2>3. QED
    BY <2>1, <2>2
<1>4. QED
  BY <1>1, <1>2, <1>3, ToolboxAssumption

LEMMA Letters ==
  /\ Allowed \subseteq Chars
  /\ "a" \in Chars /\ "e" \in Chars /\ "l" \in Chars /\ "r" \in Chars /\ "_" \in Chars
  /\ "resources" \in Chars /\ "list" \in Chars /\ "read" \in Chars /\ "built in" \in Chars
BY DEF Chars, NameChars, Allowed

LEMMA Short ==
  ASSUME NEW S, NEW a \in S, NEW b \in S, NEW c \in S
  PROVE  /\ <<a>> \in Seq(S) /\ Len(<<a>>) = 1 /\ <<a, b>> \in Seq(S)
         /\ <<a, b, c>> \in Seq(S) /\ Len(<<a, b, c>>) = 3
OBVIOUS

ToolName == {n \in Seq(Chars) : ToSet(n) \subseteq Allowed /\ Len(n) \in 1..MaxToolName}
AnyTool == [name : ToolName, server : Seq(Chars), remote : Seq(Chars), readOnly : BOOLEAN]

LEMMA SanitizedType ==
  ASSUME NEW name \in Seq(Chars), Len(name) >= 1
  PROVE  SanitizeToolName(name) \in ToolName
<1> DEFINE s == [k \in 1..Len(name) |-> IF name[k] \in Allowed THEN name[k] ELSE "_"]
           n == IF Len(name) < MaxToolName THEN Len(name) ELSE MaxToolName
<1>1. n \in Nat /\ n >= 1 /\ n <= Len(name) /\ n <= MaxToolName /\ MaxToolName \in Nat
  BY ToolboxAssumption
<1>2. s \in Seq(Allowed) /\ Len(s) = Len(name)
  <2>1. \A c : (IF c \in Allowed THEN c ELSE "_") \in Allowed
    BY DEF Allowed
  <2>2. s \in [1..Len(name) -> Allowed]
    BY <2>1
  <2>3. Len(name) \in Nat
    OBVIOUS
  <2> HIDE DEF s
  <2>4. QED
    BY <2>2, <2>3
<1>3. SanitizeToolName(name) = SubSeq(s, 1, n)
  BY DEF SanitizeToolName
<1> HIDE DEF s, n
<1> DEFINE q == SubSeq(s, 1, n)
<1>4. q \in Seq(Allowed) /\ Len(q) = n
  BY <1>1, <1>2
<1> HIDE DEF q
<1>5. q \in Seq(Chars)
  <2>1. Allowed \subseteq Chars
    BY DEF Chars, NameChars
  <2> HIDE DEF Allowed
  <2>2. QED
    BY <1>4, <2>1
<1>6. ToSet(q) \subseteq Allowed
  <2>1. \A k \in 1..Len(q) : q[k] \in Allowed
    BY <1>4
  <2>2. DOMAIN q = 1..Len(q)
    BY <1>4
  <2>3. QED
    BY <2>1, <2>2 DEF ToSet
<1>7. SanitizeToolName(name) = q
  BY <1>3 DEF q
<1>8. QED
  BY <1>1, <1>4, <1>5, <1>6, <1>7 DEF ToolName

LEMMA ExposedType ==
  ASSUME NEW server \in Server, NEW suffix \in Seq(Chars)
  PROVE  Exposed(server, suffix) \in ToolName /\ server.name \in Seq(Chars)
<1>1. server.name \in Seq(Chars)
  BY Names DEF Server
<1>2. server.name \o <<"_">> \o suffix \in Seq(Chars) /\ Len(server.name \o <<"_">> \o suffix) >= 1
  <2> DEFINE a == server.name
             u == <<"_">>
  <2>1. a \in Seq(Chars) /\ u \in Seq(Chars) /\ Len(u) = 1
    BY <1>1, Letters, Short, Zenon
  <2> HIDE DEF a, u
  <2>2. a \o u \in Seq(Chars) /\ Len(a \o u) >= 1
    BY <2>1, ConcatProperties
  <2>3. (a \o u) \o suffix \in Seq(Chars) /\ Len((a \o u) \o suffix) >= 1
    BY <2>2, ConcatProperties
  <2>4. QED
    BY <2>3 DEF a, u
<1>3. QED
  BY <1>1, <1>2, SanitizedType DEF Exposed

LEMMA ListedType ==
  ASSUME NEW server \in Server
  PROVE  /\ Listed(server) \in Seq(AnyTool)
         /\ \A k \in 1..Len(Listed(server)) : Listed(server)[k].server = server.name
<1> DEFINE n == Len(server.tools)
           A == RemoteTools(server)
           B == ResourceTools(server)
<1>2. n \in Nat /\ \A k \in 1..n : server.tools[k] \in Seq(Chars)
  <2>1. server.tools \in SeqOf(RemoteNames, MaxTools)
    BY DEF Server
  <2>2. PICK m \in 0..MaxTools : server.tools \in [1..m -> RemoteNames]
    BY <2>1 DEF SeqOf
  <2>3. m \in Nat
    BY ToolboxAssumption
  <2>4. server.tools \in Seq(RemoteNames) /\ n = m
    BY <2>2, <2>3
  <2>5. QED
    BY <2>2, <2>3, <2>4, Names
<1>3. \A name \in ToolName, remote \in Seq(Chars), readOnly \in BOOLEAN :
        /\ Tool(name, server.name, remote, readOnly) \in AnyTool
        /\ Tool(name, server.name, remote, readOnly).server = server.name
  <2>1. server.name \in Seq(Chars)
    BY Names DEF Server
  <2>2. QED
    BY <2>1 DEF Tool, AnyTool
<1>4. /\ \A suffix \in Seq(Chars) : Exposed(server, suffix) \in ToolName
      /\ \A remote : ReadOnlyHint(remote) \in BOOLEAN
      /\ <<"l">> \in Seq(Chars) /\ <<"r">> \in Seq(Chars)
      /\ <<"resources", "list">> \in Seq(Chars) /\ <<"resources", "read">> \in Seq(Chars)
  <2>1. \A suffix \in Seq(Chars) : Exposed(server, suffix) \in ToolName
    BY ExposedType
  <2>2. \A remote : ReadOnlyHint(remote) \in BOOLEAN
    BY DEF ReadOnlyHint
  <2>3. /\ <<"l">> \in Seq(Chars) /\ <<"r">> \in Seq(Chars)
        /\ <<"resources", "list">> \in Seq(Chars) /\ <<"resources", "read">> \in Seq(Chars)
    BY Letters, Short, Zenon
  <2>4. QED
    BY <2>1, <2>2, <2>3, Zenon
<1>5. /\ A \in Seq(AnyTool) /\ Len(A) = n
      /\ \A k \in 1..n : A[k].server = server.name
  <2>1. \A k \in 1..n : /\ Tool(Exposed(server, server.tools[k]), server.name, server.tools[k],
                                ReadOnlyHint(server.tools[k])) \in AnyTool
                        /\ A[k] = Tool(Exposed(server, server.tools[k]), server.name,
                                       server.tools[k], ReadOnlyHint(server.tools[k]))
    <3> SUFFICES ASSUME NEW k \in 1..n
                 PROVE  /\ Tool(Exposed(server, server.tools[k]), server.name, server.tools[k],
                                ReadOnlyHint(server.tools[k])) \in AnyTool
                        /\ A[k] = Tool(Exposed(server, server.tools[k]), server.name,
                                       server.tools[k], ReadOnlyHint(server.tools[k]))
      OBVIOUS
    <3> DEFINE remote == server.tools[k]
    <3>1. remote \in Seq(Chars)
      BY <1>2
    <3>2. A[k] = Tool(Exposed(server, remote), server.name, remote, ReadOnlyHint(remote))
      BY DEF RemoteTools
    <3> HIDE DEF remote, A
    <3>3. Exposed(server, remote) \in ToolName /\ ReadOnlyHint(remote) \in BOOLEAN
      BY <1>4, <3>1
    <3>4. QED
      BY <1>3, <3>1, <3>2, <3>3 DEF remote
  <2>2. A \in [1..n -> AnyTool]
    <3>1. A = [k \in 1..n |-> A[k]]
      BY DEF RemoteTools
    <3> HIDE DEF A
    <3>2. QED
      BY <2>1, <3>1
  <2>3. A \in Seq(AnyTool) /\ Len(A) = n
    <3> HIDE DEF A, n
    <3>1. QED
      BY <1>2, <2>2
  <2>4. \A k \in 1..n : A[k].server = server.name
    <3> SUFFICES ASSUME NEW k \in 1..n PROVE A[k].server = server.name
      OBVIOUS
    <3> DEFINE remote == server.tools[k]
    <3>1. A[k] = Tool(Exposed(server, remote), server.name, remote, ReadOnlyHint(remote))
      BY DEF RemoteTools
    <3> HIDE DEF remote, A
    <3>2. QED
      BY <3>1 DEF Tool
  <2>5. QED
    BY <2>3, <2>4
<1>6. /\ B \in Seq(AnyTool)
      /\ \A k \in 1..Len(B) : B[k].server = server.name
  <2>1. CASE ~server.resources
    BY <2>1 DEF ResourceTools
  <2>2. CASE server.resources
    <3> DEFINE a == Tool(Exposed(server, <<"l">>), server.name, <<"resources", "list">>, TRUE)
               b == Tool(Exposed(server, <<"r">>), server.name, <<"resources", "read">>, TRUE)
    <3>1. B = <<a, b>>
      BY <2>2 DEF ResourceTools
    <3>2. Exposed(server, <<"l">>) \in ToolName /\ Exposed(server, <<"r">>) \in ToolName
      BY <1>4
    <3>3. a \in AnyTool /\ a.server = server.name /\ b \in AnyTool /\ b.server = server.name
      <4>1. TRUE \in BOOLEAN
        OBVIOUS
      <4>2. QED
        BY <1>3, <1>4, <3>2, <4>1
    <3> HIDE DEF a, b, B
    <3>4. QED
      BY <3>1, <3>3
  <2>3. QED
    BY <2>1, <2>2
<1>7. Listed(server) = A \o B
  BY DEF Listed
<1> HIDE DEF A, B, n
<1>8. QED
  BY <1>5, <1>6, <1>7

LEMMA BuiltinType ==
  ASSUME NEW allowExecute \in BOOLEAN
  PROVE  /\ BuiltinTools(allowExecute) \in Seq(AnyTool)
         /\ \A k \in 1..Len(BuiltinTools(allowExecute)) :
              LET tool == BuiltinTools(allowExecute)[k] IN tool.name = tool.remote
<1> DEFINE l == <<"l">>
           aa == <<"a", "_", "a">>
           Own == {t \in AnyTool : t.name = t.remote}
           A == <<Tool(l, BuiltIn, l, TRUE), Tool(aa, BuiltIn, aa, FALSE)>>
           B == IF allowExecute THEN <<Tool(ExecuteCommand, BuiltIn, ExecuteCommand, FALSE)>> ELSE <<>>
<1>1. l \in ToolName /\ aa \in ToolName /\ ExecuteCommand \in ToolName
  <2>1. \A c \in Allowed : <<c>> \in Seq(Allowed) /\ Len(<<c>>) = 1
    OBVIOUS
  <2>2. "a" \in Allowed /\ "e" \in Allowed /\ "l" \in Allowed /\ "_" \in Allowed
    BY DEF Allowed
  <2>3. /\ l \in Seq(Allowed) /\ Len(l) = 1
        /\ aa \in Seq(Allowed) /\ Len(aa) = 3
        /\ ExecuteCommand \in Seq(Allowed) /\ Len(ExecuteCommand) = 1
    BY <2>2, Short, Zenon DEF ExecuteCommand
  <2>4. \A q \in Seq(Allowed) : Len(q) = 1 \/ Len(q) = 3 => q \in ToolName
    <3> SUFFICES ASSUME NEW q \in Seq(Allowed), Len(q) = 1 \/ Len(q) = 3 PROVE q \in ToolName
      OBVIOUS
    <3>1. ToSet(q) \subseteq Allowed
      BY DEF ToSet
    <3>2. q \in Seq(Chars)
      <4>1. Allowed \subseteq Chars
        BY Letters
      <4>2. QED
        BY <4>1
    <3>3. Len(q) \in 1..MaxToolName
      <4>1. 1 \in 1..MaxToolName /\ 3 \in 1..MaxToolName
        BY ToolboxAssumption
      <4>2. QED
        BY <4>1, Zenon
    <3>4. QED
      BY <3>1, <3>2, <3>3 DEF ToolName
  <2> HIDE DEF l, aa
  <2>5. QED
    BY <2>3, <2>4
<1> HIDE DEF l, aa
<1>2. \A name \in ToolName, readOnly \in BOOLEAN : Tool(name, BuiltIn, name, readOnly) \in Own
  BY Names DEF Tool, AnyTool, ToolName
<1>3. /\ Tool(l, BuiltIn, l, TRUE) \in Own /\ Tool(aa, BuiltIn, aa, FALSE) \in Own
      /\ Tool(ExecuteCommand, BuiltIn, ExecuteCommand, FALSE) \in Own
  BY <1>1, <1>2
<1> HIDE DEF Own
<1>4. A \in Seq(Own) /\ B \in Seq(Own)
  <2>1. A \in Seq(Own)
    BY <1>3, Short, Zenon
  <2>2. <<Tool(ExecuteCommand, BuiltIn, ExecuteCommand, FALSE)>> \in Seq(Own)
    BY <1>3, Short, Zenon
  <2>3. <<>> \in Seq(Own)
    OBVIOUS
  <2>4. QED
    BY <2>1, <2>2, <2>3, Zenon
<1>5. BuiltinTools(allowExecute) = A \o B
  BY DEF BuiltinTools, l, aa
<1> HIDE DEF A, B
<1>6. BuiltinTools(allowExecute) \in Seq(Own)
  BY <1>4, <1>5, ConcatProperties
<1>7. \A t \in Own : t \in AnyTool /\ t.name = t.remote
  BY DEF Own
<1>8. QED
  BY <1>6, <1>7

-----------------------------------------------------------------------------
(* The registry of a run, one server after another.                        *)

\* R has the first tool of each name of the first m offers, and no other.
Built(R, offered, m) ==
  /\ \A n \in DOMAIN R :
       /\ R[n].name = n
       /\ \E s \in 0..m : \E k \in 1..Len(offered[s]) : R[n] = offered[s][k]
  /\ \A s \in 0..m : \A k \in 1..Len(offered[s]) :
       /\ offered[s][k].name \in DOMAIN R
       /\ IsFirst(offered, s, k) => R[offered[s][k].name] = offered[s][k]

LEMMA BuiltStep ==
  ASSUME NEW T, NEW n \in Nat, NEW offered \in [0..n -> Seq(T)], NEW m \in 1..n,
         NEW R0, NEW R, Built(R0, offered, m - 1), Grown(R0, R, offered[m], Len(offered[m]))
  PROVE  Built(R, offered, m)
<1> DEFINE L == offered[m]
<1>1. m \in 0..n /\ m - 1 \in Nat /\ m \in 0..m /\ L \in Seq(T) /\ DOMAIN L = 1..Len(L)
  OBVIOUS
<1>2. (\A s \in 0..m : s = m \/ s \in 0..(m - 1)) /\ \A s \in 0..(m - 1) : s \in 0..m /\ s < m
  OBVIOUS
<1>3. \A s \in 0..m : DOMAIN offered[s] = 1..Len(offered[s])
  <2> SUFFICES ASSUME NEW s \in 0..m PROVE DOMAIN offered[s] = 1..Len(offered[s])
    OBVIOUS
  <2>1. s \in 0..n
    OBVIOUS
  <2>2. offered[s] \in Seq(T)
    BY <2>1
  <2>3. QED
    BY <2>2
<1>4. /\ \A x \in DOMAIN R0 : R0[x].name = x
      /\ \A x \in DOMAIN R0 : \E s \in 0..(m - 1) : \E k \in 1..Len(offered[s]) : R0[x] = offered[s][k]
      /\ \A s \in 0..(m - 1) : \A k \in 1..Len(offered[s]) :
           /\ offered[s][k].name \in DOMAIN R0
           /\ IsFirst(offered, s, k) => R0[offered[s][k].name] = offered[s][k]
  BY DEF Built
<1>5. /\ \A x \in DOMAIN R0 : x \in DOMAIN R /\ R[x] = R0[x]
      /\ \A x \in DOMAIN R : x \in DOMAIN R0 \/ \E k \in 1..Len(L) : R[x] = L[k] /\ L[k].name = x
      /\ \A k \in 1..Len(L) :
           /\ L[k].name \in DOMAIN R
           /\ L[k].name \notin DOMAIN R0 /\ (\A i \in 1..(k - 1) : L[i].name # L[k].name)
                => R[L[k].name] = L[k]
  BY DEF Grown
<1> HIDE DEF L
<1>6. ASSUME NEW x \in DOMAIN R
      PROVE  /\ R[x].name = x
             /\ \E s \in 0..m : \E k \in 1..Len(offered[s]) : R[x] = offered[s][k]
  <2>1. CASE x \in DOMAIN R0
    <3>1. PICK s \in 0..(m - 1) : \E k \in 1..Len(offered[s]) : R0[x] = offered[s][k]
      BY <1>4, <2>1
    <3>2. R[x] = R0[x] /\ R0[x].name = x
      BY <1>4, <1>5, <2>1
    <3>3. PICK k \in 1..Len(offered[s]) : R0[x] = offered[s][k]
      BY <3>1
    <3>4. s \in 0..m
      BY <1>2
    <3>5. QED
      BY <3>2, <3>3, <3>4
  <2>2. CASE x \notin DOMAIN R0
    <3>1. PICK k \in 1..Len(L) : R[x] = L[k] /\ L[k].name = x
      BY <1>5, <1>6, <2>2
    <3>2. QED
      BY <1>1, <3>1 DEF L
  <2>3. QED
    BY <2>1, <2>2
<1>7. ASSUME NEW s \in 0..(m - 1), NEW k \in 1..Len(offered[s])
      PROVE  /\ offered[s][k].name \in DOMAIN R
             /\ IsFirst(offered, s, k) => R[offered[s][k].name] = offered[s][k]
  BY <1>4, <1>5, <1>7
<1>8. ASSUME NEW k \in 1..Len(L)
      PROVE  L[k].name \in DOMAIN R /\ (IsFirst(offered, m, k) => R[L[k].name] = L[k])
  <2>1. L[k].name \in DOMAIN R
    BY <1>5
  <2>2. ASSUME IsFirst(offered, m, k) PROVE R[L[k].name] = L[k]
    <3>1. \A s \in 0..(m - 1) : \A j \in 1..Len(offered[s]) : offered[s][j].name # L[k].name
      BY <1>2, <1>3, <2>2 DEF IsFirst, L
    <3>2. L[k].name \notin DOMAIN R0
      <4> DEFINE x == L[k].name
      <4> HIDE DEF x
      <4>1. SUFFICES ASSUME x \in DOMAIN R0 PROVE FALSE
        BY DEF x
      <4>2. PICK s \in 0..(m - 1) : \E j \in 1..Len(offered[s]) : R0[x] = offered[s][j]
        BY <1>4, <4>1
      <4>3. PICK j \in 1..Len(offered[s]) : R0[x] = offered[s][j]
        BY <4>2
      <4>4. R0[x].name = x
        BY <1>4, <4>1
      <4>5. QED
        BY <3>1, <4>3, <4>4 DEF x
    <3>3. \A j \in 1..(k - 1) : L[j].name # L[k].name
      <4>1. \A j \in 1..(k - 1) : j \in DOMAIN L /\ j < k
        BY <1>1
      <4>2. \A j \in DOMAIN L : j < k => L[j].name # L[k].name
        BY <1>1, <2>2 DEF IsFirst, L
      <4>3. QED
        BY <4>1, <4>2
    <3>4. QED
      BY <1>5, <3>2, <3>3
  <2>3. QED
    BY <2>1, <2>2
<1>9. QED
  BY <1>2, <1>6, <1>7, <1>8 DEF Built, L

\* A server of the configuration and its offer, with or without the server up.
OfferOf(server) == IF Connects(server) THEN Listed(server) ELSE <<>>

LEMMA ConnectingFacts ==
  ASSUME NEW T, NEW n \in Nat, NEW servers, Len(servers) = n,
         NEW offered \in [0..n -> Seq(T)],
         \A k \in 1..n : Listed(servers[k]) \in Seq(T) /\ offered[k] = OfferOf(servers[k]),
         NEW R0 \in Registries(T), Built(R0, offered, 0)
  PROVE  /\ Connecting(R0, servers)[n] \in Registries(T)
         /\ Built(Connecting(R0, servers)[n], offered, n)
<1> DEFINE A == Registries(T)
           step == [k \in 1..n |-> [R \in A |-> ConnectMcp(R, servers[k])]]
           Is(f) == f = [k \in 0..n |-> IF k = 0 THEN R0 ELSE ConnectMcp(f[k - 1], servers[k])]
<1>1. ASSUME NEW R \in A, NEW k \in 1..n
      PROVE  /\ ConnectMcp(R, servers[k]) \in A
             /\ Grown(R, ConnectMcp(R, servers[k]), offered[k], Len(offered[k]))
  <2>1. Listed(servers[k]) \in Seq(T) /\ offered[k] = OfferOf(servers[k])
    OBVIOUS
  <2>2. /\ ConnectMcp(R, servers[k]) \in Registries(T)
        /\ Grown(R, ConnectMcp(R, servers[k]), OfferOf(servers[k]), Len(OfferOf(servers[k])))
    BY <2>1, ConnectFacts, Zenon DEF OfferOf
  <2>3. QED
    BY <2>1, <2>2
<1>2. \A R \in A, k \in 1..n : ConnectMcp(R, servers[k]) \in A
  BY <1>1
<1>3. step \in [1..n -> [A -> A]]
  <2> HIDE DEF A
  <2>1. QED
    BY <1>2
<1>4. PICK f : Follows(f, A, R0, n, step)
  <2> HIDE DEF A, step
  <2>1. R0 \in A
    BY DEF A
  <2>2. QED
    BY <1>3, <2>1, RecursionExists
<1>5. f \in [0..n -> A] /\ f[0] = R0 /\ \A k \in 1..n : f[k] = step[k][f[k - 1]]
  <2> HIDE DEF A, step
  <2>1. QED
    BY <1>4 DEF Follows
<1>6. \A k \in 1..n : f[k - 1] \in A /\ f[k] = ConnectMcp(f[k - 1], servers[k])
  <2> SUFFICES ASSUME NEW k \in 1..n
               PROVE f[k - 1] \in A /\ f[k] = ConnectMcp(f[k - 1], servers[k])
    OBVIOUS
  <2>1. k - 1 \in 0..n
    OBVIOUS
  <2> HIDE DEF A
  <2>2. f[k - 1] \in A
    BY <1>5, <2>1
  <2>3. QED
    BY <1>5, <2>2
<1>7. Is(f)
  <2>1. \A k \in 0..n : f[k] = IF k = 0 THEN R0 ELSE ConnectMcp(f[k - 1], servers[k])
    BY <1>5, <1>6
  <2>2. f = [k \in 0..n |-> f[k]]
    BY <1>5
  <2>3. QED
    BY <2>1, <2>2, Zenon
<1> DEFINE g == Connecting(R0, servers)
           Good == {k \in 0..n : g[k] \in A /\ Built(g[k], offered, k)}
<1>8. Is(g)
  <2> DEFINE Is2(h) == h = [k \in 0..Len(servers) |->
                              IF k = 0 THEN R0 ELSE ConnectMcp(h[k - 1], servers[k])]
  <2>1. \A h : Is(h) <=> Is2(h)
    OBVIOUS
  <2>2. Is2(f)
    BY <1>7, <2>1, Zenon
  <2>3. Is2(g)
    BY <2>2, Zenon DEF Connecting
  <2>4. QED
    BY <2>1, <2>3, Zenon
<1> HIDE DEF g
<1>9. g[0] = R0 /\ \A k \in 1..n : g[k] = ConnectMcp(g[k - 1], servers[k])
  <2>1. \A k \in 0..n : g[k] = IF k = 0 THEN R0 ELSE ConnectMcp(g[k - 1], servers[k])
    BY <1>8
  <2>2. QED
    BY <2>1
<1>10. 0 \in Good
  BY <1>9
<1>11. ASSUME NEW k \in 1..n, k - 1 \in Good PROVE k \in Good
  <2>1. g[k - 1] \in A /\ Built(g[k - 1], offered, k - 1)
    BY <1>11
  <2>2. g[k] \in A /\ Grown(g[k - 1], g[k], offered[k], Len(offered[k]))
    BY <1>1, <1>9, <2>1
  <2> HIDE DEF A
  <2>3. Built(g[k], offered, k)
    BY <2>1, <2>2, BuiltStep
  <2>4. QED
    BY <2>2, <2>3
<1>12. n \in Good
  <2>1. n \in 0..n
    OBVIOUS
  <2> HIDE DEF Good
  <2>2. QED
    BY <1>10, <1>11, <2>1, Climb
<1>13. QED
  BY <1>12 DEF g

\* The registry of a run is made of what there is to offer, first come first served.
LEMMA BuildFacts ==
  ASSUME NEW servers \in SeqOf(Offers, MaxServers), NEW allowExecute \in BOOLEAN
  PROVE  LET R == BuildTools(allowExecute, servers) IN
         /\ R \in Registries(AnyTool)
         /\ Built(R, Offered(allowExecute, servers), Len(servers))
         /\ Offered(allowExecute, servers) \in [0..Len(servers) -> Seq(AnyTool)]
<1> DEFINE n == Len(servers)
           offered == Offered(allowExecute, servers)
           B == BuiltinTools(allowExecute)
           R0 == RegisterAll(NoTools, B)
<1>1. n \in Nat /\ \A k \in 1..n : servers[k] \in Server
  <2>1. PICK m \in 0..MaxServers : servers \in [1..m -> Offers]
    BY DEF SeqOf
  <2>2. m \in Nat
    BY ToolboxAssumption
  <2>3. servers \in Seq(Offers) /\ n = m
    BY <2>1, <2>2
  <2>4. QED
    BY <2>1, <2>2, <2>3 DEF Offers
<1>2. \A k \in 1..n : Listed(servers[k]) \in Seq(AnyTool)
  BY <1>1, ListedType
<1>3. B \in Seq(AnyTool)
  BY BuiltinType
<1>4. /\ offered = [s \in 0..n |-> IF s = 0 THEN B ELSE OfferOf(servers[s])]
      /\ offered[0] = B /\ \A k \in 1..n : offered[k] = OfferOf(servers[k])
  <2>1. offered = [s \in 0..n |-> IF s = 0 THEN B ELSE OfferOf(servers[s])]
    BY DEF Offered, OfferOf
  <2> HIDE DEF offered, n, B
  <2>2. QED
    BY <1>1, <2>1
<1>5. offered \in [0..n -> Seq(AnyTool)]
  <2>1. \A k \in 1..n : OfferOf(servers[k]) \in Seq(AnyTool)
    BY <1>2 DEF OfferOf
  <2>2. \A k \in 0..n : k = 0 \/ k \in 1..n
    BY <1>1
  <2> HIDE DEF offered, n, B
  <2>3. QED
    BY <1>3, <1>4, <2>1, <2>2
<1>6. NoTools \in Registries(AnyTool)
  <2>1. NoTools \in [{} -> AnyTool]
    BY DEF NoTools
  <2>2. QED
    BY <2>1 DEF Registries
<1>7. R0 \in Registries(AnyTool) /\ Grown(NoTools, R0, B, Len(B))
  BY <1>3, <1>6, RegisterAllFacts
<1> HIDE DEF offered, B, R0
<1>8. Built(R0, offered, 0)
  <2>1. DOMAIN NoTools = {}
    BY DEF NoTools
  <2>2. DOMAIN B = 1..Len(B)
    BY <1>3
  <2>3. ASSUME NEW x \in DOMAIN R0
        PROVE  R0[x].name = x /\ \E k \in 1..Len(B) : R0[x] = B[k]
    BY <1>7, <2>1, <2>3 DEF Grown
  <2>4. ASSUME NEW k \in 1..Len(B)
        PROVE  B[k].name \in DOMAIN R0 /\ (IsFirst(offered, 0, k) => R0[B[k].name] = B[k])
    <3>1. IsFirst(offered, 0, k) => \A i \in 1..(k - 1) : B[i].name # B[k].name
      <4>1. ASSUME IsFirst(offered, 0, k), NEW i \in 1..(k - 1) PROVE B[i].name # B[k].name
        <5>1. 0 \in 0..0 /\ i \in DOMAIN B /\ i < k
          BY <2>2, <2>4
        <5>2. QED
          BY <1>4, <4>1, <5>1 DEF IsFirst
      <4>2. QED
        BY <4>1
    <3>2. QED
      BY <1>7, <2>1, <3>1 DEF Grown
  <2>5. \A s \in 0..0 : s = 0
    OBVIOUS
  <2>6. 0 \in 0..0
    OBVIOUS
  <2>7. QED
    BY <1>4, <2>3, <2>4, <2>5, <2>6 DEF Built
<1> DEFINE R == Connecting(R0, servers)[n]
<1>9. R \in Registries(AnyTool) /\ Built(R, offered, n)
  BY <1>1, <1>2, <1>4, <1>5, <1>7, <1>8, ConnectingFacts
<1>10. BuildTools(allowExecute, servers) = R
  BY DEF BuildTools, R0, B
<1> HIDE DEF R, n
<1>11. QED
  BY <1>5, <1>9, <1>10 DEF offered, n

LEMMA FirstCome ==
  ASSUME NEW T, NEW n \in Nat, NEW offered \in [0..n -> Seq(T)], NEW R, Built(R, offered, n)
  PROVE  NamesAreFirstCome(R, offered)
<1>1. DOMAIN offered = 0..n /\ \A s \in 0..n : DOMAIN offered[s] = 1..Len(offered[s])
  <2>1. ASSUME NEW s \in 0..n PROVE DOMAIN offered[s] = 1..Len(offered[s])
    <3>1. offered[s] \in Seq(T)
      OBVIOUS
    <3>2. QED
      BY <3>1
  <2>2. QED
    BY <2>1
<1>2. ASSUME NEW x \in DOMAIN R
      PROVE  /\ R[x].name = x
             /\ \E s \in DOMAIN offered : \E k \in DOMAIN offered[s] : R[x] = offered[s][k]
  <2>1. PICK s \in 0..n : \E k \in 1..Len(offered[s]) : R[x] = offered[s][k]
    BY DEF Built
  <2>2. R[x].name = x
    BY DEF Built
  <2>3. QED
    BY <1>1, <2>1, <2>2
<1>3. ASSUME NEW s \in DOMAIN offered, NEW k \in DOMAIN offered[s]
      PROVE  /\ offered[s][k].name \in DOMAIN R
             /\ IsFirst(offered, s, k) => R[offered[s][k].name] = offered[s][k]
  BY <1>1 DEF Built
<1>4. QED
  BY <1>2, <1>3 DEF NamesAreFirstCome

LEMMA Narrows ==
  ASSUME NEW R
  PROVE  ScopeOnlyNarrows(R)
<1> SUFFICES ASSUME NEW n \in DOMAIN R \cup {<<".">>}, NEW m \in DOMAIN R,
                    NEW called \in DOMAIN R \cup {<<".">>}
             PROVE  Serves("allow_all", FALSE, Subset(R, {n, m}), called, "differs") =
                      IF n \in DOMAIN R /\ called \in {n, m}
                      THEN Serves("allow_all", FALSE, R, called, "differs") ELSE {}
  BY DEF ScopeOnlyNarrows
<1>1. \A registry : Serves("allow_all", FALSE, registry, called, "differs") =
        IF called \notin DOMAIN registry THEN {}
        ELSE {<<registry[called].server, registry[called].remote>>}
  BY DEF Serves, Denies
<1>2. CASE n \in DOMAIN R
  <2> DEFINE S == Restrict(R, {n, m})
  <2>1. Subset(R, {n, m}) = S
    BY <1>2 DEF Subset
  <2>2. DOMAIN S = {n, m} /\ \A x \in {n, m} : S[x] = R[x]
    BY DEF Restrict
  <2> HIDE DEF S
  <2>3. Serves("allow_all", FALSE, S, called, "differs") =
          IF called \notin DOMAIN S THEN {} ELSE {<<S[called].server, S[called].remote>>}
    BY <1>1
  <2>4. Serves("allow_all", FALSE, R, called, "differs") =
          IF called \notin DOMAIN R THEN {} ELSE {<<R[called].server, R[called].remote>>}
    BY <1>1
  <2>5. CASE called \in {n, m}
    <3>1. called \in DOMAIN S /\ called \in DOMAIN R /\ S[called] = R[called]
      BY <1>2, <2>2, <2>5
    <3>2. QED
      BY <1>2, <2>1, <2>3, <2>4, <2>5, <3>1
  <2>6. CASE called \notin {n, m}
    BY <2>1, <2>2, <2>3, <2>6
  <2>7. QED
    BY <2>5, <2>6
<1>3. CASE n \notin DOMAIN R
  <2>1. Subset(R, {n, m}) = NoTools /\ DOMAIN NoTools = {}
    BY <1>3 DEF Subset, NoTools
  <2>2. QED
    BY <1>1, <1>3, <2>1
<1>4. QED
  BY <1>2, <1>3

LEMMA PolicyKept ==
  ASSUME NEW n \in Nat, NEW offered \in [0..n -> Seq(AnyTool)], NEW R,
         NamesAreFirstCome(R, offered),
         \A k \in DOMAIN offered[0] : offered[0][k].name = offered[0][k].remote,
         \A s \in 1..n : \A k \in DOMAIN offered[s] : offered[s][k].server # BuiltIn
  PROVE  PolicyHolds(R, offered)
<1> SUFFICES ASSUME NEW name \in DOMAIN R \cup {<<".">>}, NEW denylist \in BOOLEAN,
                    NEW command \in Commands
             PROVE  /\ \A who \in Serves("read_only", denylist, R, name, command) :
                         \E s \in DOMAIN offered : \E k \in DOMAIN offered[s] :
                           /\ offered[s][k].readOnly
                           /\ <<offered[s][k].server, offered[s][k].remote>> = who
                    /\ <<BuiltIn, ExecuteCommand>> \in Serves("allow_all", TRUE, R, name, command)
                         => command = "differs"
  BY DEF PolicyHolds
<1>1. \A x \in DOMAIN R :
        /\ R[x].name = x
        /\ \E s \in DOMAIN offered : \E k \in DOMAIN offered[s] : R[x] = offered[s][k]
  BY DEF NamesAreFirstCome
<1>2. ASSUME NEW who \in Serves("read_only", denylist, R, name, command)
      PROVE  \E s \in DOMAIN offered : \E k \in DOMAIN offered[s] :
               offered[s][k].readOnly /\ <<offered[s][k].server, offered[s][k].remote>> = who
  <2>1. ~Denies("read_only", denylist, R, name, command) /\ name \in DOMAIN R
    BY <1>2 DEF Serves
  <2>2. who = <<R[name].server, R[name].remote>>
    BY <1>2, <2>1 DEF Serves
  <2>3. R[name].readOnly
    BY <2>1 DEF Denies
  <2>4. QED
    BY <1>1, <2>1, <2>2, <2>3
<1>3. ASSUME <<BuiltIn, ExecuteCommand>> \in Serves("allow_all", TRUE, R, name, command)
      PROVE  command = "differs"
  <2>1. ~Denies("allow_all", TRUE, R, name, command) /\ name \in DOMAIN R
    BY <1>3 DEF Serves
  <2>2. <<BuiltIn, ExecuteCommand>> = <<R[name].server, R[name].remote>>
    BY <1>3, <2>1 DEF Serves
  <2>3. R[name].server = BuiltIn /\ R[name].remote = ExecuteCommand
    BY <2>2
  <2>4. PICK s \in DOMAIN offered : \E k \in DOMAIN offered[s] : R[name] = offered[s][k]
    BY <1>1, <2>1
  <2>5. PICK k \in DOMAIN offered[s] : R[name] = offered[s][k]
    BY <2>4
  <2>6. s = 0
    <3>1. s = 0 \/ s \in 1..n
      OBVIOUS
    <3>2. QED
      BY <2>3, <2>5, <3>1
  <2>7. name = ExecuteCommand
    BY <1>1, <2>1, <2>3, <2>5, <2>6
  <2>8. QED
    BY <2>1, <2>7 DEF Denies
<1>4. QED
  BY <1>2, <1>3

LEMMA NamesReach == EveryNameReachesItsTool
<1> SUFFICES ASSUME NEW servers \in SeqOf(Offers, MaxServers), NEW allowExecute \in BOOLEAN
             PROVE  LET registry == BuildTools(allowExecute, servers)
                        offered == Offered(allowExecute, servers) IN
                    /\ \A name \in DOMAIN registry :
                         ToSet(name) \subseteq Allowed /\ Len(name) \in 1..MaxToolName
                    /\ NamesAreFirstCome(registry, offered)
                    /\ ScopeOnlyNarrows(registry)
                    /\ PolicyHolds(registry, offered)
  BY DEF EveryNameReachesItsTool
<1> DEFINE R == BuildTools(allowExecute, servers)
           offered == Offered(allowExecute, servers)
           n == Len(servers)
<1>1. /\ R \in Registries(AnyTool) /\ Built(R, offered, n)
      /\ offered \in [0..n -> Seq(AnyTool)]
  BY BuildFacts
<1>2. n \in Nat /\ \A k \in 1..n : servers[k] \in Server
  <2>1. PICK m \in 0..MaxServers : servers \in [1..m -> Offers]
    BY DEF SeqOf
  <2>2. m \in Nat
    BY ToolboxAssumption
  <2>3. servers \in Seq(Offers) /\ n = m
    BY <2>1, <2>2
  <2>4. QED
    BY <2>1, <2>2, <2>3 DEF Offers
<1>3. /\ offered[0] = BuiltinTools(allowExecute)
      /\ \A s \in 1..n : offered[s] = OfferOf(servers[s])
  <2> DEFINE B == BuiltinTools(allowExecute)
  <2>1. offered = [s \in 0..n |-> IF s = 0 THEN B ELSE OfferOf(servers[s])]
    BY DEF Offered, OfferOf
  <2> HIDE DEF offered, n, B
  <2>2. offered[0] = B /\ \A s \in 1..n : offered[s] = OfferOf(servers[s])
    BY <1>2, <2>1
  <2>3. QED
    BY <2>2 DEF B
<1> HIDE DEF R, offered, n
<1>4. ASSUME NEW x \in DOMAIN R
      PROVE  ToSet(x) \subseteq Allowed /\ Len(x) \in 1..MaxToolName
  <2>1. PICK D : R \in [D -> AnyTool]
    BY <1>1 DEF Registries
  <2>2. R[x] \in AnyTool /\ R[x].name = x
    BY <1>1, <2>1 DEF Built
  <2>3. x \in ToolName
    BY <2>2 DEF AnyTool
  <2>4. QED
    BY <2>3 DEF ToolName
<1>5. NamesAreFirstCome(R, offered)
  BY <1>1, <1>2, FirstCome
<1>6. ScopeOnlyNarrows(R)
  BY Narrows
<1>7. \A k \in DOMAIN offered[0] : offered[0][k].name = offered[0][k].remote
  BY <1>3, BuiltinType
<1>8. ASSUME NEW s \in 1..n, NEW k \in DOMAIN offered[s] PROVE offered[s][k].server # BuiltIn
  <2> DEFINE L == Listed(servers[s])
  <2>1. L \in Seq(AnyTool) /\ \A j \in 1..Len(L) : L[j].server = servers[s].name
    BY <1>2, ListedType
  <2>2. servers[s].name # BuiltIn
    BY <1>2, Names DEF Server
  <2> HIDE DEF L
  <2>3. offered[s] = IF Connects(servers[s]) THEN L ELSE <<>>
    BY <1>3 DEF OfferOf, L
  <2>4. CASE Connects(servers[s])
    BY <1>8, <2>1, <2>2, <2>3, <2>4
  <2>5. CASE ~Connects(servers[s])
    BY <1>8, <2>3, <2>5
  <2>6. QED
    BY <2>4, <2>5
<1>9. PolicyHolds(R, offered)
  BY <1>1, <1>2, <1>5, <1>7, <1>8, PolicyKept
<1>10. QED
  BY <1>4, <1>5, <1>6, <1>9 DEF R, offered

\* Whatever the servers are called, whatever they offer and whichever of them is up,
\* every name a request offers fits the providers, is registered for the first tool
\* found under it and stands for no other; no tool with a name of its own is lost; a
\* scope only narrows and the policy decides on the tool reached (build_tools,
\* discover_tools, ToolRegistry::register and subset, ToolPolicy::decide).
THEOREM NamesAlwaysReach == Spec => []NamesReachTools
<1>1. NamesReachTools
  BY NamesReach DEF NamesReachTools
<1>2. QED
  BY <1>1, PTL

-----------------------------------------------------------------------------
(***************************************************************************)
(* The decoder of a streamed answer: the lines, what it holds of them, and *)
(* what each line does to it.                                              *)
(***************************************************************************)

Marks == Nat \cup (Nat \X Nat) \cup StopReasons \cup {None}
LineType == {"ping", "text_start", "tool_start", "text_delta", "json_delta", "block_stop",
             "message_delta", "message_stop", "noise"}
Lines == [type : LineType, of : Marks]
Byte == Lines \X (1..LineBytes)

\* What a chunk of the answer tells: a piece of text, a call or a reason.
Told == Marks \cup {<<id, Arguments(json)>> : id \in Marks, json \in Seq(Marks)}
Chunks == {"text", "call", "reason", "error"} \X Told

Tools == [id : Marks, json : Seq(Marks)]
Decoder == [buffer : Seq(Byte), tool : Seq(Tools),
            sent : Seq(Chunks), open : BOOLEAN]

LEMMA MarksFacts ==
  /\ \A k \in Nat : k \in Marks /\ \A j \in Nat : <<k, j>> \in Marks
  /\ None \in Marks /\ \A reason \in StopReasons : reason \in Marks
BY DEF Marks

LEMMA ToldFacts ==
  /\ \A x \in Marks : /\ <<"text", x>> \in Chunks /\ <<"reason", x>> \in Chunks
                      /\ <<"error", x>> \in Chunks
  /\ \A id \in Marks, json \in Seq(Marks) : <<"call", <<id, Arguments(json)>>>> \in Chunks
<1>1. \A x \in Marks : x \in Told
  BY DEF Told
<1>2. \A id \in Marks, json \in Seq(Marks) : <<id, Arguments(json)>> \in Told
  BY DEF Told
<1>3. \A x \in Told : \A kind \in {"text", "call", "reason", "error"} : <<kind, x>> \in Chunks
  BY DEF Chunks
<1>4. QED
  BY <1>1, <1>2, <1>3

\* What each line does to the decoder.
LEMMA OnLineFacts ==
  ASSUME NEW d \in Decoder, NEW line \in Lines
  PROVE  /\ line.type = "tool_start" => OnLine(d, line) = [d EXCEPT !.tool = <<[id |-> line.of, json |-> <<>>]>>]
         /\ line.type = "text_delta" => OnLine(d, line) = Send(d, <<"text", line.of>>)
         /\ line.type = "json_delta" /\ d.tool # <<>> =>
              OnLine(d, line) = [d EXCEPT !.tool = <<[id |-> d.tool[1].id, json |-> Append(d.tool[1].json, line.of)]>>]
         /\ line.type = "block_stop" /\ d.tool # <<>> =>
              OnLine(d, line) = [Send(d, <<"call", <<d.tool[1].id, Arguments(d.tool[1].json)>>>>)
                                   EXCEPT !.tool = <<>>]
         /\ line.type = "message_delta" => OnLine(d, line) = Send(d, <<"reason", line.of>>)
         /\ line.type = "message_stop" => OnLine(d, line) = [d EXCEPT !.open = FALSE]
         /\ line.type \in {"ping", "text_start", "noise"} => OnLine(d, line) = d
         /\ line.type \in {"json_delta", "block_stop"} /\ d.tool = <<>> => OnLine(d, line) = d
<1>1. line.type = "tool_start" => OnLine(d, line) = [d EXCEPT !.tool = <<[id |-> line.of, json |-> <<>>]>>]
  BY DEF OnLine
<1>2. line.type = "text_delta" => OnLine(d, line) = Send(d, <<"text", line.of>>)
  BY DEF OnLine
<1>3. line.type = "json_delta" /\ d.tool # <<>> =>
              OnLine(d, line) = [d EXCEPT !.tool = <<[id |-> d.tool[1].id, json |-> Append(d.tool[1].json, line.of)]>>]
  BY DEF OnLine
<1>4. line.type = "block_stop" /\ d.tool # <<>> =>
              OnLine(d, line) = [Send(d, <<"call", <<d.tool[1].id, Arguments(d.tool[1].json)>>>>)
                                   EXCEPT !.tool = <<>>]
  BY DEF OnLine
<1>5. line.type = "message_delta" => OnLine(d, line) = Send(d, <<"reason", line.of>>)
  BY DEF OnLine
<1>6. line.type = "message_stop" => OnLine(d, line) = [d EXCEPT !.open = FALSE]
  BY DEF OnLine
<1>7. line.type \in {"ping", "text_start", "noise"} => OnLine(d, line) = d
  BY DEF OnLine
<1>8. line.type \in {"json_delta", "block_stop"} /\ d.tool = <<>> => OnLine(d, line) = d
  BY DEF OnLine
<1>9. QED
  BY <1>1, <1>2, <1>3, <1>4, <1>5, <1>6, <1>7, <1>8

\* A decoder changed in one place is a decoder.
LEMMA DecoderFields ==
  ASSUME NEW d \in Decoder
  PROVE  /\ d.buffer \in Seq(Byte) /\ d.tool \in Seq(Tools) /\ d.sent \in Seq(Chunks)
         /\ d.open \in BOOLEAN
         /\ \A buffer \in Seq(Byte) : [d EXCEPT !.buffer = buffer] \in Decoder
         /\ \A tool \in Seq(Tools) : [d EXCEPT !.tool = tool] \in Decoder
         /\ \A sent \in Seq(Chunks) : [d EXCEPT !.sent = sent] \in Decoder
         /\ \A open \in BOOLEAN : [d EXCEPT !.open = open] \in Decoder
<1> DEFINE A == Seq(Byte)
           B == Seq(Tools)
           C == Seq(Chunks)
<1>1. Decoder = [buffer : A, tool : B, sent : C, open : BOOLEAN]
  BY DEF Decoder
<1> HIDE DEF A, B, C
<1>2. /\ d.buffer \in A /\ d.tool \in B /\ d.sent \in C /\ d.open \in BOOLEAN
      /\ \A buffer \in A : [d EXCEPT !.buffer = buffer] \in Decoder
      /\ \A tool \in B : [d EXCEPT !.tool = tool] \in Decoder
      /\ \A sent \in C : [d EXCEPT !.sent = sent] \in Decoder
      /\ \A open \in BOOLEAN : [d EXCEPT !.open = open] \in Decoder
  BY <1>1
<1>3. QED
  BY <1>2 DEF A, B, C

LEMMA SendType ==
  ASSUME NEW d \in Decoder, NEW chunk \in Chunks
  PROVE  Send(d, chunk) \in Decoder
<1>1. Append(d.sent, chunk) \in Seq(Chunks)
  BY DecoderFields
<1>2. QED
  BY <1>1, DecoderFields DEF Send

LEMMA SendFields ==
  ASSUME NEW d \in Decoder, NEW chunk
  PROVE  /\ Send(d, chunk).sent = Append(d.sent, chunk)
         /\ Send(d, chunk).buffer = d.buffer /\ Send(d, chunk).tool = d.tool
         /\ Send(d, chunk).open = d.open
BY DEF Send, Decoder

LEMMA OnLineType ==
  ASSUME NEW d \in Decoder, NEW line \in Lines
  PROVE  OnLine(d, line) \in Decoder
<1>1. line.of \in Marks /\ line.type \in LineType
  BY DEF Lines
<1>2. d.tool \in Seq(Tools) /\ (d.tool # <<>> => d.tool[1] \in Tools)
  <2>1. d.tool \in Seq(Tools)
    BY DecoderFields
  <2>2. QED
    BY <2>1
<1>3. CASE line.type = "tool_start"
  <2> DEFINE tool == [id |-> line.of, json |-> <<>>]
  <2>1. tool \in Tools
    BY <1>1 DEF Tools
  <2>2. <<tool>> \in Seq(Tools)
    BY <2>1, Short, Zenon
  <2>3. OnLine(d, line) = [d EXCEPT !.tool = <<tool>>]
    BY <1>3, OnLineFacts
  <2> HIDE DEF tool
  <2>4. QED
    BY <2>2, <2>3, DecoderFields
<1>4. CASE line.type = "text_delta"
  <2>1. <<"text", line.of>> \in Chunks
    BY <1>1, ToldFacts, Zenon
  <2>2. Send(d, <<"text", line.of>>) \in Decoder
    BY <2>1, SendType, Zenon
  <2>3. QED
    BY <1>4, <2>2, OnLineFacts
<1>5. CASE line.type = "json_delta" /\ d.tool # <<>>
  <2> DEFINE tool == [id |-> d.tool[1].id, json |-> Append(d.tool[1].json, line.of)]
  <2>1. tool \in Tools
    <3>1. d.tool[1].id \in Marks /\ d.tool[1].json \in Seq(Marks)
      BY <1>2, <1>5 DEF Tools
    <3>2. Append(d.tool[1].json, line.of) \in Seq(Marks)
      BY <1>1, <3>1
    <3>3. QED
      BY <3>1, <3>2 DEF Tools
  <2>2. <<tool>> \in Seq(Tools)
    BY <2>1, Short, Zenon
  <2>3. OnLine(d, line) = [d EXCEPT !.tool = <<tool>>]
    BY <1>5, OnLineFacts
  <2> HIDE DEF tool
  <2>4. QED
    BY <2>2, <2>3, DecoderFields
<1>6. CASE line.type = "block_stop" /\ d.tool # <<>>
  <2> DEFINE chunk == <<"call", <<d.tool[1].id, Arguments(d.tool[1].json)>>>>
  <2>1. d.tool[1].id \in Marks /\ d.tool[1].json \in Seq(Marks)
    BY <1>2, <1>6 DEF Tools
  <2>2. chunk \in Chunks
    BY <2>1, ToldFacts, Zenon
  <2>3. OnLine(d, line) = [Send(d, chunk) EXCEPT !.tool = <<>>]
    BY <1>6, OnLineFacts
  <2> HIDE DEF chunk
  <2>4. Send(d, chunk) \in Decoder
    BY <2>2, SendType
  <2>5. <<>> \in Seq(Tools)
    OBVIOUS
  <2>6. [Send(d, chunk) EXCEPT !.tool = <<>>] \in Decoder
    BY <2>4, <2>5, DecoderFields
  <2>7. QED
    BY <2>3, <2>6
<1>7. CASE line.type = "message_delta"
  <2>1. <<"reason", line.of>> \in Chunks
    BY <1>1, ToldFacts, Zenon
  <2>2. Send(d, <<"reason", line.of>>) \in Decoder
    BY <2>1, SendType, Zenon
  <2>3. QED
    BY <1>7, <2>2, OnLineFacts
<1>8. CASE line.type = "message_stop"
  <2>1. [d EXCEPT !.open = FALSE] \in Decoder
    BY DecoderFields
  <2>2. QED
    BY <1>8, <2>1, OnLineFacts
<1>9. CASE \/ line.type \in {"ping", "text_start", "noise"}
           \/ line.type \in {"json_delta", "block_stop"} /\ d.tool = <<>>
  BY <1>9, OnLineFacts
<1>10. \/ line.type \in {"tool_start", "text_delta", "message_delta", "message_stop"}
       \/ line.type \in {"ping", "text_start", "noise"} \/ line.type \in {"json_delta", "block_stop"}
  BY <1>1 DEF LineType
<1>11. CASE line.type \in {"json_delta", "block_stop"}
  <2>1. CASE d.tool = <<>>
    BY <1>9, <1>11, <2>1, Zenon
  <2>2. CASE d.tool # <<>>
    <3>1. line.type = "json_delta" \/ line.type = "block_stop"
      BY <1>11
    <3>2. QED
      BY <1>5, <1>6, <2>2, <3>1, Zenon
  <2>3. QED
    BY <2>1, <2>2
<1>12. CASE line.type \in {"tool_start", "text_delta", "message_delta", "message_stop"}
  <2>1. \/ line.type = "tool_start" \/ line.type = "text_delta"
        \/ line.type = "message_delta" \/ line.type = "message_stop"
    BY <1>12
  <2>2. QED
    BY <1>3, <1>4, <1>7, <1>8, <2>1, Zenon
<1>13. CASE line.type \in {"ping", "text_start", "noise"}
  BY <1>13, OnLineFacts
<1>14. QED
  BY <1>10, <1>11, <1>12, <1>13, Zenon

-----------------------------------------------------------------------------
(***************************************************************************)
(* The decoder reads one byte after another.                               *)
(***************************************************************************)

\* What a byte does: nothing once the stream is over, and otherwise it waits for the
\* end of its line or is that end.
Longer(d, byte) == Append(d.buffer, byte)
Fresh(d) == [d EXCEPT !.buffer = <<>>]

LEMMA OnByteCases ==
  ASSUME NEW d \in Decoder, NEW byte \in Byte
  PROVE  /\ Fresh(d) \in Decoder /\ Fresh(d).sent = d.sent /\ Fresh(d).open = d.open
         /\ Longer(d, byte) \in Seq(Byte) /\ Event(Longer(d, byte)) \in Lines
         /\ \/ OnByte(d, byte) = d
            \/ OnByte(d, byte) = OnLine(Fresh(d), Event(Longer(d, byte)))
            \/ OnByte(d, byte) = [d EXCEPT !.buffer = Longer(d, byte)]
<1> DEFINE line == Longer(d, byte)
<1>1. d.buffer \in Seq(Byte)
  BY DecoderFields
<1>2. line \in Seq(Byte) /\ Len(line) >= 1
  BY <1>1 DEF Longer
<1> HIDE DEF line
<1>3. line[1] \in Byte
  BY <1>2
<1>4. line[1][1] \in Lines
  BY <1>3 DEF Byte
<1>5. Line("noise", None) \in Lines
  BY MarksFacts DEF Line, Lines, LineType
<1>6. Event(line) \in Lines
  BY <1>4, <1>5 DEF Event
<1>7. <<>> \in Seq(Byte)
  OBVIOUS
<1>8. Fresh(d) \in Decoder
  BY <1>7, DecoderFields DEF Fresh
<1>9. Fresh(d).sent = d.sent /\ Fresh(d).open = d.open
  BY DEF Fresh, Decoder
<1>10. \/ OnByte(d, byte) = d
       \/ OnByte(d, byte) = OnLine(Fresh(d), Event(line))
       \/ OnByte(d, byte) = [d EXCEPT !.buffer = line]
  BY DEF OnByte, line, Longer, Fresh
<1>11. QED
  BY <1>2, <1>6, <1>8, <1>9, <1>10 DEF line

LEMMA OnByteType ==
  ASSUME NEW d \in Decoder, NEW byte \in Byte
  PROVE  OnByte(d, byte) \in Decoder
<1>1. OnLine(Fresh(d), Event(Longer(d, byte))) \in Decoder
  BY OnByteCases, OnLineType
<1>2. [d EXCEPT !.buffer = Longer(d, byte)] \in Decoder
  BY OnByteCases, DecoderFields
<1>3. QED
  BY <1>1, <1>2, OnByteCases

\* The reading of some bytes, from any decoder on.
LEMMA ReadingFacts ==
  ASSUME NEW d \in Decoder, NEW bytes \in Seq(Byte)
  PROVE  /\ Reading(d, bytes) \in [0..Len(bytes) -> Decoder]
         /\ Reading(d, bytes)[0] = d
         /\ \A k \in 1..Len(bytes) :
              Reading(d, bytes)[k] = OnByte(Reading(d, bytes)[k - 1], bytes[k])
<1> DEFINE n == Len(bytes)
           step == [k \in 1..n |-> [e \in Decoder |-> OnByte(e, bytes[k])]]
           Is(f) == f = [k \in 0..n |-> IF k = 0 THEN d ELSE OnByte(f[k - 1], bytes[k])]
<1>1. n \in Nat /\ \A k \in 1..n : bytes[k] \in Byte
  OBVIOUS
<1>2. \A e \in Decoder, k \in 1..n : OnByte(e, bytes[k]) \in Decoder
  BY <1>1, OnByteType
<1>3. step \in [1..n -> [Decoder -> Decoder]]
  BY <1>2
<1>4. PICK f : Follows(f, Decoder, d, n, step)
  <2> HIDE DEF n, step
  <2>1. QED
    BY <1>1, <1>3, RecursionExists
<1>5. f \in [0..n -> Decoder] /\ f[0] = d /\ \A k \in 1..n : f[k] = step[k][f[k - 1]]
  <2> HIDE DEF n, step
  <2>1. QED
    BY <1>4 DEF Follows
<1>6. \A k \in 1..n : f[k] = OnByte(f[k - 1], bytes[k])
  <2> SUFFICES ASSUME NEW k \in 1..n PROVE f[k] = OnByte(f[k - 1], bytes[k])
    OBVIOUS
  <2>1. k - 1 \in 0..n
    BY <1>1
  <2> HIDE DEF n
  <2>2. f[k - 1] \in Decoder
    BY <1>5, <2>1
  <2>3. QED
    BY <1>5, <2>2
<1>7. Is(f)
  <2>1. \A k \in 0..n : f[k] = IF k = 0 THEN d ELSE OnByte(f[k - 1], bytes[k])
    BY <1>1, <1>5, <1>6
  <2>2. f = [k \in 0..n |-> f[k]]
    BY <1>5
  <2>3. QED
    BY <2>1, <2>2, Zenon
<1> DEFINE g == Reading(d, bytes)
<1>8. Is(g)
  BY <1>7, Zenon DEF Reading
<1> HIDE DEF g
<1>9. g[0] = d /\ \A k \in 1..n : g[k] = OnByte(g[k - 1], bytes[k])
  <2>1. \A k \in 0..n : g[k] = IF k = 0 THEN d ELSE OnByte(g[k - 1], bytes[k])
    BY <1>8
  <2>2. 0 \in 0..n /\ \A k \in 1..n : k \in 0..n /\ k # 0
    BY <1>1
  <2> HIDE DEF n
  <2>3. QED
    BY <2>1, <2>2
<1>10. \A k \in 0..n : k \in {i \in 0..n : g[i] \in Decoder}
  <2> DEFINE Good == {i \in 0..n : g[i] \in Decoder}
  <2>1. 0 \in Good
    BY <1>1, <1>9
  <2>2. \A k \in 1..n : k - 1 \in Good => k \in Good
    BY <1>1, <1>2, <1>9
  <2> HIDE DEF Good, n
  <2>3. \A k \in 0..n : k \in Good
    BY <1>1, <2>1, <2>2, Climb
  <2>4. QED
    BY <2>3 DEF Good
<1>11. g \in [0..n -> Decoder]
  <2>1. g = [k \in 0..n |-> g[k]]
    BY <1>8
  <2> HIDE DEF n
  <2>2. QED
    BY <1>10, <2>1
<1>12. QED
  BY <1>9, <1>11 DEF g

LEMMA OnChunkType ==
  ASSUME NEW d \in Decoder, NEW bytes \in Seq(Byte)
  PROVE  OnChunk(d, bytes) \in Decoder
<1>1. Reading(d, bytes) \in [0..Len(bytes) -> Decoder] /\ Len(bytes) \in 0..Len(bytes)
  BY ReadingFacts
<1>2. QED
  BY <1>1 DEF OnChunk

LEMMA OnChunkEmpty ==
  ASSUME NEW d \in Decoder
  PROVE  OnChunk(d, <<>>) = d
<1>1. <<>> \in Seq(Byte) /\ Len(<<>>) = 0
  OBVIOUS
<1>2. QED
  BY <1>1, ReadingFacts DEF OnChunk

\* It makes no difference where a body is cut into chunks.
LEMMA CutAnywhere ==
  ASSUME NEW d \in Decoder, NEW s \in Seq(Byte), NEW t \in Seq(Byte)
  PROVE  OnChunk(d, s \o t) = OnChunk(OnChunk(d, s), t)
<1> DEFINE m == Len(s)
           n == Len(t)
           u == s \o t
           f == Reading(d, u)
           g == Reading(d, s)
           e == OnChunk(d, s)
           h == Reading(e, t)
<1>1. /\ m \in Nat /\ n \in Nat /\ u \in Seq(Byte) /\ Len(u) = m + n
      /\ \A k \in 1..m : u[k] = s[k]
      /\ \A k \in 1..n : u[m + k] = t[k]
  <2>1. m \in Nat /\ n \in Nat
    OBVIOUS
  <2>2. u \in Seq(Byte) /\ Len(u) = m + n
    BY ConcatProperties
  <2>3. \A i \in 1..(m + n) : u[i] = IF i <= m THEN s[i] ELSE t[i - m]
    BY ConcatProperties
  <2> HIDE DEF m, n, u
  <2>4. \A k \in 1..m : u[k] = s[k]
    BY <2>1, <2>3
  <2>5. \A k \in 1..n : u[m + k] = t[k]
    BY <2>1, <2>3
  <2>6. QED
    BY <2>1, <2>2, <2>4, <2>5
<1>2. e \in Decoder /\ e = g[m]
  BY OnChunkType DEF OnChunk
<1>3. /\ f[0] = d /\ \A k \in 1..(m + n) : f[k] = OnByte(f[k - 1], u[k])
      /\ g[0] = d /\ \A k \in 1..m : g[k] = OnByte(g[k - 1], s[k])
      /\ h[0] = e /\ \A k \in 1..n : h[k] = OnByte(h[k - 1], t[k])
  <2>1. g[0] = d /\ \A k \in 1..m : g[k] = OnByte(g[k - 1], s[k])
    BY ReadingFacts
  <2> HIDE DEF e
  <2>2. h[0] = e /\ \A k \in 1..n : h[k] = OnByte(h[k - 1], t[k])
    BY <1>2, ReadingFacts
  <2> HIDE DEF u
  <2>3. f[0] = d /\ \A k \in 1..Len(u) : f[k] = OnByte(f[k - 1], u[k])
    BY <1>1, ReadingFacts
  <2>4. QED
    BY <1>1, <2>1, <2>2, <2>3
<1>4. OnChunk(d, u) = f[m + n] /\ OnChunk(e, t) = h[n]
  BY <1>1 DEF OnChunk
<1> HIDE DEF m, n, u, f, g, e, h
<1> DEFINE Low == {k \in 0..m : f[k] = g[k]}
           High == {k \in 0..n : f[m + k] = h[k]}
<1>5. \A k \in 0..m : k \in Low
  <2>1. 0 \in Low
    BY <1>1, <1>3
  <2>2. \A k \in 1..m : k - 1 \in Low => k \in Low
    BY <1>1, <1>3
  <2> HIDE DEF Low
  <2>3. QED
    BY <1>1, <2>1, <2>2, Climb
<1>6. f[m] = g[m]
  BY <1>1, <1>5
<1>7. \A k \in 0..n : k \in High
  <2>1. 0 \in High
    BY <1>1, <1>2, <1>3, <1>6
  <2>2. ASSUME NEW k \in 1..n, k - 1 \in High PROVE k \in High
    <3>1. m + k \in 1..(m + n) /\ (m + k) - 1 = m + (k - 1) /\ k \in 0..n
      BY <1>1
    <3>2. f[m + k] = OnByte(f[(m + k) - 1], u[m + k])
      BY <1>3, <3>1
    <3>3. f[m + (k - 1)] = h[k - 1] /\ u[m + k] = t[k] /\ h[k] = OnByte(h[k - 1], t[k])
      BY <1>1, <1>3, <2>2
    <3>4. QED
      BY <3>1, <3>2, <3>3
  <2> HIDE DEF High
  <2>3. QED
    BY <1>1, <2>1, <2>2, Climb
<1>8. f[m + n] = h[n]
  BY <1>1, <1>7
<1>9. QED
  BY <1>4, <1>8 DEF u, e

\* e has sent what d has sent, and at most one chunk more.
SendsOn(d, e) == e.sent = d.sent \/ \E chunk : e.sent = Append(d.sent, chunk)

LEMMA OnLineSends ==
  ASSUME NEW d \in Decoder, NEW line \in Lines
  PROVE  SendsOn(d, OnLine(d, line))
<1>1. line.type \in LineType
  BY DEF Lines
<1>2. /\ SendsOn(d, d) /\ \A tool : SendsOn(d, [d EXCEPT !.tool = tool])
      /\ SendsOn(d, [d EXCEPT !.open = FALSE])
  BY DEF SendsOn, Decoder
<1>3. \A chunk : SendsOn(d, Send(d, chunk)) /\ SendsOn(d, [Send(d, chunk) EXCEPT !.tool = <<>>])
  <2> SUFFICES ASSUME NEW chunk
               PROVE  SendsOn(d, Send(d, chunk)) /\ SendsOn(d, [Send(d, chunk) EXCEPT !.tool = <<>>])
    OBVIOUS
  <2>1. Send(d, chunk).sent = Append(d.sent, chunk)
    BY SendFields
  <2>2. [Send(d, chunk) EXCEPT !.tool = <<>>].sent = Send(d, chunk).sent
    BY DEF Send, Decoder
  <2>3. QED
    BY <2>1, <2>2 DEF SendsOn
<1>4. ASSUME line.type = "tool_start" PROVE SendsOn(d, OnLine(d, line))
  <2>1. OnLine(d, line) = [d EXCEPT !.tool = <<[id |-> line.of, json |-> <<>>]>>]
    BY <1>4, OnLineFacts
  <2>2. QED
    BY <1>2, <2>1, Zenon
<1>5. ASSUME line.type = "json_delta", d.tool # <<>> PROVE SendsOn(d, OnLine(d, line))
  <2>1. OnLine(d, line) = [d EXCEPT !.tool = <<[id |-> d.tool[1].id, json |-> Append(d.tool[1].json, line.of)]>>]
    BY <1>5, OnLineFacts
  <2>2. QED
    BY <1>2, <2>1, Zenon
<1>6. ASSUME line.type = "text_delta" PROVE SendsOn(d, OnLine(d, line))
  <2>1. OnLine(d, line) = Send(d, <<"text", line.of>>)
    BY <1>6, OnLineFacts
  <2>2. QED
    BY <1>3, <2>1, Zenon
<1>7. ASSUME line.type = "message_delta" PROVE SendsOn(d, OnLine(d, line))
  <2>1. OnLine(d, line) = Send(d, <<"reason", line.of>>)
    BY <1>7, OnLineFacts
  <2>2. QED
    BY <1>3, <2>1, Zenon
<1>8. ASSUME line.type = "block_stop", d.tool # <<>> PROVE SendsOn(d, OnLine(d, line))
  <2>1. OnLine(d, line) = [Send(d, <<"call", <<d.tool[1].id, Arguments(d.tool[1].json)>>>>) EXCEPT !.tool = <<>>]
    BY <1>8, OnLineFacts
  <2>2. QED
    BY <1>3, <2>1, Zenon
<1>9. ASSUME line.type = "message_stop" PROVE SendsOn(d, OnLine(d, line))
  BY <1>2, <1>9, OnLineFacts, Zenon
<1>10. ASSUME \/ line.type \in {"ping", "text_start", "noise"}
              \/ line.type \in {"json_delta", "block_stop"} /\ d.tool = <<>>
       PROVE  SendsOn(d, OnLine(d, line))
  <2>1. OnLine(d, line) = d
    BY <1>10, OnLineFacts
  <2>2. QED
    BY <1>2, <2>1
<1>11. \/ line.type = "tool_start" \/ line.type = "text_delta" \/ line.type = "json_delta"
       \/ line.type = "block_stop" \/ line.type = "message_delta" \/ line.type = "message_stop"
       \/ line.type \in {"ping", "text_start", "noise"}
  BY <1>1 DEF LineType
<1>12. line.type \in {"json_delta", "block_stop"} <=> line.type = "json_delta" \/ line.type = "block_stop"
  OBVIOUS
<1>13. QED
  BY <1>4, <1>5, <1>6, <1>7, <1>8, <1>9, <1>10, <1>11, <1>12, Zenon

\* b has sent what a has sent, and maybe more.
Further(a, b) ==
  /\ Len(a.sent) <= Len(b.sent)
  /\ \A k \in 1..Len(a.sent) : b.sent[k] = a.sent[k]

LEMMA OnByteSends ==
  ASSUME NEW d \in Decoder, NEW byte \in Byte
  PROVE  Further(d, OnByte(d, byte))
<1> DEFINE e == OnByte(d, byte)
           l == OnLine(Fresh(d), Event(Longer(d, byte)))
           w == [d EXCEPT !.buffer = Longer(d, byte)]
<1>1. e = d \/ e = l \/ e = w
  BY OnByteCases
<1>2. SendsOn(d, l)
  <2>1. SendsOn(Fresh(d), l) /\ Fresh(d).sent = d.sent
    BY OnByteCases, OnLineSends
  <2> HIDE DEF l
  <2>2. QED
    BY <2>1 DEF SendsOn
<1>3. SendsOn(d, w) /\ SendsOn(d, d)
  BY DEF Decoder, SendsOn
<1>4. e \in Decoder
  BY OnByteType
<1> HIDE DEF e, l, w
<1>5. SendsOn(d, e)
  BY <1>1, <1>2, <1>3
<1> DEFINE a == d.sent
           b == e.sent
<1>6. a \in Seq(Chunks) /\ b \in Seq(Chunks)
  BY <1>4, DecoderFields
<1>7. b = a \/ \E chunk : b = Append(a, chunk)
  BY <1>5 DEF SendsOn
<1> HIDE DEF a, b
<1>8. Len(a) <= Len(b) /\ \A k \in 1..Len(a) : b[k] = a[k]
  <2>1. CASE b = a
    BY <1>6, <2>1
  <2>2. CASE \E chunk : b = Append(a, chunk)
    <3>1. PICK chunk : b = Append(a, chunk)
      BY <2>2
    <3>2. QED
      BY <1>6, <3>1
  <2>3. QED
    BY <1>7, <2>1, <2>2
<1>9. QED
  BY <1>8 DEF Further, a, b, e

\* What was sent stays sent.
LEMMA OnChunkSends ==
  ASSUME NEW d \in Decoder, NEW bytes \in Seq(Byte)
  PROVE  Further(d, OnChunk(d, bytes))
<1> DEFINE n == Len(bytes)
           f == Reading(d, bytes)
           Good == {k \in 0..n : Further(d, f[k])}
<1>1. n \in Nat /\ d.sent \in Seq(Chunks) /\ \A k \in 1..n : bytes[k] \in Byte
  BY DecoderFields
<1>2. /\ f \in [0..n -> Decoder] /\ f[0] = d
      /\ \A k \in 1..n : f[k] = OnByte(f[k - 1], bytes[k])
  BY ReadingFacts
<1> HIDE DEF n, f
<1>3. 0 \in Good
  BY <1>1, <1>2 DEF Further
<1>4. ASSUME NEW k \in 1..n, k - 1 \in Good PROVE k \in Good
  <2> DEFINE a == f[k - 1]
             b == f[k]
  <2>1. a \in Decoder /\ b \in Decoder /\ k \in 0..n
    BY <1>1, <1>2
  <2>2. a.sent \in Seq(Chunks) /\ b.sent \in Seq(Chunks)
    BY <2>1, DecoderFields
  <2>3. Further(d, a)
    BY <1>4
  <2>4. Further(a, b)
    BY <1>1, <1>2, <2>1, OnByteSends
  <2> HIDE DEF a, b
  <2>5. Further(d, b)
    BY <1>1, <2>2, <2>3, <2>4 DEF Further
  <2>6. QED
    BY <2>1, <2>5 DEF b
<1>5. \A k \in 0..n : k \in Good
  <2> HIDE DEF Good
  <2>1. QED
    BY <1>1, <1>3, <1>4, Climb
<1>6. OnChunk(d, bytes) = f[n]
  BY DEF OnChunk, f, n
<1>7. QED
  BY <1>1, <1>5, <1>6

-----------------------------------------------------------------------------
(***************************************************************************)
(* The lines of an answer, and what they tell.                             *)
(***************************************************************************)

\* A line that arrives whole is one line to the decoder.
LEMMA OneLine ==
  ASSUME NEW d \in Decoder, d.buffer = <<>>, d.open, NEW type \in LineType, NEW of \in Marks
  PROVE  /\ LineOf(type, of) \in Seq(Byte) /\ Line(type, of) \in Lines
         /\ OnChunk(d, LineOf(type, of)) = OnLine(d, Line(type, of))
<1> DEFINE n == LineBytes
           line == Line(type, of)
           s == LineOf(type, of)
           f == Reading(d, s)
           Begun(k) == [i \in 1..k |-> <<line, i>>]
           Good == {k \in 0..(n - 1) : f[k] = [d EXCEPT !.buffer = Begun(k)]}
<1>1. n \in Nat /\ n >= 1
  BY WireAssumption
<1>2. line \in Lines
  BY DEF Line, Lines
<1> HIDE DEF line
<1>3. /\ \A k \in 1..n : <<line, k>> \in Byte
      /\ \A k \in 0..n : Begun(k) \in Seq(Byte) /\ Len(Begun(k)) = k
  <2>1. \A k \in 1..n : <<line, k>> \in Byte
    BY <1>2 DEF Byte
  <2>2. ASSUME NEW k \in 0..n PROVE Begun(k) \in Seq(Byte) /\ Len(Begun(k)) = k
    <3>1. \A i \in 1..k : <<line, i>> \in Byte
      BY <1>1, <2>1
    <3>2. Begun(k) \in [1..k -> Byte] /\ k \in Nat
      BY <1>1, <3>1
    <3> HIDE DEF Begun, n
    <3>3. QED
      BY <3>2
  <2>3. QED
    BY <2>1, <2>2
<1>4. s = Begun(n)
  BY DEF LineOf, line
<1>5. s \in Seq(Byte) /\ Len(s) = n /\ \A k \in 1..n : s[k] = <<line, k>>
  <2>1. \A k \in 1..n : Begun(n)[k] = <<line, k>>
    OBVIOUS
  <2> HIDE DEF s, Begun
  <2>2. QED
    BY <1>1, <1>3, <1>4, <2>1
<1>6. f[0] = d /\ \A k \in 1..n : f[k] = OnByte(f[k - 1], <<line, k>>)
  <2> HIDE DEF s, n
  <2>1. f[0] = d /\ \A k \in 1..n : f[k] = OnByte(f[k - 1], s[k])
    BY <1>5, ReadingFacts
  <2>2. QED
    BY <1>5, <2>1
<1>7. \A k \in 1..n : Append(Begun(k - 1), <<line, k>>) = Begun(k)
  <2> SUFFICES ASSUME NEW k \in 1..n PROVE Append(Begun(k - 1), <<line, k>>) = Begun(k)
    OBVIOUS
  <2> DEFINE a == Append(Begun(k - 1), <<line, k>>)
             b == Begun(k)
             c == Begun(k - 1)
  <2>1. k \in 0..n /\ k - 1 \in 0..n
    BY <1>1
  <2>2. c \in Seq(Byte) /\ Len(c) = k - 1 /\ b \in Seq(Byte) /\ Len(b) = k /\ <<line, k>> \in Byte
    BY <1>3, <2>1
  <2>3. (\A i \in 1..(k - 1) : c[i] = <<line, i>>) /\ \A i \in 1..k : b[i] = <<line, i>>
    OBVIOUS
  <2>4. a = Append(c, <<line, k>>)
    OBVIOUS
  <2> HIDE DEF a, b, c, n
  <2>5. a \in Seq(Byte) /\ Len(a) = k
    BY <1>1, <2>1, <2>2, <2>4
  <2>6. \A i \in 1..k : a[i] = <<line, i>>
    BY <1>1, <2>1, <2>2, <2>3, <2>4
  <2>7. a = b
    <3>1. \A i \in 1..Len(a) : a[i] = b[i]
      BY <2>3, <2>5, <2>6
    <3>2. QED
      BY <2>2, <2>5, <3>1, SeqEqual
  <2>8. QED
    BY <2>7 DEF a, b
<1>8. \A k \in 0..(n - 1) : k \in Good
  <2>1. 0 \in Good
    <3>1. Begun(0) = <<>>
      OBVIOUS
    <3>2. [d EXCEPT !.buffer = <<>>] = d
      BY DEF Decoder
    <3> HIDE DEF Begun, n, f
    <3>3. QED
      BY <1>1, <1>6, <3>1, <3>2
  <2>2. ASSUME NEW k \in 1..(n - 1), k - 1 \in Good PROVE k \in Good
    <3> DEFINE e == [d EXCEPT !.buffer = Begun(k - 1)]
               byte == <<line, k>>
    <3>1. f[k - 1] = e
      BY <2>2
    <3>2. e.open /\ e.buffer = Begun(k - 1)
      BY DEF Decoder
    <3>3. byte[2] # LineBytes /\ k \in 1..n
      BY <1>1
    <3>4. [e EXCEPT !.buffer = Begun(k)] = [d EXCEPT !.buffer = Begun(k)]
      BY DEF Decoder
    <3>5. Append(Begun(k - 1), byte) = Begun(k)
      BY <1>7, <3>3
    <3> HIDE DEF e, Begun, f, byte
    <3>6. OnByte(e, byte) = [e EXCEPT !.buffer = Begun(k)]
      BY <3>2, <3>3, <3>5 DEF OnByte
    <3>7. f[k] = OnByte(e, byte)
      BY <1>6, <3>1, <3>3 DEF byte
    <3>8. QED
      BY <3>4, <3>6, <3>7
  <2> HIDE DEF Good
  <2>3. n - 1 \in Nat
    BY <1>1
  <2> HIDE DEF n
  <2>4. QED
    BY <2>1, <2>2, <2>3, Climb
<1>9. f[n] = OnLine(d, line)
  <2> DEFINE e == [d EXCEPT !.buffer = Begun(n - 1)]
             byte == <<line, n>>
             whole == Begun(n)
  <2>1. f[n - 1] = e /\ n \in 1..n /\ n - 1 \in 0..n /\ n \in 0..n
    <3>1. n \in 1..n /\ n - 1 \in 0..n /\ n \in 0..n /\ n - 1 \in 0..(n - 1)
      BY <1>1
    <3>2. n - 1 \in Good
      BY <1>8, <3>1
    <3>3. QED
      BY <3>1, <3>2
  <2>2. e.open /\ e.buffer = Begun(n - 1)
    BY DEF Decoder
  <2>3. [e EXCEPT !.buffer = <<>>] = d
    BY DEF Decoder
  <2>4. Append(Begun(n - 1), byte) = whole
    BY <1>7, <2>1
  <2>5. Len(whole) = LineBytes /\ whole[1][1] = line
    <3>1. Len(whole) = LineBytes
      BY <1>3, <2>1
    <3>2. 1 \in 1..n
      BY <1>1
    <3>3. whole[1] = <<line, 1>>
      BY <3>2
    <3> HIDE DEF whole
    <3>4. QED
      BY <3>1, <3>3
  <2>6. byte[2] = LineBytes
    OBVIOUS
  <2>7. f[n] = OnByte(f[n - 1], byte)
    BY <1>6, <2>1
  <2> HIDE DEF e, Begun, f, byte, whole
  <2>8. Event(whole) = line
    BY <2>5 DEF Event
  <2>9. OnByte(e, byte) = OnLine(d, line)
    BY <2>2, <2>3, <2>4, <2>6, <2>8 DEF OnByte
  <2>10. QED
    BY <2>1, <2>7, <2>9
<1>10. OnChunk(d, s) = f[n]
  BY <1>5 DEF OnChunk
<1>11. QED
  BY <1>2, <1>5, <1>9, <1>10 DEF line

\* The first j pieces of the block k.
Upto(k, j) == [i \in 1..j |-> <<k, i>>]

LEMMA UptoFacts ==
  ASSUME NEW k \in Nat, NEW j \in Nat
  PROVE  /\ Upto(k, j) \in Seq(Marks) /\ Upto(k, 0) = <<>>
         /\ j >= 1 => Upto(k, j) = Append(Upto(k, j - 1), <<k, j>>)
<1>1. \A m \in Nat : Upto(k, m) \in Seq(Marks) /\ Len(Upto(k, m)) = m
  <2> SUFFICES ASSUME NEW m \in Nat PROVE Upto(k, m) \in Seq(Marks) /\ Len(Upto(k, m)) = m
    OBVIOUS
  <2>1. \A i \in 1..m : <<k, i>> \in Marks
    BY MarksFacts
  <2>2. Upto(k, m) \in [1..m -> Marks]
    BY <2>1 DEF Upto
  <2>3. QED
    BY <2>2
<1>2. \A m \in Nat : \A i \in 1..m : Upto(k, m)[i] = <<k, i>>
  BY DEF Upto
<1>3. ASSUME j >= 1 PROVE Upto(k, j) = Append(Upto(k, j - 1), <<k, j>>)
  <2> DEFINE a == Append(Upto(k, j - 1), <<k, j>>)
             b == Upto(k, j)
             c == Upto(k, j - 1)
  <2>1. c \in Seq(Marks) /\ Len(c) = j - 1 /\ b \in Seq(Marks) /\ Len(b) = j
    BY <1>1, <1>3
  <2>2. (\A i \in 1..(j - 1) : c[i] = <<k, i>>) /\ \A i \in 1..j : b[i] = <<k, i>>
    BY <1>2, <1>3
  <2>3. a = Append(c, <<k, j>>) /\ <<k, j>> \in Marks
    BY MarksFacts
  <2> HIDE DEF a, b, c
  <2>4. a \in Seq(Marks) /\ Len(a) = j /\ \A i \in 1..j : a[i] = <<k, i>>
    BY <1>3, <2>1, <2>2, <2>3
  <2>5. \A i \in 1..Len(a) : a[i] = b[i]
    BY <2>2, <2>4
  <2>6. a = b
    BY <2>1, <2>4, <2>5, SeqEqual
  <2>7. QED
    BY <2>6 DEF a, b
<1>4. Upto(k, 0) = <<>>
  BY DEF Upto
<1>5. QED
  BY <1>1, <1>3, <1>4

LEMMA AnswerFacts ==
  ASSUME NEW answer \in Answers
  PROVE  /\ Len(answer) \in Nat
         /\ \A k \in 1..Len(answer) :
              /\ answer[k].pieces \in Nat /\ answer[k].type \in {"text", "tool_use"}
              /\ answer[k].type = "text" => answer[k].pieces >= 1
              /\ Pieces(answer, k) = Upto(k, answer[k].pieces)
<1>1. PICK m \in 0..MaxBlocks : answer \in [1..m -> Block]
  BY DEF Answers, SeqOf
<1>2. m \in Nat
  BY WireAssumption
<1>3. Len(answer) = m
  BY <1>1, <1>2
<1>4. \A b \in Block : /\ b.pieces \in Nat /\ b.type \in {"text", "tool_use"}
                       /\ b.type = "text" => b.pieces >= 1
  <2>1. \A b \in [type : {"text"}, pieces : 1..MaxPieces] :
          b.pieces \in Nat /\ b.type = "text" /\ b.pieces >= 1
    BY WireAssumption
  <2>2. \A b \in [type : {"tool_use"}, pieces : 0..MaxPieces] : b.pieces \in Nat /\ b.type = "tool_use"
    BY WireAssumption
  <2>3. QED
    BY <2>1, <2>2 DEF Block
<1>5. QED
  BY <1>1, <1>2, <1>3, <1>4 DEF Pieces, Upto

\* What was sent of a kind grows with what is sent.
OfEach(kind, sent) ==
  LET upto[k \in 0..Len(sent)] ==
        IF k = 0 THEN <<>>
        ELSE IF sent[k][1] = kind THEN Append(upto[k - 1], sent[k][2]) ELSE upto[k - 1]
  IN  upto

LEMMA OfEachFacts ==
  ASSUME NEW kind, NEW sent \in Seq(Chunks)
  PROVE  /\ Of(kind, sent) = OfEach(kind, sent)[Len(sent)]
         /\ OfEach(kind, sent)[0] = <<>>
         /\ \A k \in 1..Len(sent) :
              OfEach(kind, sent)[k] = IF sent[k][1] = kind
                                      THEN Append(OfEach(kind, sent)[k - 1], sent[k][2])
                                      ELSE OfEach(kind, sent)[k - 1]
<1> DEFINE n == Len(sent)
           A == Seq(Told)
           Added(k, a) == IF sent[k][1] = kind THEN Append(a, sent[k][2]) ELSE a
           step == [k \in 1..n |-> [a \in A |-> Added(k, a)]]
           Is(f) == f = [k \in 0..n |->
                           IF k = 0 THEN <<>>
                           ELSE IF sent[k][1] = kind THEN Append(f[k - 1], sent[k][2]) ELSE f[k - 1]]
<1>1. n \in Nat /\ \A k \in 1..n : sent[k][2] \in Told
  <2>1. n \in Nat /\ \A k \in 1..n : sent[k] \in Chunks
    OBVIOUS
  <2>2. \A c \in Chunks : c[2] \in Told
    BY DEF Chunks
  <2>3. QED
    BY <2>1, <2>2
<1>2. step \in [1..n -> [A -> A]]
  <2>1. \A k \in 1..n, a \in A : Added(k, a) \in A
    BY <1>1
  <2> HIDE DEF Added, n, A
  <2>2. QED
    BY <2>1
<1>3. <<>> \in A
  OBVIOUS
<1>4. PICK f : Follows(f, A, <<>>, n, step)
  <2> HIDE DEF n, step, A
  <2>1. QED
    BY <1>1, <1>2, <1>3, RecursionExists
<1>5. f \in [0..n -> A] /\ f[0] = <<>> /\ \A k \in 1..n : f[k] = step[k][f[k - 1]]
  <2> HIDE DEF n, step, A
  <2>1. QED
    BY <1>4 DEF Follows
<1>6. \A k \in 1..n : f[k] = Added(k, f[k - 1])
  <2> SUFFICES ASSUME NEW k \in 1..n PROVE f[k] = Added(k, f[k - 1])
    OBVIOUS
  <2>1. k - 1 \in 0..n
    BY <1>1
  <2> HIDE DEF n, A, Added
  <2>2. f[k - 1] \in A
    BY <1>5, <2>1
  <2>3. QED
    BY <1>5, <2>2
<1>7. Is(f)
  <2>1. \A k \in 0..n : f[k] = IF k = 0 THEN <<>>
                               ELSE IF sent[k][1] = kind THEN Append(f[k - 1], sent[k][2]) ELSE f[k - 1]
    <3>1. \A k \in 0..n : k = 0 \/ k \in 1..n
      BY <1>1
    <3> HIDE DEF n, step, A
    <3>2. QED
      BY <1>5, <1>6, <3>1
  <2>2. f = [k \in 0..n |-> f[k]]
    BY <1>5
  <2>3. QED
    BY <2>1, <2>2, Zenon
<1> DEFINE g == OfEach(kind, sent)
<1>8. Is(g)
  BY <1>7, Zenon DEF OfEach
<1>9. Of(kind, sent) = g[n]
  BY Zenon DEF Of, OfEach
<1> HIDE DEF g
<1>10. \A k \in 0..n : g[k] = IF k = 0 THEN <<>>
                              ELSE IF sent[k][1] = kind THEN Append(g[k - 1], sent[k][2]) ELSE g[k - 1]
  BY <1>8
<1>11. 0 \in 0..n /\ \A k \in 1..n : k \in 0..n /\ k # 0
  BY <1>1
<1>12. g[0] = <<>> /\ \A k \in 1..n : g[k] = Added(k, g[k - 1])
  <2> HIDE DEF n
  <2>1. QED
    BY <1>10, <1>11
<1>13. QED
  BY <1>9, <1>12 DEF g

LEMMA OfAppend ==
  ASSUME NEW kind, NEW sent \in Seq(Chunks), NEW chunk \in Chunks
  PROVE  Of(kind, Append(sent, chunk)) =
           IF chunk[1] = kind THEN Append(Of(kind, sent), chunk[2]) ELSE Of(kind, sent)
<1> DEFINE n == Len(sent)
           t == Append(sent, chunk)
           f == OfEach(kind, sent)
           g == OfEach(kind, t)
           Same == {k \in 0..n : f[k] = g[k]}
<1>1. /\ n \in Nat /\ t \in Seq(Chunks) /\ Len(t) = n + 1 /\ t[n + 1] = chunk
      /\ \A k \in 1..n : t[k] = sent[k]
  BY AppendProperties
<1>2. /\ Of(kind, sent) = f[n] /\ f[0] = <<>>
      /\ \A k \in 1..n : f[k] = IF sent[k][1] = kind THEN Append(f[k - 1], sent[k][2]) ELSE f[k - 1]
  BY OfEachFacts
<1> HIDE DEF n, t, f
<1>3. /\ Of(kind, t) = g[n + 1] /\ g[0] = <<>>
      /\ \A k \in 1..(n + 1) : g[k] = IF t[k][1] = kind THEN Append(g[k - 1], t[k][2]) ELSE g[k - 1]
  BY <1>1, OfEachFacts
<1> HIDE DEF g
<1>4. 0 \in Same
  BY <1>1, <1>2, <1>3
<1>5. \A k \in 1..n : k - 1 \in Same => k \in Same
  BY <1>1, <1>2, <1>3
<1>6. \A k \in 0..n : k \in Same
  <2> HIDE DEF Same
  <2>1. QED
    BY <1>1, <1>4, <1>5, Climb
<1>7. f[n] = g[n] /\ n + 1 \in 1..(n + 1) /\ (n + 1) - 1 = n
  BY <1>1, <1>6
<1>8. g[n + 1] = IF t[n + 1][1] = kind THEN Append(g[n], t[n + 1][2]) ELSE g[n]
  BY <1>3, <1>7
<1>9. QED
  BY <1>1, <1>2, <1>3, <1>7, <1>8 DEF t

LEMMA OfNothing ==
  ASSUME NEW kind, NEW sent \in Seq(Chunks), \A k \in 1..Len(sent) : sent[k][1] # kind
  PROVE  Of(kind, sent) = <<>>
<1> DEFINE n == Len(sent)
           f == OfEach(kind, sent)
           Silent == {k \in 0..n : f[k] = <<>>}
<1>1. n \in Nat
  OBVIOUS
<1>2. /\ Of(kind, sent) = f[n] /\ f[0] = <<>>
      /\ \A k \in 1..n : f[k] = IF sent[k][1] = kind THEN Append(f[k - 1], sent[k][2]) ELSE f[k - 1]
  BY OfEachFacts
<1> HIDE DEF f
<1>3. 0 \in Silent /\ \A k \in 1..n : k - 1 \in Silent => k \in Silent
  BY <1>1, <1>2
<1>4. \A k \in 0..n : k \in Silent
  <2> HIDE DEF Silent, n
  <2>1. QED
    BY <1>1, <1>3, Climb
<1>5. QED
  BY <1>1, <1>2, <1>4

\* Between two lines, and before the reason: the block read, the text and the calls
\* told so far.
Holds(d, tool, content, calls) ==
  /\ d \in Decoder /\ d.buffer = <<>> /\ d.open /\ d.tool = tool
  /\ Of("text", d.sent) = content /\ Of("call", d.sent) = calls
  /\ \A k \in 1..Len(d.sent) : d.sent[k][1] # "reason"

LEMMA HoldsSend ==
  ASSUME NEW d, NEW tool, NEW content, NEW calls, Holds(d, tool, content, calls)
  PROVE  /\ \A x \in Marks : Holds(Send(d, <<"text", x>>), tool, Append(content, x), calls)
         /\ \A id \in Marks, json \in Seq(Marks) :
              Holds(Send(d, <<"call", <<id, Arguments(json)>>>>), tool, content,
                    Append(calls, <<id, Arguments(json)>>))
<1>1. /\ d \in Decoder /\ d.buffer = <<>> /\ d.open /\ d.tool = tool
      /\ Of("text", d.sent) = content /\ Of("call", d.sent) = calls
      /\ d.sent \in Seq(Chunks)
      /\ \A k \in 1..Len(d.sent) : d.sent[k][1] # "reason"
  BY DecoderFields DEF Holds
<1>2. ASSUME NEW chunk \in Chunks, chunk[1] # "reason"
      PROVE  LET e == Send(d, chunk) IN
             /\ e \in Decoder /\ e.buffer = <<>> /\ e.open /\ e.tool = tool
             /\ Of("text", e.sent) = IF chunk[1] = "text" THEN Append(content, chunk[2]) ELSE content
             /\ Of("call", e.sent) = IF chunk[1] = "call" THEN Append(calls, chunk[2]) ELSE calls
             /\ \A k \in 1..Len(e.sent) : e.sent[k][1] # "reason"
  <2> DEFINE e == Send(d, chunk)
             s == d.sent
             t == Append(s, chunk)
  <2>1. e \in Decoder /\ e.buffer = <<>> /\ e.open /\ e.tool = tool /\ e.sent = t
    BY <1>1, SendType, SendFields
  <2>2. /\ Of("text", t) = IF chunk[1] = "text" THEN Append(content, chunk[2]) ELSE content
        /\ Of("call", t) = IF chunk[1] = "call" THEN Append(calls, chunk[2]) ELSE calls
    <3>1. s \in Seq(Chunks) /\ Of("text", s) = content /\ Of("call", s) = calls
      BY <1>1
    <3> HIDE DEF s
    <3>2. Of("text", t) = IF chunk[1] = "text" THEN Append(Of("text", s), chunk[2]) ELSE Of("text", s)
      BY <3>1, OfAppend
    <3>3. Of("call", t) = IF chunk[1] = "call" THEN Append(Of("call", s), chunk[2]) ELSE Of("call", s)
      BY <3>1, OfAppend
    <3> HIDE DEF t
    <3>4. QED
      BY <3>1, <3>2, <3>3
  <2>3. \A k \in 1..Len(t) : t[k][1] # "reason"
    <3> SUFFICES ASSUME NEW k \in 1..Len(t) PROVE t[k][1] # "reason"
      OBVIOUS
    <3>1. Len(t) = Len(s) + 1 /\ Len(s) \in Nat
      BY <1>1
    <3>2. CASE k = Len(s) + 1
      <4>1. t[k] = chunk
        BY <1>1, <3>2
      <4>2. QED
        BY <1>2, <4>1
    <3>3. CASE k # Len(s) + 1
      <4>1. k \in 1..Len(s)
        BY <3>1, <3>3
      <4>2. t[k] = s[k]
        BY <1>1, <4>1
      <4>3. QED
        BY <1>1, <4>1, <4>2
    <3>4. QED
      BY <3>2, <3>3
  <2> HIDE DEF e, t
  <2>4. QED
    BY <2>1, <2>2, <2>3 DEF e
<1>3. ASSUME NEW x \in Marks PROVE Holds(Send(d, <<"text", x>>), tool, Append(content, x), calls)
  <2> DEFINE chunk == <<"text", x>>
  <2>1. chunk \in Chunks
    BY ToldFacts, Zenon
  <2>2. chunk[1] = "text" /\ chunk[2] = x
    OBVIOUS
  <2> HIDE DEF chunk
  <2>3. QED
    BY <1>2, <2>1, <2>2 DEF Holds, chunk
<1>4. ASSUME NEW id \in Marks, NEW json \in Seq(Marks)
      PROVE  Holds(Send(d, <<"call", <<id, Arguments(json)>>>>), tool, content,
                   Append(calls, <<id, Arguments(json)>>))
  <2> DEFINE call == <<id, Arguments(json)>>
             chunk == <<"call", call>>
  <2>1. chunk \in Chunks
    BY ToldFacts, Zenon
  <2>2. chunk[1] = "call" /\ chunk[2] = call
    OBVIOUS
  <2> HIDE DEF chunk, call
  <2>3. Holds(Send(d, chunk), tool, content, Append(calls, call))
    BY <1>2, <2>1, <2>2 DEF Holds
  <2>4. QED
    BY <2>3 DEF chunk, call
<1>5. QED
  BY <1>3, <1>4

LEMMA HoldsTool ==
  ASSUME NEW d, NEW tool, NEW content, NEW calls, Holds(d, tool, content, calls),
         NEW other \in Seq(Tools)
  PROVE  Holds([d EXCEPT !.tool = other], other, content, calls)
<1> DEFINE e == [d EXCEPT !.tool = other]
<1>1. d \in Decoder
  BY DEF Holds
<1>2. e \in Decoder
  BY <1>1, DecoderFields
<1>3. e.buffer = d.buffer /\ e.open = d.open /\ e.sent = d.sent /\ e.tool = other
  BY <1>1 DEF Decoder
<1> HIDE DEF e
<1>4. QED
  BY <1>2, <1>3 DEF Holds, e

\* The lines of a text.
LEMMA TextLines ==
  ASSUME NEW d, NEW tool, NEW content, NEW calls, Holds(d, tool, content, calls), NEW x \in Marks
  PROVE  /\ OnChunk(d, LineOf("ping", x)) = d /\ OnChunk(d, LineOf("text_start", x)) = d
         /\ tool = <<>> => OnChunk(d, LineOf("block_stop", x)) = d
         /\ Holds(OnChunk(d, LineOf("text_delta", x)), tool, Append(content, x), calls)
<1>1. d \in Decoder /\ d.buffer = <<>> /\ d.open /\ d.tool = tool
  BY DEF Holds
<1>2. \A type \in LineType : /\ Line(type, x) \in Lines /\ Line(type, x).type = type /\ Line(type, x).of = x
                             /\ OnChunk(d, LineOf(type, x)) = OnLine(d, Line(type, x))
  BY <1>1, OneLine DEF Line
<1>3. ASSUME NEW type \in {"ping", "text_start"} PROVE OnChunk(d, LineOf(type, x)) = d
  <2> DEFINE line == Line(type, x)
  <2>1. type \in LineType /\ type \in {"ping", "text_start", "noise"}
    BY DEF LineType
  <2>2. line \in Lines /\ line.type = type /\ OnChunk(d, LineOf(type, x)) = OnLine(d, line)
    BY <1>2, <2>1
  <2> HIDE DEF line
  <2>3. line.type \in {"ping", "text_start", "noise"}
    BY <2>1, <2>2
  <2>4. OnLine(d, line) = d
    BY <1>1, <2>2, <2>3, OnLineFacts
  <2>5. QED
    BY <2>2, <2>4
<1>4. ASSUME tool = <<>> PROVE OnChunk(d, LineOf("block_stop", x)) = d
  <2> DEFINE line == Line("block_stop", x)
  <2>1. line \in Lines /\ line.type = "block_stop" /\ OnChunk(d, LineOf("block_stop", x)) = OnLine(d, line)
    BY <1>2 DEF LineType
  <2> HIDE DEF line
  <2>2. OnLine(d, line) = d
    BY <1>1, <1>4, <2>1, OnLineFacts
  <2>3. QED
    BY <2>1, <2>2
<1>5. Holds(OnChunk(d, LineOf("text_delta", x)), tool, Append(content, x), calls)
  <2> DEFINE line == Line("text_delta", x)
  <2>1. /\ line \in Lines /\ line.type = "text_delta" /\ line.of = x
        /\ OnChunk(d, LineOf("text_delta", x)) = OnLine(d, line)
    BY <1>2 DEF LineType
  <2> HIDE DEF line
  <2>2. OnLine(d, line) = Send(d, <<"text", x>>)
    BY <1>1, <2>1, OnLineFacts
  <2>3. QED
    BY <2>1, <2>2, HoldsSend
<1>6. QED
  BY <1>3, <1>4, <1>5

\* The lines of a call.
LEMMA CallLines ==
  ASSUME NEW d, NEW tool, NEW content, NEW calls, Holds(d, tool, content, calls), NEW x \in Marks
  PROVE  /\ Holds(OnChunk(d, LineOf("tool_start", x)), <<[id |-> x, json |-> <<>>]>>, content, calls)
         /\ \A id \in Marks, json \in Seq(Marks) :
              tool = <<[id |-> id, json |-> json]>> =>
              /\ Holds(OnChunk(d, LineOf("json_delta", x)),
                       <<[id |-> id, json |-> Append(json, x)]>>, content, calls)
              /\ Holds(OnChunk(d, LineOf("block_stop", x)), <<>>, content,
                       Append(calls, <<id, Arguments(json)>>))
<1>1. d \in Decoder /\ d.buffer = <<>> /\ d.open /\ d.tool = tool
  BY DEF Holds
<1>2. \A type \in LineType : /\ Line(type, x) \in Lines /\ Line(type, x).type = type /\ Line(type, x).of = x
                             /\ OnChunk(d, LineOf(type, x)) = OnLine(d, Line(type, x))
  BY <1>1, OneLine DEF Line
<1>3. \A id \in Marks, json \in Seq(Marks) : <<[id |-> id, json |-> json]>> \in Seq(Tools)
  <2> SUFFICES ASSUME NEW id \in Marks, NEW json \in Seq(Marks)
               PROVE  <<[id |-> id, json |-> json]>> \in Seq(Tools)
    OBVIOUS
  <2>1. [id |-> id, json |-> json] \in Tools
    BY DEF Tools
  <2>2. QED
    BY <2>1, Short, Zenon
<1>4. Holds(OnChunk(d, LineOf("tool_start", x)), <<[id |-> x, json |-> <<>>]>>, content, calls)
  <2> DEFINE line == Line("tool_start", x)
             other == <<[id |-> x, json |-> <<>>]>>
  <2>1. /\ line \in Lines /\ line.type = "tool_start" /\ line.of = x
        /\ OnChunk(d, LineOf("tool_start", x)) = OnLine(d, line)
    BY <1>2 DEF LineType
  <2>2. other \in Seq(Tools)
    <3>1. <<>> \in Seq(Marks)
      OBVIOUS
    <3>2. QED
      BY <1>3, <3>1, Zenon
  <2> HIDE DEF line
  <2>3. OnLine(d, line) = [d EXCEPT !.tool = other]
    <3>1. d \in Decoder /\ line \in Lines /\ line.type = "tool_start"
      BY <1>1, <2>1
    <3>2. OnLine(d, line) = [d EXCEPT !.tool = <<[id |-> line.of, json |-> <<>>]>>]
      BY <3>1, OnLineFacts, Zenon
    <3>3. <<[id |-> line.of, json |-> <<>>]>> = other
      BY <2>1
    <3>4. QED
      BY <3>2, <3>3, Zenon
  <2> HIDE DEF other
  <2>4. Holds([d EXCEPT !.tool = other], other, content, calls)
    BY <2>2, HoldsTool
  <2>5. QED
    BY <2>1, <2>3, <2>4 DEF other
<1>5. ASSUME NEW id \in Marks, NEW json \in Seq(Marks), tool = <<[id |-> id, json |-> json]>>
      PROVE  /\ Holds(OnChunk(d, LineOf("json_delta", x)),
                      <<[id |-> id, json |-> Append(json, x)]>>, content, calls)
             /\ Holds(OnChunk(d, LineOf("block_stop", x)), <<>>, content,
                      Append(calls, <<id, Arguments(json)>>))
  <2>1. d.tool # <<>> /\ d.tool[1].id = id /\ d.tool[1].json = json
    BY <1>1, <1>5
  <2>2. Holds(OnChunk(d, LineOf("json_delta", x)),
              <<[id |-> id, json |-> Append(json, x)]>>, content, calls)
    <3> DEFINE line == Line("json_delta", x)
               other == <<[id |-> id, json |-> Append(json, x)]>>
    <3>1. /\ line \in Lines /\ line.type = "json_delta" /\ line.of = x
          /\ OnChunk(d, LineOf("json_delta", x)) = OnLine(d, line)
      BY <1>2 DEF LineType
    <3>2. other \in Seq(Tools)
      <4>1. Append(json, x) \in Seq(Marks)
        OBVIOUS
      <4>2. QED
        BY <1>3, <4>1, Zenon
    <3> HIDE DEF line
    <3>3. OnLine(d, line) = [d EXCEPT !.tool = other]
      BY <1>1, <2>1, <3>1, OnLineFacts
    <3> HIDE DEF other
    <3>4. Holds([d EXCEPT !.tool = other], other, content, calls)
      BY <3>2, HoldsTool
    <3>5. QED
      BY <3>1, <3>3, <3>4 DEF other
  <2>3. Holds(OnChunk(d, LineOf("block_stop", x)), <<>>, content, Append(calls, <<id, Arguments(json)>>))
    <3> DEFINE line == Line("block_stop", x)
               call == <<id, Arguments(json)>>
               e == Send(d, <<"call", call>>)
    <3>1. /\ line \in Lines /\ line.type = "block_stop"
          /\ OnChunk(d, LineOf("block_stop", x)) = OnLine(d, line)
      BY <1>2 DEF LineType
    <3>2. <<>> \in Seq(Tools)
      OBVIOUS
    <3>3. Holds(e, tool, content, Append(calls, call))
      BY HoldsSend
    <3> HIDE DEF line
    <3>4. OnLine(d, line) = [e EXCEPT !.tool = <<>>]
      BY <1>1, <2>1, <3>1, OnLineFacts
    <3> HIDE DEF call, e
    <3>5. Holds([e EXCEPT !.tool = <<>>], <<>>, content, Append(calls, call))
      BY <3>2, <3>3, HoldsTool
    <3>6. QED
      BY <3>1, <3>4, <3>5 DEF call
  <2>4. QED
    BY <2>2, <2>3
<1>6. QED
  BY <1>4, <1>5

LEMMA ListeningHolds == Holds(Listening, <<>>, <<>>, <<>>)
<1> DEFINE d == Listening
<1>1. <<>> \in Seq(Byte) /\ <<>> \in Seq(Tools) /\ <<>> \in Seq(Chunks)
  OBVIOUS
<1>2. Closed \in Decoder
  BY <1>1 DEF Decoder, Closed
<1>3. d \in Decoder
  BY <1>2, DecoderFields DEF Listening
<1>4. d.buffer = <<>> /\ d.tool = <<>> /\ d.sent = <<>> /\ d.open
  BY DEF Listening, Closed
<1> HIDE DEF d
<1>5. \A k \in 1..Len(d.sent) : d.sent[k][1] # "reason"
  BY <1>4
<1>6. Of("text", d.sent) = <<>> /\ Of("call", d.sent) = <<>>
  <2>1. \A k \in 1..Len(<<>>) : <<>>[k][1] # "text" /\ <<>>[k][1] # "call"
    OBVIOUS
  <2>2. Of("text", <<>>) = <<>> /\ Of("call", <<>>) = <<>>
    BY <1>1, <2>1, OfNothing
  <2>3. QED
    BY <1>4, <2>2
<1>7. QED
  BY <1>3, <1>4, <1>5, <1>6 DEF Holds, d

LEMMA LineIsBytes ==
  ASSUME NEW type \in LineType, NEW of \in Marks
  PROVE  LineOf(type, of) \in Seq(Byte)
BY ListeningHolds, OneLine DEF Holds

DeltaType(answer, k) == IF answer[k].type = "text" THEN "text_delta" ELSE "json_delta"

LEMMA DeltaLinesFacts ==
  ASSUME NEW answer \in Answers, NEW k \in 1..Len(answer)
  PROVE  /\ DeltaLines(answer, k)[0] = <<>>
         /\ \A j \in 1..answer[k].pieces :
              DeltaLines(answer, k)[j] =
                DeltaLines(answer, k)[j - 1] \o LineOf(DeltaType(answer, k), <<k, j>>)
         /\ \A j \in 0..answer[k].pieces : DeltaLines(answer, k)[j] \in Seq(Byte)
<1> DEFINE n == answer[k].pieces
           A == Seq(Byte)
           line(j) == LineOf(DeltaType(answer, k), <<k, j>>)
           step == [j \in 1..n |-> [a \in A |-> a \o line(j)]]
           Is(f) == f = [j \in 0..n |-> IF j = 0 THEN <<>>
                           ELSE f[j - 1] \o LineOf(IF answer[k].type = "text" THEN "text_delta" ELSE "json_delta", <<k, j>>)]
<1>1. n \in Nat /\ k \in Nat
  BY AnswerFacts
<1>2. \A j \in 1..n : line(j) \in A
  <2>1. DeltaType(answer, k) \in LineType
    BY DEF DeltaType, LineType
  <2>2. \A j \in 1..n : <<k, j>> \in Marks
    BY <1>1, MarksFacts
  <2> HIDE DEF n
  <2>3. QED
    BY <2>1, <2>2, LineIsBytes
<1>3. step \in [1..n -> [A -> A]]
  <2>1. \A j \in 1..n, a \in A : a \o line(j) \in A
    BY <1>2
  <2> HIDE DEF n, line, A
  <2>2. QED
    BY <2>1
<1>4. <<>> \in A
  OBVIOUS
<1> HIDE DEF n, A
<1>5. PICK f : Follows(f, A, <<>>, n, step)
  <2> HIDE DEF step
  <2>1. QED
    BY <1>1, <1>3, <1>4, RecursionExists
<1>6. f \in [0..n -> A] /\ f[0] = <<>> /\ \A j \in 1..n : f[j] = step[j][f[j - 1]]
  <2> HIDE DEF step
  <2>1. QED
    BY <1>5 DEF Follows
<1>7. \A j \in 1..n : f[j] = f[j - 1] \o line(j)
  <2> SUFFICES ASSUME NEW j \in 1..n PROVE f[j] = f[j - 1] \o line(j)
    OBVIOUS
  <2>1. j - 1 \in 0..n
    BY <1>1
  <2> HIDE DEF line
  <2>2. f[j - 1] \in A
    BY <1>6, <2>1
  <2>3. QED
    BY <1>6, <2>2
<1>8. Is(f)
  <2>1. \A j \in 0..n : f[j] = IF j = 0 THEN <<>> ELSE f[j - 1] \o line(j)
    <3>1. \A j \in 0..n : j = 0 \/ j \in 1..n
      BY <1>1
    <3> HIDE DEF step, line
    <3>2. QED
      BY <1>6, <1>7, <3>1
  <2>2. f = [j \in 0..n |-> f[j]]
    BY <1>6
  <2>3. QED
    BY <2>1, <2>2, Zenon DEF DeltaType
<1> DEFINE g == DeltaLines(answer, k)
<1>9. Is(g)
  BY <1>8, Zenon DEF DeltaLines, n
<1> HIDE DEF g
<1>10. \A j \in 0..n : g[j] = IF j = 0 THEN <<>> ELSE g[j - 1] \o line(j)
  BY <1>9 DEF DeltaType
<1> HIDE DEF line
<1>11. g[0] = <<>> /\ \A j \in 1..n : g[j] = g[j - 1] \o line(j)
  <2>1. 0 \in 0..n /\ \A j \in 1..n : j \in 0..n /\ j # 0
    BY <1>1
  <2>2. QED
    BY <1>10, <2>1
<1> DEFINE Good == {j \in 0..n : g[j] \in A}
<1>12. 0 \in Good
  BY <1>1, <1>4, <1>11
<1>13. \A j \in 1..n : j - 1 \in Good => j \in Good
  <2> SUFFICES ASSUME NEW j \in 1..n, g[j - 1] \in A PROVE g[j] \in A
    BY <1>1
  <2>1. \A a \in A, b \in A : a \o b \in A
    BY DEF A
  <2>2. line(j) \in A /\ g[j] = g[j - 1] \o line(j)
    BY <1>2, <1>11
  <2>3. QED
    BY <2>1, <2>2
<1>14. \A j \in 0..n : j \in Good
  <2> HIDE DEF Good
  <2>1. QED
    BY <1>1, <1>12, <1>13, Climb
<1>15. QED
  BY <1>11, <1>14 DEF g, n, A, line

\* One piece more.
LEMMA ConcatAppend ==
  ASSUME NEW s \in Seq(Marks), NEW t \in Seq(Marks), NEW x \in Marks
  PROVE  Append(s \o t, x) = s \o Append(t, x)
<1>1. <<x>> \in Seq(Marks) /\ s \o t \in Seq(Marks)
  OBVIOUS
<1>2. Append(s \o t, x) = (s \o t) \o <<x>> /\ Append(t, x) = t \o <<x>>
  BY <1>1, AppendIsConcat
<1>3. (s \o t) \o <<x>> = s \o (t \o <<x>>)
  BY <1>1, ConcatAssociative
<1>4. QED
  BY <1>2, <1>3

\* The deltas of a text.
LEMMA TextDeltas ==
  ASSUME NEW answer \in Answers, NEW k \in 1..Len(answer), answer[k].type = "text",
         NEW d, NEW tool, NEW content \in Seq(Marks), NEW calls, Holds(d, tool, content, calls)
  PROVE  Holds(OnChunk(d, DeltaLines(answer, k)[answer[k].pieces]), tool,
               content \o Pieces(answer, k), calls)
<1> DEFINE n == answer[k].pieces
           g == DeltaLines(answer, k)
           Good == {j \in 0..n : Holds(OnChunk(d, g[j]), tool, content \o Upto(k, j), calls)}
<1>1. n \in Nat /\ k \in Nat /\ Pieces(answer, k) = Upto(k, n)
  BY AnswerFacts
<1>2. /\ g[0] = <<>> /\ \A j \in 0..n : g[j] \in Seq(Byte)
      /\ \A j \in 1..n : g[j] = g[j - 1] \o LineOf("text_delta", <<k, j>>)
  BY DeltaLinesFacts DEF DeltaType
<1>3. d \in Decoder
  BY DEF Holds
<1> HIDE DEF n, g
<1>4. 0 \in Good
  <2>1. OnChunk(d, <<>>) = d
    BY <1>3, OnChunkEmpty
  <2>2. content \o Upto(k, 0) = content
    <3>1. Upto(k, 0) = <<>>
      BY <1>1, UptoFacts
    <3>2. content \o <<>> = content
      BY ConcatEmptySeq
    <3>3. QED
      BY <3>1, <3>2
  <2>3. OnChunk(d, g[0]) = d
    BY <1>2, <2>1
  <2>4. Holds(OnChunk(d, g[0]), tool, content \o Upto(k, 0), calls)
    BY <2>2, <2>3
  <2>5. QED
    BY <1>1, <2>4
<1>5. ASSUME NEW j \in 1..n, j - 1 \in Good PROVE j \in Good
  <2> DEFINE line == LineOf("text_delta", <<k, j>>)
             e == OnChunk(d, g[j - 1])
             c == content \o Upto(k, j - 1)
  <2>1. j \in Nat /\ j >= 1 /\ j \in 0..n /\ j - 1 \in 0..n /\ j - 1 \in Nat
    BY <1>1
  <2>2. Holds(e, tool, c, calls)
    BY <1>5
  <2>3. <<k, j>> \in Marks /\ "text_delta" \in LineType
    BY <1>1, <2>1, MarksFacts DEF LineType
  <2>4. line \in Seq(Byte) /\ g[j - 1] \in Seq(Byte)
    BY <1>2, <2>1, <2>3, LineIsBytes
  <2>5. OnChunk(d, g[j]) = OnChunk(e, line)
    <3> HIDE DEF line, e
    <3>1. OnChunk(d, g[j - 1] \o line) = OnChunk(OnChunk(d, g[j - 1]), line)
      BY <1>3, <2>4, CutAnywhere
    <3>2. g[j] = g[j - 1] \o line
      BY <1>2 DEF line
    <3>3. QED
      BY <3>1, <3>2 DEF e
  <2>6. Holds(OnChunk(e, line), tool, Append(c, <<k, j>>), calls)
    <3> HIDE DEF e, c
    <3>1. QED
      BY <2>2, <2>3, TextLines
  <2>7. Append(c, <<k, j>>) = content \o Upto(k, j)
    <3>1. Upto(k, j - 1) \in Seq(Marks) /\ Upto(k, j) = Append(Upto(k, j - 1), <<k, j>>)
      BY <1>1, <2>1, UptoFacts
    <3> DEFINE u == Upto(k, j - 1)
               x == <<k, j>>
    <3>2. u \in Seq(Marks) /\ x \in Marks
      BY <2>3, <3>1
    <3> HIDE DEF u, x
    <3>3. Append(content \o u, x) = content \o Append(u, x)
      BY <3>2, ConcatAppend
    <3>4. QED
      BY <3>1, <3>3 DEF u, x
  <2> HIDE DEF e, c, line
  <2>8. QED
    BY <2>1, <2>5, <2>6, <2>7
<1>6. \A j \in 0..n : j \in Good
  <2> HIDE DEF Good
  <2>1. QED
    BY <1>1, <1>4, <1>5, Climb
<1>7. Holds(OnChunk(d, g[n]), tool, content \o Upto(k, n), calls)
  BY <1>1, <1>6
<1>8. QED
  BY <1>1, <1>7 DEF n, g

\* The deltas of a call's arguments.
LEMMA JsonDeltas ==
  ASSUME NEW answer \in Answers, NEW k \in 1..Len(answer), answer[k].type = "tool_use",
         NEW d, NEW content, NEW calls, NEW id \in Marks,
         Holds(d, <<[id |-> id, json |-> <<>>]>>, content, calls)
  PROVE  Holds(OnChunk(d, DeltaLines(answer, k)[answer[k].pieces]),
               <<[id |-> id, json |-> Pieces(answer, k)]>>, content, calls)
<1> DEFINE n == answer[k].pieces
           g == DeltaLines(answer, k)
           tool(j) == <<[id |-> id, json |-> Upto(k, j)]>>
           Good == {j \in 0..n : Holds(OnChunk(d, g[j]), tool(j), content, calls)}
<1>1. n \in Nat /\ k \in Nat /\ Pieces(answer, k) = Upto(k, n)
  BY AnswerFacts
<1>2. /\ g[0] = <<>> /\ \A j \in 0..n : g[j] \in Seq(Byte)
      /\ \A j \in 1..n : g[j] = g[j - 1] \o LineOf("json_delta", <<k, j>>)
  BY DeltaLinesFacts DEF DeltaType
<1>3. d \in Decoder
  BY DEF Holds
<1> HIDE DEF n, g
<1>4. 0 \in Good
  <2>1. OnChunk(d, <<>>) = d
    BY <1>3, OnChunkEmpty
  <2>2. Upto(k, 0) = <<>>
    BY <1>1, UptoFacts
  <2>3. OnChunk(d, g[0]) = d
    BY <1>2, <2>1
  <2>4. Holds(OnChunk(d, g[0]), tool(0), content, calls)
    BY <2>2, <2>3
  <2>5. QED
    BY <1>1, <2>4
<1>5. ASSUME NEW j \in 1..n, j - 1 \in Good PROVE j \in Good
  <2> DEFINE line == LineOf("json_delta", <<k, j>>)
             e == OnChunk(d, g[j - 1])
  <2>1. j \in Nat /\ j >= 1 /\ j \in 0..n /\ j - 1 \in 0..n /\ j - 1 \in Nat
    BY <1>1
  <2>2. Holds(e, tool(j - 1), content, calls)
    BY <1>5
  <2>3. <<k, j>> \in Marks /\ "json_delta" \in LineType
    BY <1>1, <2>1, MarksFacts DEF LineType
  <2>4. line \in Seq(Byte) /\ g[j - 1] \in Seq(Byte)
    BY <1>2, <2>1, <2>3, LineIsBytes
  <2>5. OnChunk(d, g[j]) = OnChunk(e, line)
    <3> HIDE DEF line, e
    <3>1. OnChunk(d, g[j - 1] \o line) = OnChunk(OnChunk(d, g[j - 1]), line)
      BY <1>3, <2>4, CutAnywhere
    <3>2. g[j] = g[j - 1] \o line
      BY <1>2 DEF line
    <3>3. QED
      BY <3>1, <3>2 DEF e
  <2>6. Upto(k, j - 1) \in Seq(Marks) /\ Upto(k, j) = Append(Upto(k, j - 1), <<k, j>>)
    BY <1>1, <2>1, UptoFacts
  <2>7. Holds(OnChunk(e, line), <<[id |-> id, json |-> Append(Upto(k, j - 1), <<k, j>>)]>>, content, calls)
    <3> HIDE DEF e
    <3>1. QED
      BY <2>2, <2>3, <2>6, CallLines
  <2> HIDE DEF e, line
  <2>8. Holds(OnChunk(d, g[j]), tool(j), content, calls)
    BY <2>5, <2>6, <2>7
  <2>9. QED
    BY <2>1, <2>8
<1>6. \A j \in 0..n : j \in Good
  <2> HIDE DEF Good
  <2>1. QED
    BY <1>1, <1>4, <1>5, Climb
<1>7. Holds(OnChunk(d, g[n]), tool(n), content, calls)
  BY <1>1, <1>6
<1>8. QED
  BY <1>1, <1>7 DEF n, g

\* Three parts read one after another.
LEMMA CutThrice ==
  ASSUME NEW d \in Decoder, NEW r \in Seq(Byte), NEW s \in Seq(Byte), NEW t \in Seq(Byte),
         NEW u \in Seq(Byte)
  PROVE  /\ r \o s \o t \o u \in Seq(Byte)
         /\ OnChunk(d, r \o s \o t \o u) =
              OnChunk(OnChunk(OnChunk(OnChunk(d, r), s), t), u)
<1>1. r \o s \in Seq(Byte)
  BY ConcatProperties
<1>2. (r \o s) \o t \in Seq(Byte)
  <2> DEFINE v == r \o s
  <2> HIDE DEF v
  <2>1. v \in Seq(Byte)
    BY <1>1 DEF v
  <2>2. v \o t \in Seq(Byte)
    BY <2>1, ConcatProperties
  <2>3. QED
    BY <2>2 DEF v
<1>3. ((r \o s) \o t) \o u \in Seq(Byte)
  <2> DEFINE v == (r \o s) \o t
  <2> HIDE DEF v
  <2>1. v \in Seq(Byte)
    BY <1>2 DEF v
  <2>2. v \o u \in Seq(Byte)
    BY <2>1, ConcatProperties
  <2>3. QED
    BY <2>2 DEF v
<1>4. OnChunk(d, r \o s) = OnChunk(OnChunk(d, r), s)
  BY CutAnywhere
<1>5. OnChunk(d, (r \o s) \o t) = OnChunk(OnChunk(d, r \o s), t)
  BY <1>1, CutAnywhere
<1>6. OnChunk(d, ((r \o s) \o t) \o u) = OnChunk(OnChunk(d, (r \o s) \o t), u)
  BY <1>2, CutAnywhere
<1>7. QED
  BY <1>3, <1>4, <1>5, <1>6

\* A block, and what it tells.
LEMMA OneBlock ==
  ASSUME NEW answer \in Answers, NEW k \in 1..Len(answer),
         NEW d, NEW content \in Seq(Marks), NEW calls, Holds(d, <<>>, content, calls)
  PROVE  /\ BlockLines(answer, k) \in Seq(Byte)
         /\ answer[k].type = "text" =>
              Holds(OnChunk(d, BlockLines(answer, k)), <<>>, content \o Pieces(answer, k), calls)
         /\ answer[k].type = "tool_use" =>
              Holds(OnChunk(d, BlockLines(answer, k)), <<>>, content,
                    Append(calls, <<k, Arguments(Pieces(answer, k))>>))
<1> DEFINE start == IF answer[k].type = "text" THEN "text_start" ELSE "tool_start"
           r == LineOf("ping", k)
           s == LineOf(start, k)
           t == DeltaLines(answer, k)[answer[k].pieces]
           u == LineOf("block_stop", k)
           e == OnChunk(d, s)
           g == OnChunk(e, t)
<1>1. /\ k \in Nat /\ k \in Marks /\ answer[k].pieces \in Nat
      /\ Pieces(answer, k) \in Seq(Marks) /\ d \in Decoder
  <2>1. k \in Nat /\ answer[k].pieces \in Nat /\ Pieces(answer, k) = Upto(k, answer[k].pieces)
    BY AnswerFacts
  <2>2. k \in Marks
    BY <2>1, MarksFacts
  <2>3. Upto(k, answer[k].pieces) \in Seq(Marks)
    BY <2>1, UptoFacts
  <2>4. QED
    BY <2>1, <2>2, <2>3 DEF Holds
<1>2. /\ r \in Seq(Byte) /\ s \in Seq(Byte) /\ t \in Seq(Byte) /\ u \in Seq(Byte)
  <2>1. "ping" \in LineType /\ start \in LineType /\ "block_stop" \in LineType
    BY DEF LineType
  <2>2. t \in Seq(Byte)
    BY <1>1, DeltaLinesFacts
  <2> HIDE DEF start
  <2>3. QED
    BY <1>1, <2>1, <2>2, LineIsBytes
<1>3. BlockLines(answer, k) = r \o s \o t \o u
  BY DEF BlockLines
<1>4. OnChunk(d, r) = d
  BY <1>1, TextLines
<1>5. BlockLines(answer, k) \in Seq(Byte) /\ OnChunk(d, BlockLines(answer, k)) = OnChunk(g, u)
  <2> HIDE DEF r, s, t, u
  <2>1. r \o s \o t \o u \in Seq(Byte)
        /\ OnChunk(d, r \o s \o t \o u) = OnChunk(OnChunk(OnChunk(OnChunk(d, r), s), t), u)
    BY <1>1, <1>2, CutThrice
  <2>2. QED
    BY <1>3, <1>4, <2>1
<1>6. ASSUME answer[k].type = "text"
      PROVE  Holds(OnChunk(g, u), <<>>, content \o Pieces(answer, k), calls)
  <2>1. e = d
    <3>1. s = LineOf("text_start", k)
      BY <1>6
    <3>2. QED
      BY <1>1, <3>1, TextLines
  <2> HIDE DEF e
  <2>2. Holds(g, <<>>, content \o Pieces(answer, k), calls)
    BY <1>6, <2>1, TextDeltas
  <2> HIDE DEF g
  <2>3. OnChunk(g, u) = g
    BY <1>1, <2>2, TextLines
  <2>4. QED
    BY <2>2, <2>3
<1>7. ASSUME answer[k].type = "tool_use"
      PROVE  Holds(OnChunk(g, u), <<>>, content, Append(calls, <<k, Arguments(Pieces(answer, k))>>))
  <2>1. Holds(e, <<[id |-> k, json |-> <<>>]>>, content, calls)
    <3>1. s = LineOf("tool_start", k)
      BY <1>7
    <3>2. QED
      BY <1>1, <3>1, CallLines
  <2> HIDE DEF e
  <2>2. Holds(g, <<[id |-> k, json |-> Pieces(answer, k)]>>, content, calls)
    BY <1>1, <1>7, <2>1, JsonDeltas
  <2> HIDE DEF g
  <2>3. QED
    BY <1>1, <2>2, CallLines
<1>8. QED
  <2> HIDE DEF g, u
  <2>1. QED
    BY <1>5, <1>6, <1>7

Conversion == [content : Seq(Marks), calls : Seq(Told)]

LEMMA JoinedType ==
  ASSUME NEW content \in Seq(Marks), NEW text \in Seq(Marks)
  PROVE  Joined(content, text) \in Seq(Marks)
<1>1. <<Break>> \in Seq(Marks)
  <2>1. Break \in Marks
    BY MarksFacts DEF Break
  <2>2. QED
    BY <2>1
<1>2. content \o <<Break>> \in Seq(Marks)
  BY <1>1, ConcatProperties
<1>3. content \o <<Break>> \o text \in Seq(Marks)
  BY <1>2, ConcatProperties
<1>4. QED
  BY <1>3 DEF Joined

LEMMA ConversionFields ==
  ASSUME NEW a \in Conversion, NEW s \in Seq(Marks), NEW call \in Told
  PROVE  /\ [a EXCEPT !.content = Joined(@, s)] \in Conversion
         /\ [a EXCEPT !.content = Joined(@, s)].content = Joined(a.content, s)
         /\ [a EXCEPT !.content = Joined(@, s)].calls = a.calls
         /\ [a EXCEPT !.calls = Append(@, call)] \in Conversion
         /\ [a EXCEPT !.calls = Append(@, call)].content = a.content
         /\ [a EXCEPT !.calls = Append(@, call)].calls = Append(a.calls, call)
<1>1. a.content \in Seq(Marks) /\ a.calls \in Seq(Told)
  BY DEF Conversion
<1>2. Joined(a.content, s) \in Seq(Marks) /\ Append(a.calls, call) \in Seq(Told)
  BY <1>1, JoinedType, AppendProperties
<1> DEFINE A == Seq(Marks)
           B == Seq(Told)
           c == Joined(a.content, s)
           l == Append(a.calls, call)
<1> HIDE DEF A, B, c, l
<1>3. c \in A /\ l \in B /\ a \in [content : A, calls : B]
  BY <1>2 DEF A, B, c, l, Conversion
<1>4. /\ [a EXCEPT !.content = c] \in [content : A, calls : B]
      /\ [a EXCEPT !.content = c].content = c /\ [a EXCEPT !.content = c].calls = a.calls
      /\ [a EXCEPT !.calls = l] \in [content : A, calls : B]
      /\ [a EXCEPT !.calls = l].content = a.content /\ [a EXCEPT !.calls = l].calls = l
  BY <1>3
<1>5. QED
  BY <1>4 DEF A, B, c, l, Conversion

\* What one block adds.
Adding(answer, k, a) ==
  IF answer[k].type = "text" THEN [a EXCEPT !.content = Joined(@, Pieces(answer, k))]
  ELSE [a EXCEPT !.calls = Append(@, <<k, Arguments(Pieces(answer, k))>>)]

LEMMA AddingFacts ==
  ASSUME NEW answer \in Answers, NEW k \in 1..Len(answer), NEW a \in Conversion
  PROVE  /\ Adding(answer, k, a) \in Conversion
         /\ answer[k].type = "text" =>
              /\ Adding(answer, k, a).content = Joined(a.content, Pieces(answer, k))
              /\ Adding(answer, k, a).calls = a.calls
         /\ answer[k].type = "tool_use" =>
              /\ Adding(answer, k, a).content = a.content
              /\ Adding(answer, k, a).calls = Append(a.calls, <<k, Arguments(Pieces(answer, k))>>)
<1> DEFINE s == Pieces(answer, k)
           call == <<k, Arguments(s)>>
<1>1. s \in Seq(Marks) /\ call \in Told
  <2>1. k \in Nat /\ answer[k].pieces \in Nat /\ s = Upto(k, answer[k].pieces)
    BY AnswerFacts
  <2>2. k \in Marks
    BY <2>1, MarksFacts
  <2>3. s \in Seq(Marks)
    BY <2>1, UptoFacts
  <2> HIDE DEF s
  <2>4. call \in {<<id, Arguments(json)>> : id \in Marks, json \in Seq(Marks)}
    BY <2>2, <2>3
  <2>5. QED
    BY <2>3, <2>4 DEF Told
<1>2. answer[k].type \in {"text", "tool_use"}
  BY AnswerFacts
<1>3. /\ answer[k].type = "text" => Adding(answer, k, a) = [a EXCEPT !.content = Joined(@, s)]
      /\ answer[k].type = "tool_use" => Adding(answer, k, a) = [a EXCEPT !.calls = Append(@, call)]
  BY DEF Adding
<1> HIDE DEF s, call
<1>4. /\ [a EXCEPT !.content = Joined(@, s)] \in Conversion
      /\ [a EXCEPT !.content = Joined(@, s)].content = Joined(a.content, s)
      /\ [a EXCEPT !.content = Joined(@, s)].calls = a.calls
      /\ [a EXCEPT !.calls = Append(@, call)] \in Conversion
      /\ [a EXCEPT !.calls = Append(@, call)].content = a.content
      /\ [a EXCEPT !.calls = Append(@, call)].calls = Append(a.calls, call)
  BY <1>1, ConversionFields, Zenon
<1>5. CASE answer[k].type = "text"
  <2> DEFINE b == Adding(answer, k, a)
  <2>1. b = [a EXCEPT !.content = Joined(@, s)]
    BY <1>3, <1>5
  <2> HIDE DEF b
  <2>2. b \in Conversion /\ b.content = Joined(a.content, s) /\ b.calls = a.calls
    BY <1>4, <2>1, Zenon
  <2>3. QED
    BY <1>5, <2>2 DEF b, s
<1>6. CASE answer[k].type = "tool_use"
  <2> DEFINE b == Adding(answer, k, a)
  <2>1. b = [a EXCEPT !.calls = Append(@, call)]
    BY <1>3, <1>6
  <2> HIDE DEF b
  <2>2. b \in Conversion /\ b.content = a.content /\ b.calls = Append(a.calls, call)
    BY <1>4, <2>1, Zenon
  <2>3. QED
    BY <1>6, <2>2 DEF b, s, call
<1>7. QED
  BY <1>2, <1>5, <1>6

LEMMA ConvertedFacts ==
  ASSUME NEW answer \in Answers
  PROVE  /\ Converted(answer)[0] = [content |-> <<>>, calls |-> <<>>]
         /\ \A k \in 0..Len(answer) : Converted(answer)[k] \in Conversion
         /\ \A k \in 1..Len(answer) :
              Converted(answer)[k] = Adding(answer, k, Converted(answer)[k - 1])
<1> DEFINE n == Len(answer)
           A == Conversion
           base == [content |-> <<>>, calls |-> <<>>]
           step == [k \in 1..n |-> [a \in A |-> Adding(answer, k, a)]]
           Is(f) == f = [k \in 0..n |->
                          IF k = 0 THEN [content |-> <<>>, calls |-> <<>>]
                          ELSE IF answer[k].type = "text"
                               THEN [f[k - 1] EXCEPT !.content = Joined(@, Pieces(answer, k))]
                               ELSE [f[k - 1] EXCEPT !.calls = Append(@, <<k, Arguments(Pieces(answer, k))>>)]]
<1>1. n \in Nat
  BY AnswerFacts
<1>2. step \in [1..n -> [A -> A]]
  BY AddingFacts
<1>3. base \in A
  <2>1. <<>> \in Seq(Marks) /\ <<>> \in Seq(Told)
    OBVIOUS
  <2>2. QED
    BY <2>1 DEF Conversion
<1> HIDE DEF n, A, base
<1>4. PICK f : Follows(f, A, base, n, step)
  <2> HIDE DEF step
  <2>1. QED
    BY <1>1, <1>2, <1>3, RecursionExists
<1>5. f \in [0..n -> A] /\ f[0] = base /\ \A k \in 1..n : f[k] = step[k][f[k - 1]]
  <2> HIDE DEF step
  <2>1. QED
    BY <1>4 DEF Follows
<1>6. \A k \in 1..n : f[k] = Adding(answer, k, f[k - 1])
  <2> SUFFICES ASSUME NEW k \in 1..n PROVE f[k] = Adding(answer, k, f[k - 1])
    OBVIOUS
  <2>1. k - 1 \in 0..n
    BY <1>1
  <2>2. f[k - 1] \in A
    BY <1>5, <2>1
  <2>3. QED
    BY <1>5, <2>2
<1>7. Is(f)
  <2>1. \A k \in 0..n : f[k] = IF k = 0 THEN base ELSE Adding(answer, k, f[k - 1])
    <3>1. \A k \in 0..n : k = 0 \/ k \in 1..n
      BY <1>1
    <3> HIDE DEF step
    <3>2. QED
      BY <1>5, <1>6, <3>1
  <2>2. f = [k \in 0..n |-> f[k]]
    BY <1>5
  <2>3. QED
    BY <2>1, <2>2, Zenon DEF Adding, base
<1> DEFINE g == Converted(answer)
<1>8. Is(g)
  BY <1>7, Zenon DEF Converted, n
<1> HIDE DEF g
<1>9. \A k \in 0..n : g[k] = IF k = 0 THEN base ELSE Adding(answer, k, g[k - 1])
  BY <1>8 DEF Adding, base
<1>10. g[0] = base /\ \A k \in 1..n : g[k] = Adding(answer, k, g[k - 1])
  <2>1. 0 \in 0..n /\ \A k \in 1..n : k \in 0..n /\ k # 0
    BY <1>1
  <2>2. QED
    BY <1>9, <2>1
<1> DEFINE Good == {k \in 0..n : g[k] \in A}
<1>11. 0 \in Good
  BY <1>1, <1>3, <1>10
<1>12. \A k \in 1..n : k - 1 \in Good => k \in Good
  <2> SUFFICES ASSUME NEW k \in 1..n, g[k - 1] \in A PROVE g[k] \in A
    BY <1>1
  <2>1. Adding(answer, k, g[k - 1]) \in A
    BY AddingFacts DEF A, n
  <2>2. QED
    BY <1>10, <2>1
<1>13. \A k \in 0..n : k \in Good
  <2> HIDE DEF Good
  <2>1. QED
    BY <1>1, <1>11, <1>12, Climb
<1>14. QED
  BY <1>10, <1>13 DEF g, n, A, base

LEMMA BlocksLinesFacts ==
  ASSUME NEW answer \in Answers
  PROVE  /\ BlocksLines(answer)[0] = <<>>
         /\ \A k \in 0..Len(answer) : BlocksLines(answer)[k] \in Seq(Byte)
         /\ \A k \in 1..Len(answer) :
              BlocksLines(answer)[k] = BlocksLines(answer)[k - 1] \o BlockLines(answer, k)
<1> DEFINE n == Len(answer)
           A == Seq(Byte)
           step == [k \in 1..n |-> [a \in A |-> a \o BlockLines(answer, k)]]
           Is(f) == f = [k \in 0..n |-> IF k = 0 THEN <<>> ELSE f[k - 1] \o BlockLines(answer, k)]
<1>1. n \in Nat
  BY AnswerFacts
<1>2. \A k \in 1..n : BlockLines(answer, k) \in A
  <2>1. <<>> \in Seq(Marks)
    OBVIOUS
  <2>2. QED
    BY <2>1, ListeningHolds, OneBlock
<1>3. <<>> \in A /\ \A a \in A, b \in A : a \o b \in A
  OBVIOUS
<1> HIDE DEF n, A
<1>4. step \in [1..n -> [A -> A]]
  BY <1>2, <1>3
<1>5. PICK f : Follows(f, A, <<>>, n, step)
  <2> HIDE DEF step
  <2>1. QED
    BY <1>1, <1>3, <1>4, RecursionExists
<1>6. f \in [0..n -> A] /\ f[0] = <<>> /\ \A k \in 1..n : f[k] = step[k][f[k - 1]]
  <2> HIDE DEF step
  <2>1. QED
    BY <1>5 DEF Follows
<1>7. \A k \in 1..n : f[k] = f[k - 1] \o BlockLines(answer, k)
  <2> SUFFICES ASSUME NEW k \in 1..n PROVE f[k] = f[k - 1] \o BlockLines(answer, k)
    OBVIOUS
  <2>1. k - 1 \in 0..n
    BY <1>1
  <2>2. f[k - 1] \in A
    BY <1>6, <2>1
  <2>3. QED
    BY <1>6, <2>2
<1>8. Is(f)
  <2>1. \A k \in 0..n : f[k] = IF k = 0 THEN <<>> ELSE f[k - 1] \o BlockLines(answer, k)
    <3>1. \A k \in 0..n : k = 0 \/ k \in 1..n
      BY <1>1
    <3> HIDE DEF step
    <3>2. QED
      BY <1>6, <1>7, <3>1
  <2>2. f = [k \in 0..n |-> f[k]]
    BY <1>6
  <2>3. QED
    BY <2>1, <2>2, Zenon
<1> DEFINE g == BlocksLines(answer)
<1>9. Is(g)
  BY <1>8, Zenon DEF BlocksLines, n
<1> HIDE DEF g
<1>10. g[0] = <<>> /\ \A k \in 1..n : g[k] = g[k - 1] \o BlockLines(answer, k)
  <2>1. \A k \in 0..n : g[k] = IF k = 0 THEN <<>> ELSE g[k - 1] \o BlockLines(answer, k)
    BY <1>9
  <2>2. 0 \in 0..n /\ \A k \in 1..n : k \in 0..n /\ k # 0
    BY <1>1
  <2>3. QED
    BY <2>1, <2>2
<1> DEFINE Good == {k \in 0..n : g[k] \in A}
<1>11. 0 \in Good
  BY <1>1, <1>3, <1>10
<1>12. \A k \in 1..n : k - 1 \in Good => k \in Good
  <2> SUFFICES ASSUME NEW k \in 1..n, g[k - 1] \in A PROVE g[k] \in A
    BY <1>1
  <2>1. BlockLines(answer, k) \in A /\ g[k] = g[k - 1] \o BlockLines(answer, k)
    BY <1>2, <1>10
  <2>2. QED
    BY <1>3, <2>1
<1>13. \A k \in 0..n : k \in Good
  <2> HIDE DEF Good
  <2>1. QED
    BY <1>1, <1>11, <1>12, Climb
<1>14. QED
  BY <1>10, <1>13 DEF g, n, A

(***************************************************************************)
(* A text without its breaks.                                              *)
(***************************************************************************)
Plain == Marks \ {Break}
Broken(text) == \E i \in 1..Len(text) : text[i] = Break

UnbrokenEach(text) ==
  LET upto[k \in 0..Len(text)] ==
        IF k = 0 THEN <<>>
        ELSE IF text[k] = Break THEN upto[k - 1] ELSE Append(upto[k - 1], text[k])
  IN  upto

\* What is kept of each prefix has no break.
LEMMA UnbrokenEachFacts ==
  ASSUME NEW text \in Seq(Marks)
  PROVE  /\ Unbroken(text) = UnbrokenEach(text)[Len(text)]
         /\ UnbrokenEach(text)[0] = <<>>
         /\ \A k \in 0..Len(text) : UnbrokenEach(text)[k] \in Seq(Plain)
         /\ \A k \in 1..Len(text) :
              UnbrokenEach(text)[k] = IF text[k] = Break THEN UnbrokenEach(text)[k - 1]
                                      ELSE Append(UnbrokenEach(text)[k - 1], text[k])
<1> DEFINE n == Len(text)
           A == Seq(Plain)
           Added(k, a) == IF text[k] = Break THEN a ELSE Append(a, text[k])
           step == [k \in 1..n |-> [a \in A |-> Added(k, a)]]
           Is(f) == f = [k \in 0..n |->
                           IF k = 0 THEN <<>>
                           ELSE IF text[k] = Break THEN f[k - 1] ELSE Append(f[k - 1], text[k])]
<1>1. n \in Nat /\ \A k \in 1..n : text[k] # Break => text[k] \in Plain
  BY DEF Plain
<1>2. step \in [1..n -> [A -> A]]
  <2>1. \A k \in 1..n, a \in A : Added(k, a) \in A
    BY <1>1
  <2> HIDE DEF Added, n, A
  <2>2. QED
    BY <2>1
<1>3. <<>> \in A
  OBVIOUS
<1>4. PICK f : Follows(f, A, <<>>, n, step)
  <2> HIDE DEF n, step, A
  <2>1. QED
    BY <1>1, <1>2, <1>3, RecursionExists
<1>5. f \in [0..n -> A] /\ f[0] = <<>> /\ \A k \in 1..n : f[k] = step[k][f[k - 1]]
  <2> HIDE DEF n, step, A
  <2>1. QED
    BY <1>4 DEF Follows
<1>6. \A k \in 1..n : f[k] = Added(k, f[k - 1])
  <2> SUFFICES ASSUME NEW k \in 1..n PROVE f[k] = Added(k, f[k - 1])
    OBVIOUS
  <2>1. k - 1 \in 0..n
    BY <1>1
  <2> HIDE DEF n, A, Added
  <2>2. f[k - 1] \in A
    BY <1>5, <2>1
  <2>3. QED
    BY <1>5, <2>2
<1>7. Is(f)
  <2>1. \A k \in 0..n : f[k] = IF k = 0 THEN <<>>
                               ELSE IF text[k] = Break THEN f[k - 1] ELSE Append(f[k - 1], text[k])
    <3>1. \A k \in 0..n : k = 0 \/ k \in 1..n
      BY <1>1
    <3> HIDE DEF n, step, A
    <3>2. QED
      BY <1>5, <1>6, <3>1
  <2>2. f = [k \in 0..n |-> f[k]]
    BY <1>5
  <2>3. QED
    BY <2>1, <2>2, Zenon
<1> DEFINE g == UnbrokenEach(text)
<1>8. Is(g)
  BY <1>7, Zenon DEF UnbrokenEach
<1>9. Unbroken(text) = g[n]
  BY Zenon DEF Unbroken, UnbrokenEach
<1> HIDE DEF g
<1>10. \A k \in 0..n : g[k] = IF k = 0 THEN <<>>
                              ELSE IF text[k] = Break THEN g[k - 1] ELSE Append(g[k - 1], text[k])
  BY <1>8
<1>11. 0 \in 0..n /\ \A k \in 1..n : k \in 0..n /\ k # 0
  BY <1>1
<1>12. g[0] = <<>> /\ \A k \in 1..n : g[k] = Added(k, g[k - 1])
  <2> HIDE DEF n
  <2>1. QED
    BY <1>10, <1>11
<1> DEFINE Good == {k \in 0..n : g[k] \in A}
<1>13. 0 \in Good
  BY <1>3, <1>11, <1>12
<1>14. \A k \in 1..n : k - 1 \in Good => k \in Good
  <2> SUFFICES ASSUME NEW k \in 1..n, g[k - 1] \in A PROVE g[k] \in A
    BY <1>11
  <2>1. Added(k, g[k - 1]) \in A
    BY <1>1
  <2>2. QED
    BY <1>12, <2>1
<1>15. \A k \in 0..n : k \in Good
  <2> HIDE DEF Good, n
  <2>1. QED
    BY <1>1, <1>13, <1>14, Climb
<1>16. QED
  BY <1>9, <1>12, <1>15 DEF g

LEMMA UnbrokenAppend ==
  ASSUME NEW text \in Seq(Marks), NEW x \in Marks
  PROVE  Unbroken(Append(text, x)) = IF x = Break THEN Unbroken(text) ELSE Append(Unbroken(text), x)
<1> DEFINE n == Len(text)
           t == Append(text, x)
           f == UnbrokenEach(text)
           g == UnbrokenEach(t)
           Same == {k \in 0..n : f[k] = g[k]}
<1>1. /\ n \in Nat /\ t \in Seq(Marks) /\ Len(t) = n + 1 /\ t[n + 1] = x
      /\ \A k \in 1..n : t[k] = text[k]
  BY AppendProperties
<1>2. /\ Unbroken(text) = f[n] /\ f[0] = <<>>
      /\ \A k \in 1..n : f[k] = IF text[k] = Break THEN f[k - 1] ELSE Append(f[k - 1], text[k])
  BY UnbrokenEachFacts
<1> HIDE DEF n, t, f
<1>3. /\ Unbroken(t) = g[n + 1] /\ g[0] = <<>>
      /\ \A k \in 1..(n + 1) : g[k] = IF t[k] = Break THEN g[k - 1] ELSE Append(g[k - 1], t[k])
  BY <1>1, UnbrokenEachFacts
<1> HIDE DEF g
<1>4. 0 \in Same
  BY <1>1, <1>2, <1>3
<1>5. \A k \in 1..n : k - 1 \in Same => k \in Same
  BY <1>1, <1>2, <1>3
<1>6. \A k \in 0..n : k \in Same
  <2> HIDE DEF Same
  <2>1. QED
    BY <1>1, <1>4, <1>5, Climb
<1>7. f[n] = g[n] /\ n + 1 \in 1..(n + 1) /\ (n + 1) - 1 = n
  BY <1>1, <1>6
<1>8. g[n + 1] = IF t[n + 1] = Break THEN g[n] ELSE Append(g[n], t[n + 1])
  BY <1>3, <1>7
<1>9. QED
  BY <1>1, <1>2, <1>3, <1>7, <1>8 DEF t

\* It is the text itself if and only if there is none.
LEMMA UnbrokenFacts ==
  ASSUME NEW text \in Seq(Marks)
  PROVE  /\ Unbroken(text) \in Seq(Plain) /\ Unbroken(text) \in Seq(Marks)
         /\ Unbroken(text) = text <=> ~Broken(text)
<1> DEFINE n == Len(text)
           f == UnbrokenEach(text)
<1>1. /\ n \in Nat /\ Unbroken(text) = f[n] /\ f[0] = <<>>
      /\ \A k \in 0..n : f[k] \in Seq(Plain)
      /\ \A k \in 1..n : f[k] = IF text[k] = Break THEN f[k - 1] ELSE Append(f[k - 1], text[k])
  BY UnbrokenEachFacts
<1> HIDE DEF f
<1>2. Unbroken(text) \in Seq(Plain) /\ Unbroken(text) \in Seq(Marks)
  <2>1. Unbroken(text) \in Seq(Plain)
    BY <1>1
  <2>2. QED
    BY <2>1 DEF Plain
<1>3. ASSUME Unbroken(text) = text PROVE ~Broken(text)
  <2>1. text \in Seq(Plain)
    BY <1>2, <1>3
  <2>2. \A i \in 1..Len(text) : text[i] \in Plain
    BY <2>1
  <2>3. QED
    BY <2>2 DEF Broken, Plain
<1>4. ASSUME ~Broken(text) PROVE Unbroken(text) = text
  <2> DEFINE Good == {k \in 0..n : Len(f[k]) = k /\ \A i \in 1..k : f[k][i] = text[i]}
  <2>1. 0 \in Good
    BY <1>1
  <2>2. ASSUME NEW k \in 1..n, k - 1 \in Good PROVE k \in Good
    <3>1. text[k] # Break /\ k \in 0..n /\ k - 1 \in 0..n
      BY <1>1, <1>4 DEF Broken
    <3> DEFINE h == f[k - 1]
    <3>2. f[k] = Append(h, text[k]) /\ h \in Seq(Plain)
      BY <1>1, <3>1
    <3>3. Len(h) = k - 1 /\ \A i \in 1..(k - 1) : h[i] = text[i]
      BY <2>2
    <3> HIDE DEF h
    <3>4. /\ Len(f[k]) = Len(h) + 1 /\ f[k][Len(h) + 1] = text[k]
          /\ \A i \in 1..Len(h) : f[k][i] = h[i]
      BY <3>2, AppendProperties
    <3>5. \A i \in 1..k : i \in 1..(k - 1) \/ i = k
      BY <1>1
    <3>6. QED
      BY <3>1, <3>3, <3>4, <3>5
  <2>3. \A k \in 0..n : k \in Good
    <3> HIDE DEF Good, n
    <3>1. QED
      BY <1>1, <2>1, <2>2, Climb
  <2>4. Len(f[n]) = n /\ \A i \in 1..n : f[n][i] = text[i]
    BY <1>1, <2>3
  <2>5. f[n] \in Seq(Marks)
    BY <1>1, <1>2
  <2>6. QED
    BY <1>1, <2>4, <2>5, SeqEqual
<1>5. QED
  BY <1>2, <1>3, <1>4

\* No piece of a block is a break.
LEMMA UnbrokenUpto ==
  ASSUME NEW text \in Seq(Marks), NEW k \in Nat \ {0}, NEW m \in Nat
  PROVE  Unbroken(text \o Upto(k, m)) = Unbroken(text) \o Upto(k, m)
<1> DEFINE u == Unbroken(text)
           Good == {j \in 0..m : Unbroken(text \o Upto(k, j)) = u \o Upto(k, j)}
<1>1. u \in Seq(Marks)
  BY UnbrokenFacts
<1> HIDE DEF u
<1>2. 0 \in Good
  <2>1. Upto(k, 0) = <<>>
    BY UptoFacts
  <2>2. text \o <<>> = text /\ u \o <<>> = u
    BY <1>1, ConcatEmptySeq
  <2>3. Unbroken(text) = u
    BY DEF u
  <2>4. Unbroken(text \o Upto(k, 0)) = u \o Upto(k, 0)
    BY <2>1, <2>2, <2>3, Zenon
  <2>5. 0 \in 0..m
    OBVIOUS
  <2>6. QED
    BY <2>4, <2>5
<1>3. ASSUME NEW j \in 1..m, j - 1 \in Good PROVE j \in Good
  <2> DEFINE v == Upto(k, j - 1)
             w == Upto(k, j)
             x == <<k, j>>
  <2>1. j \in Nat /\ j - 1 \in Nat /\ j >= 1
    OBVIOUS
  <2>2. x \in Marks /\ x # Break
    BY <2>1, MarksFacts DEF Break
  <2>3. v \in Seq(Marks) /\ w = Append(v, x)
    BY <2>1, UptoFacts
  <2>4. Unbroken(text \o v) = u \o v
    BY <1>3
  <2> HIDE DEF v, w, x
  <2>5. Append(text \o v, x) = text \o w /\ Append(u \o v, x) = u \o w
    BY <1>1, <2>2, <2>3, ConcatAppend
  <2>6. text \o v \in Seq(Marks)
    BY <2>3, ConcatProperties
  <2>7. Unbroken(text \o w) = u \o w
    BY <2>2, <2>4, <2>5, <2>6, UnbrokenAppend
  <2>8. QED
    BY <2>7 DEF w
<1>4. \A j \in 0..m : j \in Good
  <2> HIDE DEF Good
  <2>1. QED
    BY <1>2, <1>3, Climb
<1>5. QED
  BY <1>4 DEF u

\* One text block more.
LEMMA JoinedFacts ==
  ASSUME NEW answer \in Answers, NEW k \in 1..Len(answer), answer[k].type = "text",
         NEW content \in Seq(Marks)
  PROVE  /\ Unbroken(Joined(content, Pieces(answer, k))) = Unbroken(content) \o Pieces(answer, k)
         /\ Joined(content, Pieces(answer, k)) # <<>>
         /\ Broken(Joined(content, Pieces(answer, k))) <=> content # <<>>
<1> DEFINE m == answer[k].pieces
           p == Pieces(answer, k)
           b == content \o <<Break>>
           j == Joined(content, p)
<1>1. k \in Nat \ {0} /\ m \in Nat /\ m >= 1 /\ p = Upto(k, m)
  BY AnswerFacts
<1> HIDE DEF m
<1>2. p \in Seq(Marks) /\ Len(p) = m /\ \A i \in 1..m : p[i] = <<k, i>>
  <2>1. Upto(k, m) \in Seq(Marks)
    BY <1>1, UptoFacts
  <2>2. Upto(k, m) = [i \in 1..m |-> <<k, i>>] /\ Len(Upto(k, m)) = m
    BY <1>1 DEF Upto
  <2>3. QED
    BY <1>1, <2>1, <2>2
<1>3. ~Broken(p)
  <2>1. \A i \in 1..m : <<k, i>> # Break
    BY <1>1 DEF Break
  <2> HIDE DEF p
  <2>2. QED
    BY <1>2, <2>1 DEF Broken
<1>4. \A text \in Seq(Marks) : Unbroken(text \o p) = Unbroken(text) \o p
  <2> SUFFICES ASSUME NEW text \in Seq(Marks) PROVE Unbroken(text \o p) = Unbroken(text) \o p
    OBVIOUS
  <2>1. Unbroken(text \o Upto(k, m)) = Unbroken(text) \o Upto(k, m)
    BY <1>1, UnbrokenUpto
  <2> HIDE DEF p
  <2>2. QED
    BY <1>1, <2>1, Zenon
<1> HIDE DEF p
<1>5. CASE content = <<>>
  <2>1. j = p
    BY <1>5 DEF Joined
  <2>2. Unbroken(p) = p /\ Unbroken(content) = <<>>
    <3>1. ~Broken(<<>>) /\ <<>> \in Seq(Marks)
      BY DEF Broken
    <3>2. Unbroken(<<>>) = <<>>
      BY <3>1, UnbrokenFacts
    <3>3. Unbroken(p) = p
      BY <1>2, <1>3, UnbrokenFacts
    <3>4. QED
      BY <1>5, <3>2, <3>3
  <2>3. <<>> \o p = p
    BY <1>2, ConcatEmptySeq
  <2>4. p # <<>>
    BY <1>1, <1>2
  <2> HIDE DEF j
  <2>5. QED
    BY <1>3, <1>5, <2>1, <2>2, <2>3, <2>4 DEF j, p
<1>6. CASE content # <<>>
  <2>1. j = b \o p
    BY <1>6 DEF Joined
  <2>2. Break \in Marks
    BY MarksFacts DEF Break
  <2>3. b = Append(content, Break)
    BY <2>2, AppendIsConcat
  <2>4. b \in Seq(Marks) /\ Len(b) = Len(content) + 1 /\ b[Len(content) + 1] = Break
    BY <2>2, <2>3, AppendProperties
  <2>5. Unbroken(b) = Unbroken(content)
    BY <2>2, <2>3, UnbrokenAppend
  <2> HIDE DEF b, j
  <2>6. Unbroken(j) = Unbroken(content) \o p
    BY <1>4, <2>1, <2>4, <2>5
  <2>7. /\ j \in Seq(Marks) /\ Len(j) = Len(b) + Len(p)
        /\ \A i \in 1..Len(b) : j[i] = b[i]
    <3>1. b \o p \in Seq(Marks) /\ Len(b \o p) = Len(b) + Len(p)
      BY <1>2, <2>4, ConcatProperties
    <3>2. \A i \in 1..Len(b) : (b \o p)[i] = b[i]
      BY <1>2, <2>4, ConcatProperties
    <3>3. QED
      BY <2>1, <3>1, <3>2, Zenon
  <2>8. Len(content) + 1 \in 1..Len(b) /\ Len(content) + 1 \in 1..Len(j)
    BY <1>2, <2>4, <2>7
  <2>9. Broken(j) /\ j # <<>>
    BY <2>4, <2>7, <2>8 DEF Broken
  <2>10. QED
    BY <1>6, <2>6, <2>9 DEF j, p
<1>7. QED
  BY <1>5, <1>6

\* Of the first k blocks one, or two, are a text.
Speaks(answer, k) == \E i \in 1..k : answer[i].type = "text"
SpeaksTwice(answer, k) ==
  \E i \in 1..k, j \in 1..k : i < j /\ answer[i].type = "text" /\ answer[j].type = "text"

LEMMA BreaksFacts ==
  ASSUME NEW answer \in Answers
  PROVE  \A k \in 0..Len(answer) :
           /\ Converted(answer)[k].content # <<>> <=> Speaks(answer, k)
           /\ Broken(Converted(answer)[k].content) <=> SpeaksTwice(answer, k)
<1> DEFINE n == Len(answer)
           c == Converted(answer)
           Good == {k \in 0..n : /\ c[k].content # <<>> <=> Speaks(answer, k)
                                 /\ Broken(c[k].content) <=> SpeaksTwice(answer, k)}
<1>1. /\ c[0] = [content |-> <<>>, calls |-> <<>>]
      /\ \A k \in 0..n : c[k] \in Conversion
      /\ \A k \in 1..n : c[k] = Adding(answer, k, c[k - 1])
  BY ConvertedFacts
<1>2. n \in Nat
  BY AnswerFacts
<1> HIDE DEF c
<1>3. 0 \in Good
  <2>1. c[0].content = <<>>
    BY <1>1
  <2>2. ~Broken(<<>>)
    BY DEF Broken
  <2>3. ~Speaks(answer, 0) /\ ~SpeaksTwice(answer, 0)
    BY DEF Speaks, SpeaksTwice
  <2>4. QED
    BY <1>2, <2>1, <2>2, <2>3
<1>4. ASSUME NEW k \in 1..n, k - 1 \in Good PROVE k \in Good
  <2> DEFINE a == c[k - 1]
             b == c[k]
  <2>1. k \in 0..n /\ k - 1 \in 0..n
    BY <1>2
  <2>2. a \in Conversion /\ b = Adding(answer, k, a)
    BY <1>1, <2>1
  <2>3. /\ a.content # <<>> <=> Speaks(answer, k - 1)
        /\ Broken(a.content) <=> SpeaksTwice(answer, k - 1)
    BY <1>4
  <2>4. a.content \in Seq(Marks)
    BY <2>2 DEF Conversion
  <2>5. \A i \in 1..k : i = k \/ i \in 1..(k - 1)
    OBVIOUS
  <2>6. \A i \in 1..(k - 1) : i \in 1..k /\ i < k /\ i # k
    OBVIOUS
  <2> HIDE DEF a, b
  <2>7. CASE answer[k].type = "text"
    <3>1. b.content = Joined(a.content, Pieces(answer, k))
      BY <2>2, <2>7, AddingFacts
    <3>2. b.content # <<>> /\ (Broken(b.content) <=> a.content # <<>>)
      BY <2>4, <2>7, <3>1, JoinedFacts
    <3>3. Speaks(answer, k)
      BY <2>7 DEF Speaks
    <3>4. SpeaksTwice(answer, k) <=> Speaks(answer, k - 1)
      <4>1. ASSUME Speaks(answer, k - 1) PROVE SpeaksTwice(answer, k)
        <5>1. PICK i \in 1..(k - 1) : answer[i].type = "text"
          BY <4>1 DEF Speaks
        <5>2. i \in 1..k /\ i < k /\ k \in 1..k
          OBVIOUS
        <5>3. QED
          BY <2>7, <5>1, <5>2 DEF SpeaksTwice
      <4>2. ASSUME SpeaksTwice(answer, k) PROVE Speaks(answer, k - 1)
        <5>1. PICK i \in 1..k, j \in 1..k : i < j /\ answer[i].type = "text"
          BY <4>2 DEF SpeaksTwice
        <5>2. i \in 1..(k - 1)
          BY <5>1
        <5>3. QED
          BY <5>1, <5>2 DEF Speaks
      <4>3. QED
        BY <4>1, <4>2
    <3>5. QED
      BY <2>1, <2>3, <3>2, <3>3, <3>4 DEF b
  <2>8. CASE answer[k].type = "tool_use"
    <3>1. b.content = a.content
      BY <2>2, <2>8, AddingFacts
    <3>2. Speaks(answer, k) <=> Speaks(answer, k - 1)
      BY <2>5, <2>6, <2>8 DEF Speaks
    <3>3. SpeaksTwice(answer, k) <=> SpeaksTwice(answer, k - 1)
      BY <2>5, <2>6, <2>8 DEF SpeaksTwice
    <3>4. QED
      BY <2>1, <2>3, <3>1, <3>2, <3>3 DEF b
  <2>9. QED
    BY <2>7, <2>8, AnswerFacts
<1>5. \A k \in 0..n : k \in Good
  <2> HIDE DEF Good, n
  <2>1. QED
    BY <1>2, <1>3, <1>4, Climb
<1>6. QED
  BY <1>5 DEF c

LEMMA OneTextFacts ==
  ASSUME NEW answer \in Answers
  PROVE  OneText(answer) <=> ~SpeaksTwice(answer, Len(answer))
<1>1. DOMAIN answer = 1..Len(answer) /\ Len(answer) \in Nat
  BY AnswerFacts
<1>2. ASSUME OneText(answer), SpeaksTwice(answer, Len(answer)) PROVE FALSE
  <2>1. PICK i \in 1..Len(answer), j \in 1..Len(answer) :
           i < j /\ answer[i].type = "text" /\ answer[j].type = "text"
    BY <1>2 DEF SpeaksTwice
  <2>2. i = j
    BY <1>1, <1>2, <2>1 DEF OneText
  <2>3. QED
    BY <2>1, <2>2
<1>3. ASSUME ~SpeaksTwice(answer, Len(answer)) PROVE OneText(answer)
  <2> SUFFICES ASSUME NEW i \in 1..Len(answer), NEW j \in 1..Len(answer),
                      answer[i].type = "text", answer[j].type = "text"
               PROVE  i = j
    BY <1>1 DEF OneText
  <2>1. ~(i < j) /\ ~(j < i)
    BY <1>3 DEF SpeaksTwice
  <2>2. QED
    BY <1>1, <2>1
<1>4. QED
  BY <1>2, <1>3

\* The decoder after the blocks.
LEMMA AllBlocks ==
  ASSUME NEW answer \in Answers
  PROVE  Holds(OnChunk(Listening, BlocksLines(answer)[Len(answer)]), <<>>,
               Unbroken(Converted(answer)[Len(answer)].content), Converted(answer)[Len(answer)].calls)
<1> DEFINE n == Len(answer)
           g == BlocksLines(answer)
           c == Converted(answer)
           Good == {k \in 0..n : Holds(OnChunk(Listening, g[k]), <<>>, Unbroken(c[k].content), c[k].calls)}
<1>1. n \in Nat /\ Listening \in Decoder
  BY AnswerFacts, ListeningHolds DEF Holds
<1>2. /\ g[0] = <<>> /\ \A k \in 0..n : g[k] \in Seq(Byte)
      /\ \A k \in 1..n : g[k] = g[k - 1] \o BlockLines(answer, k)
  BY BlocksLinesFacts
<1>3. /\ c[0] = [content |-> <<>>, calls |-> <<>>]
      /\ \A k \in 0..n : c[k] \in Conversion
      /\ \A k \in 1..n : c[k] = Adding(answer, k, c[k - 1])
  BY ConvertedFacts
<1>4. 0 \in Good
  <2> HIDE DEF g, c, n
  <2>1. OnChunk(Listening, g[0]) = Listening
    BY <1>1, <1>2, OnChunkEmpty
  <2>2. c[0].content = <<>> /\ c[0].calls = <<>>
    BY <1>3
  <2>3. Unbroken(<<>>) = <<>>
    <3>1. <<>> \in Seq(Marks) /\ ~Broken(<<>>)
      BY DEF Broken
    <3>2. QED
      BY <3>1, UnbrokenFacts
  <2>4. QED
    BY <1>1, <2>1, <2>2, <2>3, ListeningHolds
<1>5. ASSUME NEW k \in 1..n, k - 1 \in Good PROVE k \in Good
  <2> DEFINE d == OnChunk(Listening, g[k - 1])
             a == c[k - 1]
             b == c[k]
             lines == BlockLines(answer, k)
             u == Unbroken(a.content)
  <2>1. k \in 0..n /\ k - 1 \in 0..n
    BY <1>1
  <2>2. Holds(d, <<>>, u, a.calls)
    BY <1>5
  <2>3. a \in Conversion /\ b = Adding(answer, k, a)
    BY <1>3, <2>1
  <2>4. a.content \in Seq(Marks) /\ u \in Seq(Marks)
    <3>1. a.content \in Seq(Marks)
      BY <2>3 DEF Conversion
    <3>2. QED
      BY <3>1, UnbrokenFacts
  <2>5. answer[k].type = "text" \/ answer[k].type = "tool_use"
    BY AnswerFacts
  <2>6. g[k - 1] \in Seq(Byte) /\ g[k] = g[k - 1] \o lines
    BY <1>2, <2>1
  <2> HIDE DEF d, a, b, g, c, u
  <2>7. Holds(OnChunk(d, lines), <<>>, Unbroken(b.content), b.calls)
    <3>1. CASE answer[k].type = "text"
      <4>1. b.content = Joined(a.content, Pieces(answer, k)) /\ b.calls = a.calls
        BY <2>3, <3>1, AddingFacts
      <4>2. Holds(OnChunk(d, lines), <<>>, u \o Pieces(answer, k), a.calls)
        BY <2>2, <2>4, <3>1, OneBlock
      <4>3. Unbroken(b.content) = u \o Pieces(answer, k)
        BY <2>4, <3>1, <4>1, JoinedFacts DEF u
      <4>4. QED
        BY <4>1, <4>2, <4>3
    <3>2. CASE answer[k].type = "tool_use"
      <4>1. b.content = a.content /\ b.calls = Append(a.calls, <<k, Arguments(Pieces(answer, k))>>)
        BY <2>3, <3>2, AddingFacts
      <4>2. Holds(OnChunk(d, lines), <<>>, u, Append(a.calls, <<k, Arguments(Pieces(answer, k))>>))
        BY <2>2, <2>4, <3>2, OneBlock
      <4>3. QED
        BY <4>1, <4>2 DEF u
    <3>3. QED
      BY <2>5, <3>1, <3>2
  <2>8. lines \in Seq(Byte)
    BY <2>2, <2>4, OneBlock
  <2> HIDE DEF lines
  <2>9. OnChunk(Listening, g[k - 1] \o lines) = OnChunk(OnChunk(Listening, g[k - 1]), lines)
    BY <1>1, <2>6, <2>8, CutAnywhere
  <2>10. OnChunk(Listening, g[k]) = OnChunk(d, lines)
    BY <2>6, <2>9 DEF d
  <2>11. QED
    BY <2>1, <2>7, <2>10 DEF b
<1>6. \A k \in 0..n : k \in Good
  <2> HIDE DEF Good, n
  <2>1. QED
    BY <1>1, <1>4, <1>5, Climb
<1>7. QED
  BY <1>1, <1>6

\* The whole stream ends with the reason, and says it only there.
LEMMA WholeStream ==
  ASSUME NEW answer \in Answers, NEW reason \in StopReasons
  PROVE  LET whole == ConvertAnthropicResponse(answer, reason)
             bytes == StreamBytes(answer, reason)
             sent == OnChunk(Listening, bytes).sent IN
         /\ bytes \in Seq(Byte) /\ sent \in Seq(Chunks)
         /\ Of("text", sent) = Unbroken(whole.content) /\ Of("call", sent) = whole.calls
         /\ Of("text", sent) = whole.content <=> OneText(answer)
         /\ Of("reason", sent) = <<whole.reason>>
         /\ \A k \in 1..(Len(sent) - 1) : sent[k][1] # "reason"
<1> DEFINE n == Len(answer)
           c == Converted(answer)[n]
           u == Unbroken(c.content)
           r == BlocksLines(answer)[n]
           s == LineOf("message_delta", reason)
           t == LineOf("message_stop", None)
           d == OnChunk(Listening, r)
           e == OnChunk(d, s)
           f == OnChunk(e, t)
           chunk == <<"reason", reason>>
           bytes == StreamBytes(answer, reason)
           sent == OnChunk(Listening, bytes).sent
<1>1. Holds(d, <<>>, u, c.calls)
  BY AllBlocks
<1>2. reason \in Marks /\ None \in Marks
  BY MarksFacts
<1>3. r \in Seq(Byte)
  <2>1. n \in 0..Len(answer)
    BY AnswerFacts
  <2>2. QED
    BY <2>1, BlocksLinesFacts
<1>4. bytes = r \o s \o t /\ ConvertAnthropicResponse(answer, reason) = [content |-> c.content, calls |-> c.calls, reason |-> reason]
  BY DEF StreamBytes, ConvertAnthropicResponse
<1> HIDE DEF u, c, r, n
<1>5. "message_delta" \in LineType /\ "message_stop" \in LineType
  BY DEF LineType
<1>6. s \in Seq(Byte) /\ t \in Seq(Byte)
  BY <1>2, <1>5, LineIsBytes
<1>7. Listening \in Decoder /\ d \in Decoder
  BY <1>1, ListeningHolds DEF Holds
<1>8. bytes \in Seq(Byte) /\ OnChunk(Listening, bytes) = f
  <2> HIDE DEF s, t, bytes
  <2> DEFINE v == r \o s
  <2>1. v \in Seq(Byte)
    BY <1>3, <1>6, ConcatProperties
  <2>2. OnChunk(Listening, v) = OnChunk(OnChunk(Listening, r), s)
    BY <1>3, <1>6, <1>7, CutAnywhere
  <2>3. bytes = v \o t
    BY <1>4
  <2> HIDE DEF v
  <2>4. v \o t \in Seq(Byte)
    BY <1>6, <2>1, ConcatProperties
  <2>5. OnChunk(Listening, v \o t) = OnChunk(OnChunk(Listening, v), t)
    BY <1>6, <1>7, <2>1, CutAnywhere
  <2>6. QED
    BY <2>2, <2>3, <2>4, <2>5
<1>9. /\ d.buffer = <<>> /\ d.open /\ d.sent \in Seq(Chunks)
      /\ Of("text", d.sent) = u /\ Of("call", d.sent) = c.calls
      /\ \A k \in 1..Len(d.sent) : d.sent[k][1] # "reason"
  BY <1>1, <1>7, DecoderFields DEF Holds
<1>10. chunk \in Chunks /\ chunk[1] = "reason" /\ chunk[2] = reason
  <2>1. chunk \in Chunks
    BY <1>2, ToldFacts, Zenon
  <2>2. QED
    BY <2>1
<1>11. e = Send(d, chunk)
  <2> DEFINE line == Line("message_delta", reason)
  <2>1. line.type = "message_delta" /\ line.of = reason
    BY DEF Line
  <2> HIDE DEF d
  <2>2. line \in Lines /\ e = OnLine(d, line)
    BY <1>2, <1>5, <1>7, <1>9, OneLine
  <2> HIDE DEF line, e
  <2>3. OnLine(d, line) = Send(d, <<"reason", line.of>>)
    BY <1>7, <2>1, <2>2, OnLineFacts
  <2>4. QED
    BY <2>1, <2>2, <2>3
<1> HIDE DEF chunk, d, e
<1>12. /\ e \in Decoder /\ e.sent = Append(d.sent, chunk) /\ e.buffer = <<>> /\ e.open
  BY <1>7, <1>9, <1>10, <1>11, SendType, SendFields
<1>13. f.sent = e.sent
  <2> DEFINE line == Line("message_stop", None)
  <2>1. line.type = "message_stop"
    BY DEF Line
  <2>2. line \in Lines /\ f = OnLine(e, line)
    BY <1>2, <1>5, <1>12, OneLine
  <2> HIDE DEF line, f
  <2>3. OnLine(e, line) = [e EXCEPT !.open = FALSE]
    BY <1>12, <2>1, <2>2, OnLineFacts
  <2>4. [e EXCEPT !.open = FALSE].sent = e.sent
    BY <1>12 DEF Decoder
  <2>5. QED
    BY <2>2, <2>3, <2>4
<1> HIDE DEF f
<1>14. sent = Append(d.sent, chunk)
  BY <1>8, <1>12, <1>13
<1> HIDE DEF sent, bytes
<1>15. sent \in Seq(Chunks)
  BY <1>9, <1>10, <1>14
<1>16. Of("text", sent) = u /\ Of("call", sent) = c.calls
  <2>1. chunk[1] # "text" /\ chunk[1] # "call"
    BY <1>10
  <2>2. QED
    BY <1>9, <1>10, <1>14, <2>1, OfAppend
<1>17. Of("reason", sent) = <<reason>>
  <2>1. Of("reason", d.sent) = <<>>
    BY <1>9, OfNothing
  <2>2. Of("reason", sent) = Append(Of("reason", d.sent), reason)
    BY <1>9, <1>10, <1>14, OfAppend
  <2>3. Append(<<>>, reason) = <<reason>>
    OBVIOUS
  <2>4. QED
    BY <2>1, <2>2, <2>3
<1>18. \A k \in 1..(Len(sent) - 1) : sent[k][1] # "reason"
  <2> DEFINE q == d.sent
  <2>1. Len(sent) = Len(q) + 1 /\ Len(q) \in Nat /\ \A k \in 1..Len(q) : sent[k] = q[k]
    BY <1>9, <1>10, <1>14, AppendProperties
  <2>2. \A k \in 1..Len(q) : q[k][1] # "reason"
    BY <1>9
  <2> HIDE DEF q
  <2>3. QED
    BY <2>1, <2>2
<1>19. u = c.content <=> OneText(answer)
  <2> DEFINE text == c.content
  <2>1. n \in 0..Len(answer)
    BY AnswerFacts DEF n
  <2>2. Broken(text) <=> SpeaksTwice(answer, n)
    BY <2>1, BreaksFacts DEF c
  <2>3. c \in Conversion
    BY <2>1, ConvertedFacts DEF c
  <2>4. text \in Seq(Marks)
    BY <2>3 DEF Conversion
  <2>5. u = Unbroken(text)
    BY DEF u
  <2> HIDE DEF text
  <2>6. u = text <=> ~Broken(text)
    BY <2>4, <2>5, UnbrokenFacts
  <2>7. QED
    BY <2>2, <2>6, OneTextFacts DEF text, n
<1>20. QED
  BY <1>4, <1>8, <1>15, <1>16, <1>17, <1>18, <1>19 DEF sent, bytes, u

Body == Seq(Byte)

LEMMA ReceivingFacts ==
  ASSUME NEW chunks \in Seq(Body)
  PROVE  /\ Receiving(chunks)[0] = Listening
         /\ \A k \in 1..Len(chunks) : Receiving(chunks)[k] = OnChunk(Receiving(chunks)[k - 1], chunks[k])
<1> DEFINE n == Len(chunks)
           step == [k \in 1..n |-> [d \in Decoder |-> OnChunk(d, chunks[k])]]
           Is(f) == f = [k \in 0..n |-> IF k = 0 THEN Listening ELSE OnChunk(f[k - 1], chunks[k])]
<1>1. n \in Nat /\ \A k \in 1..n : chunks[k] \in Body
  OBVIOUS
<1>2. step \in [1..n -> [Decoder -> Decoder]]
  <2>1. \A k \in 1..n, d \in Decoder : OnChunk(d, chunks[k]) \in Decoder
    BY <1>1, OnChunkType DEF Body
  <2> HIDE DEF n
  <2>2. QED
    BY <2>1
<1>3. Listening \in Decoder
  BY ListeningHolds DEF Holds
<1> HIDE DEF n
<1>4. PICK f : Follows(f, Decoder, Listening, n, step)
  <2> HIDE DEF step
  <2>1. QED
    BY <1>1, <1>2, <1>3, RecursionExists
<1>5. f \in [0..n -> Decoder] /\ f[0] = Listening /\ \A k \in 1..n : f[k] = step[k][f[k - 1]]
  <2> HIDE DEF step
  <2>1. QED
    BY <1>4 DEF Follows
<1>6. \A k \in 1..n : f[k] = OnChunk(f[k - 1], chunks[k])
  <2> SUFFICES ASSUME NEW k \in 1..n PROVE f[k] = OnChunk(f[k - 1], chunks[k])
    OBVIOUS
  <2>1. k - 1 \in 0..n
    BY <1>1
  <2>2. f[k - 1] \in Decoder
    BY <1>5, <2>1
  <2>3. QED
    BY <1>5, <2>2
<1>7. Is(f)
  <2>1. \A k \in 0..n : f[k] = IF k = 0 THEN Listening ELSE OnChunk(f[k - 1], chunks[k])
    <3>1. \A k \in 0..n : k = 0 \/ k \in 1..n
      BY <1>1
    <3> HIDE DEF step
    <3>2. QED
      BY <1>5, <1>6, <3>1
  <2>2. f = [k \in 0..n |-> f[k]]
    BY <1>5
  <2>3. QED
    BY <2>1, <2>2, Zenon
<1> DEFINE g == Receiving(chunks)
<1>8. Is(g)
  BY <1>7, Zenon DEF Receiving, n
<1> HIDE DEF g
<1>9. g[0] = Listening /\ \A k \in 1..n : g[k] = OnChunk(g[k - 1], chunks[k])
  <2>1. \A k \in 0..n : g[k] = IF k = 0 THEN Listening ELSE OnChunk(g[k - 1], chunks[k])
    BY <1>8
  <2>2. 0 \in 0..n /\ \A k \in 1..n : k \in 0..n /\ k # 0
    BY <1>1
  <2>3. QED
    BY <2>1, <2>2
<1>10. QED
  BY <1>9 DEF g, n

\* A body in one, two or three chunks.
ReadsOn(a, b, c) ==
  /\ Decode(<<a>>) = OnChunk(Listening, a)
  /\ Decode(<<a, b>>) = OnChunk(OnChunk(Listening, a), b)
  /\ Decode(Append(<<a, b>>, c)) = OnChunk(OnChunk(OnChunk(Listening, a), b), c)

LEMMA DecodeFacts ==
  ASSUME NEW a \in Body, NEW b \in Body, NEW c \in Body
  PROVE  ReadsOn(a, b, c)
<1>1. \A chunks \in Seq(Body) :
        /\ Receiving(chunks)[0] = Listening
        /\ \A k \in 1..Len(chunks) : Receiving(chunks)[k] = OnChunk(Receiving(chunks)[k - 1], chunks[k])
  BY ReceivingFacts
<1>2. Decode(<<a>>) = OnChunk(Listening, a)
  <2> DEFINE s == <<a>>
             f == Receiving(s)
  <2>1. s \in Seq(Body) /\ Len(s) = 1 /\ s[1] = a
    OBVIOUS
  <2> HIDE DEF s
  <2>2. f[0] = Listening /\ \A k \in 1..1 : f[k] = OnChunk(f[k - 1], s[k])
    BY <1>1, <2>1
  <2>3. Decode(s) = f[1]
    BY <2>1 DEF Decode
  <2> HIDE DEF f
  <2>4. f[1] = OnChunk(f[0], s[1])
    BY <2>2
  <2>5. QED
    BY <2>1, <2>2, <2>3, <2>4 DEF s
<1>3. Decode(<<a, b>>) = OnChunk(OnChunk(Listening, a), b)
  <2> DEFINE s == <<a, b>>
             f == Receiving(s)
  <2>1. s \in Seq(Body) /\ Len(s) = 2 /\ s[1] = a /\ s[2] = b
    OBVIOUS
  <2> HIDE DEF s
  <2>2. f[0] = Listening /\ \A k \in 1..2 : f[k] = OnChunk(f[k - 1], s[k])
    BY <1>1, <2>1
  <2>3. Decode(s) = f[2]
    BY <2>1 DEF Decode
  <2> HIDE DEF f
  <2>4. f[1] = OnChunk(f[0], s[1]) /\ f[2] = OnChunk(f[1], s[2])
    BY <2>2
  <2>5. QED
    BY <2>1, <2>2, <2>3, <2>4 DEF s
<1>4. Decode(Append(<<a, b>>, c)) = OnChunk(OnChunk(OnChunk(Listening, a), b), c)
  <2> DEFINE s == Append(<<a, b>>, c)
             f == Receiving(s)
  <2>1. s \in Seq(Body) /\ Len(s) = 3 /\ s[1] = a /\ s[2] = b /\ s[3] = c
    OBVIOUS
  <2> HIDE DEF s
  <2>2. f[0] = Listening /\ \A k \in 1..3 : f[k] = OnChunk(f[k - 1], s[k])
    BY <1>1, <2>1
  <2>3. Decode(s) = f[3]
    BY <2>1 DEF Decode
  <2> HIDE DEF f
  <2>4. f[1] = OnChunk(f[0], s[1]) /\ f[2] = OnChunk(f[1], s[2]) /\ f[3] = OnChunk(f[2], s[3])
    BY <2>2
  <2>5. QED
    BY <2>1, <2>2, <2>3, <2>4 DEF s
<1>5. QED
  BY <1>2, <1>3, <1>4 DEF ReadsOn

\* A streamed answer, cut into chunks anywhere, says what the answer does, but for
\* the newlines that join two text blocks, and one that breaks off says the first of it, with no reason unless nothing is missing
\* (stream_complete, convert_anthropic_response).
THEOREM StreamsAnswerAlike == AnswerFaithful
<1> SUFFICES ASSUME NEW answer \in Answers, NEW reason \in StopReasons
             PROVE
    LET whole == ConvertAnthropicResponse(answer, reason)
        bytes == StreamBytes(answer, reason)
        n == Len(bytes)
        sent == Decode(<<bytes>>).sent IN
    /\ Of("text", sent) = Unbroken(whole.content)
    /\ Of("text", sent) = whole.content <=> OneText(answer)
    /\ Of("call", sent) = whole.calls
    /\ Of("reason", sent) = <<whole.reason>>
    /\ \A i \in 0..n, j \in 0..n : i <= j =>
         LET cut == Decode(Cut(bytes, i, j)).sent IN
         /\ IsPrefix(cut, sent)
         /\ Decode(Append(Cut(bytes, i, j), SubSeq(bytes, j + 1, n))).sent = sent
         /\ Of("reason", cut) # <<>> => cut = sent
  BY DEF AnswerFaithful
<1> DEFINE whole == ConvertAnthropicResponse(answer, reason)
           bytes == StreamBytes(answer, reason)
           n == Len(bytes)
           full == OnChunk(Listening, bytes)
           sent == full.sent
<1>1. /\ bytes \in Body /\ sent \in Seq(Chunks)
      /\ Of("text", sent) = Unbroken(whole.content) /\ Of("call", sent) = whole.calls
      /\ Of("text", sent) = whole.content <=> OneText(answer)
      /\ Of("reason", sent) = <<whole.reason>>
      /\ \A k \in 1..(Len(sent) - 1) : sent[k][1] # "reason"
  BY WholeStream DEF Body
<1>2. Listening \in Decoder
  BY ListeningHolds DEF Holds
<1>3. full = Decode(<<bytes>>)
  <2> HIDE DEF bytes
  <2>1. ReadsOn(bytes, bytes, bytes)
    BY <1>1, DecodeFacts
  <2>2. QED
    BY <2>1 DEF ReadsOn
<1>4. ASSUME NEW i \in 0..n, NEW j \in 0..n, i <= j
      PROVE  LET cut == Decode(Cut(bytes, i, j)).sent IN
             /\ IsPrefix(cut, sent)
             /\ Decode(Append(Cut(bytes, i, j), SubSeq(bytes, j + 1, n))).sent = sent
             /\ Of("reason", cut) # <<>> => cut = sent
  <2> DEFINE a == SubSeq(bytes, 1, i)
             b == SubSeq(bytes, i + 1, j)
             c == SubSeq(bytes, j + 1, n)
             m == SubSeq(bytes, 1, j)
             part == OnChunk(Listening, m)
             cut == part.sent
  <2> HIDE DEF bytes
  <2>1. n \in Nat /\ i \in Nat /\ j \in Nat /\ i <= n /\ j <= n
    BY <1>1 DEF Body
  <2>2. a \in Body /\ b \in Body /\ c \in Body /\ m \in Body
    <3>1. \A k \in 1..n : bytes[k] \in Byte
      BY <1>1 DEF Body
    <3>2. a \in Seq(Byte)
      BY <2>1, <3>1, SubSeqProperties
    <3>3. b \in Seq(Byte)
      BY <2>1, <3>1, SubSeqProperties
    <3>4. c \in Seq(Byte)
      BY <2>1, <3>1, SubSeqProperties
    <3>5. m \in Seq(Byte)
      BY <2>1, <3>1, SubSeqProperties
    <3>6. QED
      BY <3>2, <3>3, <3>4, <3>5 DEF Body
  <2>3. a \o b = m /\ m \o c = bytes
    <3>1. bytes \in Seq(Byte)
      BY <1>1 DEF Body
    <3>2. 1 \in 1..(n + 1) /\ i \in (1 - 1)..n /\ j \in i..n /\ j \in (1 - 1)..n /\ n \in j..n
      BY <1>4, <2>1
    <3>3. a \o b = m
      BY <3>1, <3>2, ConcatAdjacentSubSeq
    <3>4. m \o c = SubSeq(bytes, 1, n)
      BY <3>1, <3>2, ConcatAdjacentSubSeq
    <3>5. SubSeq(bytes, 1, n) = bytes
      BY <3>1, SubSeqFull
    <3>6. QED
      BY <3>3, <3>4, <3>5
  <2>4. Cut(bytes, i, j) = <<a, b>>
    BY DEF Cut
  <2> HIDE DEF a, b, c, m, n
  <2>5. /\ Decode(<<a, b>>) = OnChunk(OnChunk(Listening, a), b)
        /\ Decode(Append(<<a, b>>, c)) = OnChunk(OnChunk(OnChunk(Listening, a), b), c)
    <3>1. ReadsOn(a, b, c)
      BY <2>2, DecodeFacts
    <3>2. QED
      BY <3>1 DEF ReadsOn
  <2>6. Decode(<<a, b>>) = part /\ part \in Decoder
    <3>1. Decode(<<a, b>>) = OnChunk(OnChunk(Listening, a), b)
      BY <2>5
    <3>2. OnChunk(Listening, a \o b) = OnChunk(OnChunk(Listening, a), b)
      BY <1>2, <2>2, CutAnywhere DEF Body
    <3>3. part \in Decoder
      BY <1>2, <2>2, OnChunkType DEF Body
    <3>4. QED
      BY <2>3, <3>1, <3>2, <3>3
  <2>7. Decode(Append(<<a, b>>, c)) = OnChunk(part, c) /\ OnChunk(part, c) = full
    <3>1. Decode(Append(<<a, b>>, c)) = OnChunk(OnChunk(OnChunk(Listening, a), b), c)
      BY <2>5
    <3>2. OnChunk(OnChunk(Listening, a), b) = part
      BY <2>6, <2>5
    <3>3. OnChunk(Listening, m \o c) = OnChunk(part, c)
      BY <1>2, <2>2, CutAnywhere DEF Body
    <3>4. QED
      BY <2>3, <3>1, <3>2, <3>3
  <2>8. Further(part, full)
    <3>1. Further(part, OnChunk(part, c))
      BY <2>2, <2>6, OnChunkSends DEF Body
    <3>2. QED
      BY <2>7, <3>1
  <2>9. cut \in Seq(Chunks)
    BY <2>6, DecoderFields
  <2>10. Len(cut) <= Len(sent) /\ \A k \in 1..Len(cut) : sent[k] = cut[k]
    BY <2>8 DEF Further
  <2> HIDE DEF part, full, sent, cut
  <2>11. IsPrefix(cut, sent)
    <3> DEFINE p == SubSeq(sent, 1, Len(cut))
    <3>1. Len(cut) \in Nat /\ Len(sent) \in Nat /\ \A k \in 1..Len(cut) : sent[k] \in Chunks
      BY <1>1, <2>9, <2>10
    <3>2. p \in Seq(Chunks) /\ Len(p) = Len(cut) /\ \A k \in 1..Len(cut) : p[k] = sent[k]
      <4>1. 1 \in Int /\ Len(cut) \in Int
        BY <3>1
      <4>2. /\ p \in Seq(Chunks) /\ Len(p) = (IF 1 <= Len(cut) THEN Len(cut) - 1 + 1 ELSE 0)
            /\ \A k \in 1..(Len(cut) - 1 + 1) : p[k] = sent[1 + k - 1]
        BY <3>1, <4>1, SubSeqProperties
      <4> HIDE DEF p
      <4>3. QED
        BY <3>1, <4>2
    <3> HIDE DEF p
    <3>3. \A k \in 1..Len(p) : p[k] = cut[k]
      BY <2>10, <3>2
    <3>4. p = cut
      BY <2>9, <3>2, <3>3, SeqEqual
    <3>5. SubSeq(cut, 1, Len(cut)) = cut
      BY <2>9, SubSeqFull
    <3>6. QED
      BY <2>10, <3>4, <3>5 DEF IsPrefix, p
  <2>12. ASSUME Of("reason", cut) # <<>> PROVE cut = sent
    <3>1. CASE Len(cut) = Len(sent)
      <4>1. \A k \in 1..Len(cut) : cut[k] = sent[k]
        BY <2>10
      <4>2. QED
        BY <1>1, <2>9, <3>1, <4>1, SeqEqual
    <3>2. CASE Len(cut) # Len(sent)
      <4>1. Len(cut) \in Nat /\ Len(sent) \in Nat
        BY <1>1, <2>9
      <4>2. \A k \in 1..Len(cut) : k \in 1..(Len(sent) - 1) /\ cut[k] = sent[k]
        BY <2>10, <3>2, <4>1
      <4>3. \A k \in 1..Len(cut) : cut[k][1] # "reason"
        BY <1>1, <4>2
      <4>4. Of("reason", cut) = <<>>
        BY <2>9, <4>3, OfNothing
      <4>5. QED
        BY <2>12, <4>4
    <3>3. QED
      BY <3>1, <3>2
  <2>13. Decode(Cut(bytes, i, j)).sent = cut
    BY <2>4, <2>6 DEF cut
  <2>14. Decode(Append(Cut(bytes, i, j), SubSeq(bytes, j + 1, n))).sent = sent
    BY <2>4, <2>7 DEF c, sent
  <2>15. QED
    BY <2>11, <2>12, <2>13, <2>14
<1>5. QED
  <2> HIDE DEF bytes, full, whole
  <2>1. QED
    BY <1>1, <1>3, <1>4 DEF bytes, whole

-----------------------------------------------------------------------------
(***************************************************************************)
(* The requests and the synopses: what is flattened stays in its place, so *)
(* a turn with calls and the turn with its results stay next to each other.*)
(***************************************************************************)

\* One more element of x makes the beginning of x longer by one.
LEMMA OneFurther ==
  ASSUME NEW A, NEW x \in Seq(A), NEW k \in 1..Len(x),
         NEW a \in Seq(A), Len(a) = k - 1, \A i \in 1..(k - 1) : a[i] = x[i]
  PROVE  LET b == a \o <<x[k]>> IN Len(b) = k /\ \A i \in 1..k : b[i] = x[i]
<1> DEFINE b == a \o <<x[k]>>
           c == <<x[k]>>
<1>1. c \in Seq(A) /\ Len(c) = 1 /\ c[1] = x[k]
  OBVIOUS
<1>2. b = a \o c
  OBVIOUS
<1> HIDE DEF b, c
<1>3. Len(b) = (k - 1) + 1 /\ \A i \in 1..((k - 1) + 1) : b[i] = IF i <= k - 1 THEN a[i] ELSE c[i - (k - 1)]
  <2>1. /\ Len(b) = Len(a) + Len(c)
        /\ \A i \in 1..(Len(a) + Len(c)) : b[i] = IF i <= Len(a) THEN a[i] ELSE c[i - Len(a)]
    BY <1>1, <1>2, ConcatProperties
  <2>2. QED
    BY <1>1, <2>1
<1>4. k \in Int /\ (k - 1) + 1 = k
  OBVIOUS
<1>5. ASSUME NEW i \in 1..k PROVE b[i] = x[i]
  <2>1. CASE i <= k - 1
    BY <1>3, <1>4, <2>1
  <2>2. CASE ~(i <= k - 1)
    <3>1. i = k /\ i - (k - 1) = 1
      BY <1>4, <2>2
    <3>2. b[i] = c[i - (k - 1)]
      BY <1>3, <1>4, <2>2
    <3>3. QED
      BY <1>1, <3>1, <3>2
  <2>3. QED
    BY <2>1, <2>2
<1>6. QED
  BY <1>3, <1>4, <1>5 DEF b

\* Some empty sequences, and then one element each.
LEMMA FlattenDrop ==
  ASSUME NEW A, NEW m \in Nat, NEW x \in Seq(A), NEW f, 
         f \in [1..(m + Len(x)) -> Seq(A)],
         \A k \in 1..m : f[k] = <<>>,
         \A k \in 1..Len(x) : f[m + k] = <<x[k]>>
  PROVE  FlattenSeq(f) = x
<1> DEFINE n == Len(x)
<1>1. n \in Nat /\ m + n \in Nat
  OBVIOUS
<1> HIDE DEF n
<1>2. PICK g : Together(g, A, m + n, f) /\ FlattenSeq(f) = g[m + n]
  <2>1. f \in [1..(m + n) -> Seq(A)]
    BY DEF n
  <2>2. QED
    BY <1>1, <2>1, FlattenFacts
<1>3. /\ g \in [0..(m + n) -> Seq(A)] /\ g[0] = <<>>
      /\ \A k \in 1..(m + n) : g[k] = g[k - 1] \o f[k]
  BY <1>2 DEF Together
<1> DEFINE Low == {k \in 0..m : g[k] = <<>>}
           High == {k \in 0..n : Len(g[m + k]) = k /\ \A i \in 1..k : g[m + k][i] = x[i]}
<1>4. \A k \in 0..m : k \in Low
  <2>1. 0 \in Low
    BY <1>3
  <2>2. ASSUME NEW k \in 1..m, k - 1 \in Low PROVE k \in Low
    <3>1. k \in 1..(m + n) /\ k \in 0..m
      BY <1>1
    <3>2. g[k] = <<>> \o <<>>
      BY <1>3, <2>2, <3>1
    <3>3. QED
      BY <3>1, <3>2
  <2> HIDE DEF Low
  <2>3. QED
    BY <2>1, <2>2, Climb
<1>5. \A k \in 0..n : k \in High
  <2>1. 0 \in High
    <3>1. g[m] = <<>>
      BY <1>4
    <3>2. QED
      BY <1>1, <3>1
  <2>2. ASSUME NEW k \in 1..n, k - 1 \in High PROVE k \in High
    <3> DEFINE a == g[m + (k - 1)]
               b == g[m + k]
    <3>1. m + k \in 1..(m + n) /\ (m + k) - 1 = m + (k - 1) /\ m + (k - 1) \in 0..(m + n) /\ k \in 0..n
      BY <1>1
    <3>2. b = a \o <<x[k]>>
      <4>1. f[m + k] = <<x[k]>>
        BY DEF n
      <4>2. g[m + k] = g[(m + k) - 1] \o f[m + k]
        BY <1>3, <3>1
      <4>3. QED
        BY <3>1, <4>1, <4>2
    <3>3. a \in Seq(A) /\ Len(a) = k - 1 /\ \A i \in 1..(k - 1) : a[i] = x[i]
      BY <1>3, <2>2, <3>1
    <3>4. x[k] \in A
      BY DEF n
    <3>5. Len(b) = k /\ \A i \in 1..k : b[i] = x[i]
      <4>1. k \in 1..Len(x)
        BY DEF n
      <4> HIDE DEF a, b, High, Low
      <4>2. QED
        BY <3>2, <3>3, <4>1, OneFurther
    <3>6. QED
      BY <3>1, <3>5
  <2> HIDE DEF High
  <2>3. QED
    BY <1>1, <2>1, <2>2, Climb
<1>6. g[m + n] \in Seq(A) /\ Len(g[m + n]) = n /\ \A i \in 1..n : g[m + n][i] = x[i]
  <2>1. n \in High
    BY <1>1, <1>5
  <2>2. m + n \in 0..(m + n)
    BY <1>1
  <2>3. QED
    BY <1>3, <2>1, <2>2
<1>7. g[m + n] = x
  BY <1>6, SeqEqual DEF n
<1>8. QED
  BY <1>2, <1>7

\* The conversation when a request or a synopsis is asked for.
Dialog ==
  /\ Len(messages) \in Nat /\ Len(messages) >= 1 /\ messages[1].role = "user"
  /\ messages[Len(messages)].role # "assistant"
  /\ \A k \in 1..Len(messages) :
       /\ messages[k].calls \in Seq(Call)
       /\ k = 1 \/ messages[k].role = "assistant" \/ messages[k].role = "tool"
       /\ k > 1 => /\ messages[k].calls # <<>>
                   /\ (messages[k].role = "assistant") # (messages[k - 1].role = "assistant")
       /\ k > 1 /\ messages[k].role = "tool" => messages[k].calls = messages[k - 1].calls

\* Between two turns the conversation is a dialog (Context, run_with_cancel).
LEMMA WaitingDialog ==
  ASSUME LoopInv, pc \in Waiting
  PROVE  Dialog
<1> DEFINE n == Len(messages)
<1>1. /\ messages \in Seq(Message) /\ messages # <<>>
      /\ Turns(messages, n) /\ messages[n].role # "assistant"
  BY WaitingFacts DEF Final
<1>2. n \in Nat /\ n >= 1
  BY <1>1
<1>3. \A k \in 1..n : messages[k].calls \in Seq(Call)
  <2> SUFFICES ASSUME NEW k \in 1..n PROVE messages[k].calls \in Seq(Call)
    OBVIOUS
  <2> DEFINE m == messages[k]
  <2>1. m \in Message
    BY <1>1
  <2> HIDE DEF m
  <2>2. m.calls \in Seq(Call)
    BY <2>1 DEF Message
  <2>3. QED
    BY <2>2 DEF m
<1>4. messages[1].role = "user" /\ \A k \in 2..n : MayFollow(messages[k - 1], messages[k])
  BY <1>1 DEF Turns
<1> HIDE DEF n
<1>5. ASSUME NEW k \in 1..n, k > 1
      PROVE  /\ messages[k].calls # <<>> /\ messages[k].role \in {"assistant", "tool"}
             /\ (messages[k].role = "assistant") # (messages[k - 1].role = "assistant")
             /\ messages[k].role = "tool" => messages[k].calls = messages[k - 1].calls
  <2>1. k \in 2..n /\ MayFollow(messages[k - 1], messages[k])
    BY <1>2, <1>4, <1>5
  <2>2. CASE messages[k].role = "assistant"
    BY <2>1, <2>2 DEF MayFollow
  <2>3. CASE messages[k].role # "assistant"
    <3>1. /\ messages[k].role = "tool" /\ messages[k - 1].role = "assistant"
          /\ messages[k].calls = messages[k - 1].calls
      BY <2>1, <2>3 DEF MayFollow
    <3>2. k - 1 \in 2..n
      BY <1>2, <1>4, <2>1, <3>1
    <3>3. MayFollow(messages[(k - 1) - 1], messages[k - 1])
      BY <1>4, <3>2
    <3>4. messages[k - 1].calls # <<>>
      BY <3>1, <3>3 DEF MayFollow
    <3>5. QED
      BY <3>1, <3>4
  <2>4. QED
    BY <2>2, <2>3
<1>6. QED
  BY <1>1, <1>2, <1>3, <1>4, <1>5 DEF Dialog, n

\* What message k is to the providers.
Sent(c, k, said, parts) ==
  /\ c.role = messages[k].role
  /\ messages[k].role = "assistant" => c.text = said /\ c.calls = messages[k].calls
  /\ messages[k].role # "assistant" => c.text = "words"
  /\ messages[k].role = "tool" =>
       /\ Len(c.results) = Len(messages[k].calls)
       /\ \A j \in 1..Len(messages[k].calls) :
            c.results[j].id = messages[k].calls[j] /\ c.results[j].content = parts

\* Every message is sent (Context::to_messages).
LEMMA ConversationFacts ==
  ASSUME Dialog, NEW said, NEW parts
  PROVE  /\ Len(ToMessages(said, parts)) = Len(messages)
         /\ \A k \in 1..Len(messages) : Sent(ToMessages(said, parts)[k], k, said, parts)
<1> DEFINE n == Len(messages)
           calls(k) == messages[k].calls
           results(k) == [j \in 1..Len(calls(k)) |-> [id |-> calls(k)[j], content |-> parts]]
           c(k) == [role    |-> messages[k].role,
                    text    |-> IF messages[k].role = "assistant" THEN said ELSE "words",
                    calls   |-> IF messages[k].role = "assistant" THEN calls(k) ELSE <<>>,
                    results |-> IF messages[k].role # "tool" THEN <<>> ELSE results(k)]
<1>1. n \in Nat /\ \A k \in 1..n : Len(calls(k)) \in Nat
  BY DEF Dialog
<1>2. ToMessages(said, parts) = [k \in 1..n |-> c(k)]
  BY DEF ToMessages
<1>3. ASSUME NEW k \in 1..n PROVE Sent(c(k), k, said, parts)
  <2>1. /\ Len(results(k)) = Len(calls(k))
        /\ \A j \in 1..Len(calls(k)) : results(k)[j].id = calls(k)[j] /\ results(k)[j].content = parts
    BY <1>1
  <2> HIDE DEF results
  <2>2. QED
    BY <2>1 DEF Sent
<1> HIDE DEF n, c
<1>4. QED
  BY <1>1, <1>2, <1>3 DEF n

-----------------------------------------------------------------------------
\* The ids in some content: of the results, and of the calls.
LEMMA IdsOfNone ==
  ASSUME NEW content, Len(content) \in Nat, NEW type,
         \A i \in 1..Len(content) : content[i].type # type
  PROVE  Ids(content, type) = <<>>
<1> DEFINE n == Len(content)
           x == <<>>
           f == [i \in 1..n |-> IF content[i].type = type THEN <<content[i].id>> ELSE <<>>]
<1>1. x \in Seq(Call) /\ Len(x) = 0 /\ n + Len(x) = n
  OBVIOUS
<1>2. f \in [1..n -> Seq(Call)] /\ \A i \in 1..n : f[i] = <<>>
  OBVIOUS
<1>3. FlattenSeq(f) = x
  <2> HIDE DEF f, x
  <2>1. \A i \in 1..Len(x) : f[n + i] = <<x[i]>>
    BY <1>1
  <2> HIDE DEF n
  <2>2. f \in [1..(n + Len(x)) -> Seq(Call)]
    BY <1>1, <1>2
  <2>3. n \in Nat /\ x \in Seq(Call)
    BY <1>1 DEF n
  <2>4. \A i \in 1..n : f[i] = <<>>
    BY <1>2
  <2>5. QED
    BY <2>1, <2>2, <2>3, <2>4, FlattenDrop
<1>4. QED
  BY <1>3 DEF Ids

\* The blocks after the first m are of this type, one for each of the calls.
CallBlocks(content, type, m, calls) ==
  /\ Len(content) = m + Len(calls)
  /\ \A i \in 1..m : content[i].type # type
  /\ \A i \in 1..Len(calls) : content[m + i].type = type /\ content[m + i].id = calls[i]

\* The ids are those of the calls.
LEMMA IdsOfAll ==
  ASSUME NEW content, NEW type, NEW calls \in Seq(Call), NEW m \in Nat,
         CallBlocks(content, type, m, calls)
  PROVE  Ids(content, type) = calls
<1> DEFINE n == Len(calls)
           f == [i \in 1..Len(content) |-> IF content[i].type = type THEN <<content[i].id>> ELSE <<>>]
<1>1. n \in Nat /\ Len(content) = m + n
  BY DEF CallBlocks
<1>2. \A i \in 1..m : f[i] = <<>>
  BY <1>1 DEF CallBlocks
<1>3. \A i \in 1..n : f[m + i] = <<calls[i]>>
  BY <1>1 DEF CallBlocks
<1>4. f \in [1..(m + n) -> Seq(Call)]
  <2>1. \A i \in 1..(m + n) : \/ i \in 1..m
                              \/ i - m \in 1..n /\ m + (i - m) = i
    BY <1>1
  <2>2. \A i \in 1..n : calls[i] \in Call
    OBVIOUS
  <2>3. \A c \in Call : <<c>> \in Seq(Call)
    BY Short, Zenon
  <2>4. <<>> \in Seq(Call)
    OBVIOUS
  <2>5. f = [i \in 1..(m + n) |-> f[i]]
    BY <1>1
  <2> HIDE DEF f, n
  <2>6. ASSUME NEW i \in 1..(m + n) PROVE f[i] \in Seq(Call)
    <3>1. CASE i \in 1..m
      BY <1>2, <2>4, <3>1
    <3>2. CASE i - m \in 1..n /\ m + (i - m) = i
      <4>1. f[i] = <<calls[i - m]>>
        BY <1>3, <3>2
      <4>2. QED
        BY <2>2, <2>3, <3>2, <4>1
    <3>3. QED
      BY <2>1, <3>1, <3>2
  <2>7. QED
    BY <2>5, <2>6
<1>5. FlattenSeq(f) = calls
  <2> HIDE DEF f
  <2>1. QED
    BY <1>2, <1>3, <1>4, FlattenDrop
<1>6. QED
  BY <1>5 DEF Ids

\* The content of one turn, as Anthropic's API wants it.
Content(k, content) ==
  /\ content # <<>> /\ Len(content) \in Nat /\ DOMAIN content = 1..Len(content)
  /\ \A i \in 1..Len(content) : content[i].type = "text" => content[i].text \notin {None, ""}
  /\ Ids(content, "tool_result") = IF messages[k].role = "tool" THEN messages[k].calls ELSE <<>>
  /\ Ids(content, "tool_use") = IF messages[k].role = "assistant" THEN messages[k].calls ELSE <<>>

\* The blocks of one message (build_request).
LEMMA ContentFacts ==
  ASSUME Dialog, NEW said \in Said, NEW parts, NEW k \in 1..Len(messages)
  PROVE  Content(k, AnthropicContent(ToMessages(said, parts)[k]))
<1> DEFINE m == ToMessages(said, parts)[k]
           calls == messages[k].calls
           n == Len(calls)
           content == AnthropicContent(m)
<1>1. /\ m.role = messages[k].role
      /\ messages[k].role = "assistant" => m.text = said /\ m.calls = calls
      /\ messages[k].role # "assistant" => m.text = "words"
      /\ messages[k].role = "tool" =>
           Len(m.results) = n /\ \A j \in 1..n : m.results[j].id = calls[j]
  <2>1. Sent(m, k, said, parts)
    BY ConversationFacts
  <2> HIDE DEF m
  <2>2. QED
    BY <2>1 DEF Sent
<1>2. /\ calls \in Seq(Call) /\ n \in Nat
      /\ messages[k].role \in {"user", "assistant", "tool"}
      /\ messages[k].role # "user" => n >= 1
  <2>1. calls \in Seq(Call)
    BY DEF Dialog
  <2>2. messages[1].role = "user" /\ (k > 1 => calls # <<>>) /\ (k > 1 \/ k = 1)
        /\ (k = 1 \/ messages[k].role \in {"assistant", "tool"})
    BY DEF Dialog
  <2> HIDE DEF calls
  <2>3. calls # <<>> => n >= 1
    BY <2>1
  <2>4. QED
    BY <2>1, <2>2, <2>3
<1> HIDE DEF m, calls, n
<1>3. CASE messages[k].role = "user"
  <2>1. content = <<[type |-> "text", text |-> "words"]>>
    BY <1>1, <1>3 DEF AnthropicContent
  <2> HIDE DEF content
  <2>2. /\ Len(content) = 1 /\ content # <<>> /\ DOMAIN content = 1..1
        /\ \A i \in 1..1 : content[i].type = "text" /\ content[i].text = "words"
    BY <2>1
  <2>3. Ids(content, "tool_result") = <<>> /\ Ids(content, "tool_use") = <<>>
    BY <2>2, IdsOfNone
  <2>4. \A i \in 1..Len(content) : content[i].text \notin {None, ""}
    BY <2>2 DEF None
  <2>5. Len(content) \in Nat /\ DOMAIN content = 1..Len(content)
    BY <2>2
  <2>6. messages[k].role # "tool" /\ messages[k].role # "assistant"
    BY <1>3
  <2>7. Content(k, content)
    BY <2>2, <2>3, <2>4, <2>5, <2>6, Zenon DEF Content
  <2>8. QED
    BY <2>7 DEF content, m
<1>4. CASE messages[k].role = "tool"
  <2>1. content = [j \in 1..Len(m.results) |-> [type |-> "tool_result", id |-> m.results[j].id, content |-> m.results[j].content]]
    BY <1>1, <1>4 DEF AnthropicContent
  <2>2. Len(m.results) = n /\ \A j \in 1..n : m.results[j].id = calls[j]
    BY <1>1, <1>4
  <2>3. Len(content) = n /\ \A j \in 1..n : content[j].type = "tool_result" /\ content[j].id = calls[j]
    BY <1>2, <2>1, <2>2
  <2>4. content # <<>> /\ DOMAIN content = 1..n
    <3>1. DOMAIN content = 1..n
      BY <2>1, <2>2
    <3>2. n >= 1 /\ Len(<<>>) = 0
      BY <1>2, <1>4
    <3>3. QED
      BY <1>2, <2>3, <3>1, <3>2
  <2> HIDE DEF content
  <2>5. Ids(content, "tool_use") = <<>>
    BY <1>2, <2>3, IdsOfNone
  <2>6. Ids(content, "tool_result") = calls
    <3>1. CallBlocks(content, "tool_result", 0, calls)
      BY <1>2, <2>3 DEF CallBlocks, n
    <3>2. QED
      BY <1>2, <3>1, IdsOfAll
  <2>7. Content(k, content)
    BY <1>2, <1>4, <2>3, <2>4, <2>5, <2>6 DEF Content, calls
  <2>8. QED
    BY <2>7 DEF content, m
<1>5. CASE messages[k].role = "assistant"
  <2> DEFINE a == Texts(said)
             b == [j \in 1..n |-> [type |-> "tool_use", id |-> calls[j]]]
             t == Len(a)
             x == [type |-> "text", text |-> said]
             A == {x} \cup {[type |-> "tool_use", id |-> c] : c \in Call}
  <2>1. content = a \o b
    <3>1. m.role = "assistant" /\ m.text = said /\ m.calls = calls
      BY <1>1, <1>5
    <3>2. QED
      BY <3>1 DEF AnthropicContent, n
  <2>2. /\ a \in Seq(A) /\ t \in Nat
        /\ \A i \in 1..t : a[i].type = "text" /\ a[i].text \notin {None, ""}
    <3>1. CASE said \in {None, ""}
      <4>1. a = <<>>
        BY <3>1 DEF Texts
      <4>2. QED
        BY <4>1
    <3>2. CASE said \notin {None, ""}
      <4>1. a = <<x>>
        BY <3>2 DEF Texts
      <4>2. x \in A /\ x.type = "text" /\ x.text = said
        OBVIOUS
      <4> HIDE DEF x, a, A
      <4>3. a \in Seq(A) /\ Len(a) = 1 /\ a[1] = x
        <5>1. <<x>> \in Seq(A) /\ Len(<<x>>) = 1
          BY <4>2, Short, Zenon
        <5>2. QED
          BY <4>1, <5>1
      <4>4. t = 1 /\ \A i \in 1..t : a[i] = x
        BY <4>3 DEF t
      <4>5. \A i \in 1..t : a[i].type = "text" /\ a[i].text = said
        BY <4>2, <4>4
      <4>6. t \in Nat
        BY <4>4
      <4>7. \A i \in 1..t : a[i].text \notin {None, ""}
        BY <3>2, <4>5, Zenon
      <4>8. QED
        BY <4>3, <4>5, <4>6, <4>7, Zenon
    <3>3. QED
      BY <3>1, <3>2
  <2>3. b \in Seq(A) /\ Len(b) = n /\ \A i \in 1..n : b[i].type = "tool_use" /\ b[i].id = calls[i]
    <3>1. \A i \in 1..n : calls[i] \in Call
      BY <1>2 DEF n
    <3>2. \A i \in 1..n : b[i] \in A
      BY <3>1
    <3>3. b \in [1..n -> A]
      BY <3>2
    <3>4. \A i \in 1..n : b[i].type = "tool_use" /\ b[i].id = calls[i]
      OBVIOUS
    <3> HIDE DEF A, b
    <3>5. QED
      BY <1>2, <3>3, <3>4
  <2> HIDE DEF t, a, b, x, A, content
  <2>4. /\ Len(content) = t + n /\ DOMAIN content = 1..(t + n)
        /\ \A i \in 1..(t + n) : content[i] = IF i <= t THEN a[i] ELSE b[i - t]
    <3>0. a \in Seq(A) /\ b \in Seq(A) /\ Len(a) = t /\ Len(b) = n
      BY <2>2, <2>3 DEF t
    <3>1. a \o b \in Seq(A) /\ Len(a \o b) = t + n
          /\ \A i \in 1..(t + n) : (a \o b)[i] = IF i <= t THEN a[i] ELSE b[i - t]
      BY <3>0, ConcatProperties
    <3>2. content \in Seq(A)
      BY <2>1, <3>1
    <3>3. DOMAIN content = 1..Len(content)
      BY <3>2
    <3>4. QED
      BY <2>1, <3>1, <3>3
  <2>0. t \in Nat /\ n \in Nat
    BY <1>2, <2>2
  <2>5. \A i \in 1..t : content[i].type = "text" /\ content[i].text \notin {None, ""}
    <3> SUFFICES ASSUME NEW i \in 1..t PROVE content[i] = a[i]
      BY <2>2
    <3>1. i \in 1..(t + n) /\ i <= t
      BY <2>0
    <3>2. QED
      BY <2>4, <3>1
  <2>6. \A i \in 1..n : content[t + i].type = "tool_use" /\ content[t + i].id = calls[i]
    <3> SUFFICES ASSUME NEW i \in 1..n PROVE content[t + i] = b[i]
      BY <2>3
    <3>1. t + i \in 1..(t + n) /\ ~(t + i <= t) /\ (t + i) - t = i
      BY <2>0
    <3>2. QED
      BY <2>4, <3>1
  <2>7. \A i \in 1..Len(content) : \/ i \in 1..t
                                   \/ i - t \in 1..n /\ t + (i - t) = i
    BY <2>0, <2>4
  <2>8. Ids(content, "tool_result") = <<>>
    <3>1. ASSUME NEW i \in 1..Len(content)
          PROVE  content[i].type = "text" \/ content[i].type = "tool_use"
      <4>1. CASE i \in 1..t
        BY <2>5, <4>1
      <4>2. CASE i - t \in 1..n /\ t + (i - t) = i
        <5>1. content[t + (i - t)].type = "tool_use"
          BY <2>6, <4>2
        <5>2. QED
          BY <4>2, <5>1
      <4>3. QED
        BY <2>7, <4>1, <4>2
    <3>2. QED
      BY <2>0, <2>4, <3>1, IdsOfNone
  <2>9. Ids(content, "tool_use") = calls
    <3>1. CallBlocks(content, "tool_use", t, calls)
      BY <2>4, <2>5, <2>6 DEF CallBlocks, n
    <3>2. QED
      BY <1>2, <2>0, <3>1, IdsOfAll
  <2>10. Len(content) \in Nat /\ content # <<>>
    <3>1. Len(content) >= 1
      BY <1>2, <1>5, <2>0, <2>4
    <3>2. QED
      BY <2>0, <2>4, <3>1
  <2>11. ASSUME NEW i \in 1..Len(content), content[i].type = "text"
         PROVE  content[i].text \notin {None, ""}
    <3>1. CASE i \in 1..t
      BY <2>5, <3>1
    <3>2. CASE i - t \in 1..n /\ t + (i - t) = i
      <4>1. content[t + (i - t)].type = "tool_use"
        BY <2>6, <3>2
      <4>2. QED
        BY <2>11, <3>2, <4>1
    <3>3. QED
      BY <2>7, <3>1, <3>2
  <2>12. Content(k, content)
    BY <1>5, <2>4, <2>8, <2>9, <2>10, <2>11 DEF Content, calls
  <2>13. QED
    BY <2>12 DEF content, m
<1>6. QED
  BY <1>2, <1>3, <1>4, <1>5

\* Anthropic's API takes the request.
LEMMA AnthropicTakesIt ==
  ASSUME Dialog, NEW said \in Said, NEW parts
  PROVE  AnthropicAccepts(AnthropicMessages(ToMessages(said, parts)))
<1> DEFINE n == Len(messages)
           c == ToMessages(said, parts)
           x == [k \in 1..n |-> [role    |-> IF c[k].role = "assistant" THEN "assistant" ELSE "user",
                                 content |-> AnthropicContent(c[k])]]
           A == {x[k] : k \in 1..n}
           f == [k \in 1..Len(c) |-> IF c[k].role = "system" THEN <<>>
                   ELSE <<[role    |-> IF c[k].role = "assistant" THEN "assistant" ELSE "user",
                           content |-> AnthropicContent(c[k])]>>]
<1>1. n \in Nat /\ n >= 1
  BY DEF Dialog
<1>2. Len(c) = n /\ \A k \in 1..n : c[k].role = messages[k].role
  BY <1>1, ConversationFacts DEF Sent
<1>3. \A k \in 1..n : c[k].role # "system"
  BY <1>2 DEF Dialog
<1> HIDE DEF c
<1>4. \A k \in 1..n : f[k] = <<x[k]>>
  BY <1>2, <1>3
<1>5. \A k \in 1..n : x[k].role = (IF messages[k].role = "assistant" THEN "assistant" ELSE "user")
                      /\ x[k].content = AnthropicContent(c[k])
  BY <1>2
<1>6. AnthropicMessages(c) = FlattenSeq(f)
  BY DEF AnthropicMessages
<1>7. FlattenSeq(f) = x /\ Len(x) = n
  <2>1. x \in [1..n -> A]
    OBVIOUS
  <2>2. f = [k \in 1..n |-> f[k]]
    BY <1>2
  <2> HIDE DEF x, A, f
  <2>3. x \in Seq(A) /\ Len(x) = n
    BY <1>1, <2>1
  <2>4. \A k \in 1..n : <<x[k]>> \in Seq(A)
    <3> SUFFICES ASSUME NEW k \in 1..n PROVE <<x[k]>> \in Seq(A)
      OBVIOUS
    <3>1. x[k] \in A
      BY <2>1
    <3>2. QED
      BY <3>1, Short, Zenon
  <2>5. f \in [1..n -> Seq(A)]
    BY <1>4, <2>2, <2>4
  <2> HIDE DEF n
  <2>6. f \in [1..(0 + Len(x)) -> Seq(A)] /\ \A k \in 1..Len(x) : f[0 + k] = <<x[k]>>
    BY <1>1, <1>4, <2>3, <2>5
  <2>7. \A k \in 1..0 : f[k] = <<>>
    OBVIOUS
  <2>8. QED
    BY <2>3, <2>6, <2>7, FlattenDrop
<1>8. \A k \in 1..n : Content(k, x[k].content)
  BY <1>5, ContentFacts DEF c
<1> HIDE DEF x, f
<1>9. x[1].role = "user" /\ Last(x).role = "user"
  BY <1>1, <1>5, <1>7 DEF Dialog, Last
<1>10. ASSUME NEW k \in 1..n
       PROVE  /\ x[k].content # <<>>
              /\ k > 1 => x[k].role # x[k - 1].role
              /\ \A b \in ToSet(x[k].content) : b.type = "text" => b.text \notin {None, ""}
              /\ Ids(x[k].content, "tool_result") =
                   IF k = 1 THEN <<>> ELSE Ids(x[k - 1].content, "tool_use")
  <2>1. Content(k, x[k].content)
    BY <1>8
  <2>2. k > 1 => x[k].role # x[k - 1].role
    <3> HAVE k > 1
    <3>1. k - 1 \in 1..n
      BY <1>1
    <3>2. (messages[k].role = "assistant") # (messages[k - 1].role = "assistant")
      BY DEF Dialog
    <3>3. QED
      BY <1>5, <3>1, <3>2
  <2>3. \A b \in ToSet(x[k].content) : b.type = "text" => b.text \notin {None, ""}
    <3> DEFINE content == x[k].content
    <3>1. DOMAIN content = 1..Len(content)
      BY <1>5, <2>1 DEF Content
    <3>2. QED
      BY <2>1, <3>1 DEF Content, ToSet
  <2>4. Ids(x[k].content, "tool_result") =
                   IF k = 1 THEN <<>> ELSE Ids(x[k - 1].content, "tool_use")
    <3>1. CASE k = 1
      BY <2>1, <3>1 DEF Content, Dialog
    <3>2. CASE k # 1
      <4>1. k - 1 \in 1..n /\ k > 1
        BY <1>1, <3>2
      <4>2. Content(k - 1, x[k - 1].content)
        BY <1>8, <4>1
      <4>3. /\ (messages[k].role = "assistant") # (messages[k - 1].role = "assistant")
            /\ messages[k].role = "tool" \/ messages[k].role = "assistant"
            /\ messages[k].role = "tool" => messages[k].calls = messages[k - 1].calls
        BY <3>2, <4>1 DEF Dialog
      <4>4. QED
        BY <2>1, <3>2, <4>2, <4>3 DEF Content
    <3>3. QED
      BY <3>1, <3>2
  <2>5. QED
    BY <2>1, <2>2, <2>3, <2>4 DEF Content
<1>11. AnthropicAccepts(x)
  BY <1>7, <1>9, <1>10 DEF AnthropicAccepts
<1>12. QED
  BY <1>6, <1>7, <1>11 DEF c

\* What is at which place of the sequences up to the mth, put together.
Placed(g, f, m) ==
  /\ \A k \in 1..m : \A j \in 1..Len(f[k]) :
       Len(g[k - 1]) + j \in 1..Len(g[m]) /\ g[m][Len(g[k - 1]) + j] = f[k][j]
  /\ \A i \in 1..Len(g[m]) : \E k \in 1..m : \E j \in 1..Len(f[k]) : i = Len(g[k - 1]) + j

\* One more sequence is put behind the others.
LEMMA PlacedFurther ==
  ASSUME NEW A, NEW n \in Nat, NEW f \in [1..n -> Seq(A)], NEW g, Together(g, A, n, f),
         NEW m \in 1..n, Placed(g, f, m - 1)
  PROVE  Placed(g, f, m)
<1>1. \A k \in 0..n : g[k] \in Seq(A) /\ Len(g[k]) \in Nat
  <2>1. g \in [0..n -> Seq(A)]
    BY DEF Together
  <2>2. QED
    BY <2>1
<1>2. \A k \in 1..n : f[k] \in Seq(A) /\ Len(f[k]) \in Nat
  OBVIOUS
<1> DEFINE a == g[m - 1]
           b == g[m]
<1>3. /\ a \in Seq(A) /\ Len(a) \in Nat /\ b = a \o f[m] /\ f[m] \in Seq(A) /\ Len(f[m]) \in Nat
  <2>1. m - 1 \in 0..n
    OBVIOUS
  <2>2. QED
    BY <1>1, <1>2, <2>1 DEF Together
<1> HIDE DEF a, b
<1>4. /\ Len(b) = Len(a) + Len(f[m])
      /\ \A i \in 1..(Len(a) + Len(f[m])) : b[i] = IF i <= Len(a) THEN a[i] ELSE f[m][i - Len(a)]
  BY <1>3, ConcatProperties
<1>5. ASSUME NEW k \in 1..m, NEW j \in 1..Len(f[k])
      PROVE  Len(g[k - 1]) + j \in 1..Len(b) /\ b[Len(g[k - 1]) + j] = f[k][j]
  <2>1. CASE k = m
    <3>1. g[k - 1] = a
      BY <2>1 DEF a
    <3>2. j \in 1..Len(f[m])
      BY <2>1
    <3>3. /\ Len(a) + j \in 1..(Len(a) + Len(f[m])) /\ ~(Len(a) + j <= Len(a))
          /\ (Len(a) + j) - Len(a) = j
      BY <1>3, <3>2
    <3>4. QED
      BY <1>4, <2>1, <3>1, <3>3
  <2>2. CASE k # m
    <3>1. k \in 1..(m - 1)
      BY <2>2
    <3> DEFINE i == Len(g[k - 1]) + j
    <3>2. i \in 1..Len(a) /\ a[i] = f[k][j]
      BY <3>1 DEF Placed, a
    <3> HIDE DEF i
    <3>3. i \in 1..(Len(a) + Len(f[m])) /\ i <= Len(a)
      BY <1>3, <3>2
    <3>4. i \in 1..Len(b) /\ b[i] = f[k][j]
      BY <1>4, <3>2, <3>3
    <3>5. QED
      BY <3>4 DEF i
  <2>3. QED
    BY <2>1, <2>2
<1>6. ASSUME NEW i \in 1..Len(b)
      PROVE  \E k \in 1..m : \E j \in 1..Len(f[k]) : i = Len(g[k - 1]) + j
  <2>1. CASE i <= Len(a)
    <3>1. i \in 1..Len(a)
      BY <1>3, <1>4, <2>1
    <3>2. \E k \in 1..(m - 1) : \E j \in 1..Len(f[k]) : i = Len(g[k - 1]) + j
      BY <3>1 DEF Placed, a
    <3>3. QED
      BY <3>2
  <2>2. CASE ~(i <= Len(a))
    <3>1. i - Len(a) \in 1..Len(f[m]) /\ i = Len(a) + (i - Len(a))
      BY <1>3, <1>4, <2>2
    <3>2. m \in 1..m /\ Len(g[m - 1]) = Len(a)
      BY DEF a
    <3>3. QED
      BY <3>1, <3>2
  <2>3. QED
    BY <2>1, <2>2
<1>7. QED
  BY <1>5, <1>6 DEF Placed, b

\* Where each sequence begins in all of them put together.
Places(at, n, f, flat) ==
  /\ at[1] = 0 /\ at[n + 1] = Len(flat)
  /\ \A k \in 1..(n + 1) : at[k] \in Nat
  /\ \A k \in 1..n : at[k + 1] = at[k] + Len(f[k])
  /\ \A k \in 1..n : \A j \in 1..Len(f[k]) :
       at[k] + j \in 1..Len(flat) /\ flat[at[k] + j] = f[k][j]
  /\ \A i \in 1..Len(flat) : \E k \in 1..n : \E j \in 1..Len(f[k]) : i = at[k] + j

\* Every sequence has its place in what FlattenSeq puts together.
LEMMA FlattenPlaces ==
  ASSUME NEW A, NEW n \in Nat, NEW f \in [1..n -> Seq(A)]
  PROVE  FlattenSeq(f) \in Seq(A) /\ \E at : Places(at, n, f, FlattenSeq(f))
<1>1. PICK g : Together(g, A, n, f) /\ FlattenSeq(f) = g[n]
  BY FlattenFacts
<1>2. g[0] = <<>> /\ \A k \in 0..n : g[k] \in Seq(A) /\ Len(g[k]) \in Nat
  BY <1>1 DEF Together
<1>3. Placed(g, f, n)
  <2> DEFINE Good == {m \in 0..n : Placed(g, f, m)}
  <2>1. 0 \in Good
    BY <1>2 DEF Placed
  <2>2. ASSUME NEW m \in 1..n, m - 1 \in Good PROVE m \in Good
    BY <1>1, <2>2, PlacedFurther
  <2> HIDE DEF Good
  <2>3. \A m \in 0..n : m \in Good
    BY <2>1, <2>2, Climb
  <2>4. n \in Good
    BY <2>3
  <2>5. QED
    BY <2>4 DEF Good
<1> DEFINE at == [k \in 1..(n + 1) |-> Len(g[k - 1])]
<1>4. \A k \in 1..(n + 1) : k - 1 \in 0..n /\ at[k] = Len(g[k - 1])
  OBVIOUS
<1>5. at[1] = 0 /\ at[n + 1] = Len(g[n]) /\ \A k \in 1..(n + 1) : at[k] \in Nat
  <2>1. 1 \in 1..(n + 1) /\ n + 1 \in 1..(n + 1) /\ 1 - 1 = 0 /\ (n + 1) - 1 = n
    OBVIOUS
  <2> HIDE DEF at
  <2>2. at[1] = Len(g[0]) /\ at[n + 1] = Len(g[n])
    BY <1>4, <2>1
  <2>3. \A k \in 1..(n + 1) : at[k] \in Nat
    BY <1>2, <1>4
  <2>4. Len(<<>>) = 0
    OBVIOUS
  <2>5. QED
    BY <1>2, <2>2, <2>3, <2>4
<1>6. ASSUME NEW k \in 1..n PROVE at[k + 1] = at[k] + Len(f[k])
  <2>1. k \in 1..(n + 1) /\ k + 1 \in 1..(n + 1) /\ (k + 1) - 1 = k /\ k - 1 \in 0..n
    OBVIOUS
  <2>2. g[k] = g[k - 1] \o f[k] /\ g[k - 1] \in Seq(A) /\ f[k] \in Seq(A)
    BY <1>1, <1>2, <2>1 DEF Together
  <2> HIDE DEF at
  <2>3. Len(g[k]) = Len(g[k - 1]) + Len(f[k])
    BY <2>2, ConcatProperties
  <2>4. at[k] = Len(g[k - 1]) /\ at[k + 1] = Len(g[k])
    BY <1>4, <2>1
  <2>5. QED
    BY <2>3, <2>4
<1> HIDE DEF at
<1>7. \A k \in 1..n : at[k] = Len(g[k - 1])
  BY <1>4
<1>8. Places(at, n, f, g[n])
  <2>1. \A k \in 1..n : \A j \in 1..Len(f[k]) :
          at[k] + j \in 1..Len(g[n]) /\ g[n][at[k] + j] = f[k][j]
    BY <1>3, <1>7 DEF Placed
  <2>2. ASSUME NEW i \in 1..Len(g[n]) PROVE \E k \in 1..n : \E j \in 1..Len(f[k]) : i = at[k] + j
    <3>1. PICK k \in 1..n : \E j \in 1..Len(f[k]) : i = Len(g[k - 1]) + j
      BY <1>3 DEF Placed
    <3>2. QED
      BY <1>7, <3>1
  <2>3. QED
    BY <1>5, <1>6, <2>1, <2>2 DEF Places
<1>9. n \in 0..n
  OBVIOUS
<1>10. QED
  BY <1>1, <1>2, <1>8, <1>9

\* What message k of the conversation is to a provider of chats.
ChatOf(chats, k, named) ==
  /\ Len(chats) = IF messages[k].role = "tool" THEN Len(messages[k].calls) ELSE 1
  /\ \A j \in 1..Len(chats) :
       /\ chats[j].role = messages[k].role
       /\ messages[k].role # "assistant" => Len(chats[j].calls) = 0
       /\ messages[k].role = "assistant" => Len(chats[j].calls) = Len(messages[k].calls)
       /\ messages[k].role = "assistant" /\ named => chats[j].calls = messages[k].calls
       /\ messages[k].role = "tool" /\ named => chats[j].id = messages[k].calls[j]

\* One chat of a request is where it should be.
ChatFits(p, i, named) ==
  LET m == Len(p[i].calls) IN
  /\ i + m <= Len(p)
  /\ \A j \in 1..m : /\ p[i + j].role = "tool"
                     /\ named => p[i + j].id = p[i].calls[j]
  /\ m > 0 /\ i + m < Len(p) => p[i + m + 1].role # "tool"
  /\ p[i].role = "tool" => p[i - 1].role \in {"tool", "assistant"}

\* p begins with a system prompt and then has the chats of f, those of message k
\* after the first at[k] + 1.
Request(p, at, f, named) ==
  LET n == Len(messages) IN
  /\ Len(p) \in Nat /\ at[1] = 0 /\ at[n + 1] + 1 = Len(p)
  /\ p[1].role = "system" /\ Len(p[1].calls) = 0
  /\ \A k \in 1..(n + 1) : at[k] \in Nat
  /\ \A k \in 1..n : at[k + 1] = at[k] + Len(f[k]) /\ ChatOf(f[k], k, named)
  /\ \A k \in 1..n : \A j \in 1..Len(f[k]) :
       (at[k] + 1) + j \in 1..Len(p) /\ p[(at[k] + 1) + j] = f[k][j]

\* The results of a turn with calls are right behind it, one for each call.
LEMMA AnswersFollow ==
  ASSUME Dialog, NEW p, NEW at, NEW f, NEW named, Request(p, at, f, named),
         NEW k \in 1..Len(messages), messages[k].role = "assistant"
  PROVE  ChatFits(p, at[k] + 2, named)
<1> DEFINE n == Len(messages)
           i == at[k] + 2
           m == Len(messages[k].calls)
<1>0. n \in Nat /\ n >= 1
  BY DEF Dialog
<1>1. /\ messages[k].calls \in Seq(Call) /\ messages[k].calls # <<>>
      /\ k < n /\ k + 1 \in 1..n /\ k > 1
  BY <1>0 DEF Dialog
<1>2. /\ messages[k + 1].role = "tool" /\ messages[k + 1].calls = messages[k].calls
  <2>1. k + 1 > 1 /\ (k + 1) - 1 = k
    BY <1>1
  <2>2. QED
    BY <1>1, <2>1 DEF Dialog
<1>3. m \in Nat /\ m >= 1
  BY <1>1
<1>4. /\ ChatOf(f[k], k, named) /\ Len(f[k]) = 1
      /\ ChatOf(f[k + 1], k + 1, named) /\ Len(f[k + 1]) = m
  BY <1>1, <1>2 DEF Request, ChatOf
<1>5. /\ at[k] \in Nat /\ at[k + 1] = at[k] + 1 /\ at[k + 2] = at[k + 1] + m
      /\ Len(p) \in Nat
  <2>1. k + 1 \in 1..n /\ (k + 1) + 1 = k + 2 /\ k \in 1..(n + 1)
    BY <1>0, <1>1
  <2>2. at[k + 1] = at[k] + Len(f[k]) /\ at[(k + 1) + 1] = at[k + 1] + Len(f[k + 1])
    BY <1>1 DEF Request
  <2>3. QED
    BY <1>4, <2>1, <2>2 DEF Request
<1> HIDE DEF m, n
<1>6. /\ Len(p[i].calls) = m /\ p[i].role = "assistant"
      /\ named => p[i].calls = messages[k].calls
  <2>1. 1 \in 1..Len(f[k]) /\ (at[k] + 1) + 1 = i
    BY <1>4, <1>5
  <2>2. p[i] = f[k][1]
    BY <2>1 DEF Request
  <2>3. QED
    BY <1>4, <2>1, <2>2 DEF ChatOf, m
<1>7. ASSUME NEW j \in 1..m
      PROVE  /\ i + j \in 1..Len(p) /\ p[i + j].role = "tool"
             /\ named => p[i + j].id = messages[k].calls[j]
  <2>1. j \in 1..Len(f[k + 1]) /\ (at[k + 1] + 1) + j = i + j
    BY <1>3, <1>4, <1>5
  <2>2. (at[k + 1] + 1) + j \in 1..Len(p) /\ p[(at[k + 1] + 1) + j] = f[k + 1][j]
    BY <1>1, <2>1 DEF Request, n
  <2>3. QED
    BY <1>2, <1>4, <2>1, <2>2 DEF ChatOf
<1>8. i + m <= Len(p)
  <2>1. m \in 1..m
    BY <1>3
  <2>2. i + m \in 1..Len(p)
    BY <1>7, <2>1
  <2>3. QED
    BY <1>5, <2>2
<1>9. i + m < Len(p) => p[i + m + 1].role # "tool"
  <2> HAVE i + m < Len(p)
  <2>1. k + 2 \in 1..n
    <3>1. CASE k + 1 = n
      <4>1. at[k + 2] + 1 = Len(p)
        BY <3>1 DEF Request, n
      <4>2. QED
        BY <1>3, <1>5, <4>1
    <3>2. QED
      BY <1>0, <1>1, <3>1 DEF n
  <2>2. messages[k + 2].role = "assistant"
    <3>1. k + 2 > 1 /\ (k + 2) - 1 = k + 1
      BY <1>1
    <3>2. (messages[k + 2].role = "assistant") # (messages[(k + 2) - 1].role = "assistant")
      BY <2>1, <3>1 DEF Dialog, n
    <3>3. QED
      BY <1>2, <3>1, <3>2
  <2>3. ChatOf(f[k + 2], k + 2, named)
    BY <2>1 DEF Request, n
  <2>4. 1 \in 1..Len(f[k + 2])
    BY <2>2, <2>3 DEF ChatOf
  <2>5. p[(at[k + 2] + 1) + 1] = f[k + 2][1] /\ (at[k + 2] + 1) + 1 = i + m + 1
    <3>1. p[(at[k + 2] + 1) + 1] = f[k + 2][1]
      BY <2>1, <2>4 DEF Request, n
    <3>2. (at[k + 2] + 1) + 1 = i + m + 1
      BY <1>3, <1>5
    <3>3. QED
      BY <3>1, <3>2
  <2>6. QED
    BY <2>2, <2>3, <2>4, <2>5 DEF ChatOf
<1> HIDE DEF i
<1>10. ChatFits(p, i, named)
  <2>1. \A j \in 1..m : p[i + j].role = "tool" /\ (named => p[i + j].id = p[i].calls[j])
    BY <1>6, <1>7
  <2>2. Len(p[i].calls) = m /\ p[i].role # "tool"
    BY <1>6
  <2>3. QED
    BY <1>8, <1>9, <2>1, <2>2 DEF ChatFits
<1>11. QED
  BY <1>10 DEF i

\* A prompt or a result calls nothing, and a result is behind a turn or a result.
LEMMA OtherChatFits ==
  ASSUME Dialog, NEW p, NEW at, NEW f, NEW named, Request(p, at, f, named),
         NEW k \in 1..Len(messages), messages[k].role # "assistant", NEW j \in 1..Len(f[k])
  PROVE  ChatFits(p, (at[k] + 1) + j, named)
<1> DEFINE n == Len(messages)
           i == (at[k] + 1) + j
<1>1. /\ ChatOf(f[k], k, named) /\ i \in 1..Len(p) /\ p[i] = f[k][j]
      /\ Len(p) \in Nat /\ at[k] \in Nat /\ n \in Nat /\ k \in 1..n /\ Len(f[k]) \in Nat
  <2>1. n \in Nat /\ k \in 1..(n + 1)
    BY DEF Dialog
  <2>2. ChatOf(f[k], k, named)
    BY DEF Request
  <2>3. messages[k].calls \in Seq(Call)
    BY DEF Dialog
  <2>4. Len(f[k]) \in Nat
    BY <2>2, <2>3 DEF ChatOf
  <2>5. QED
    BY <2>1, <2>2, <2>4 DEF Request
<1>2. Len(p[i].calls) = 0 /\ p[i].role = messages[k].role
  BY <1>1 DEF ChatOf
<1>3. p[i].role = "tool" => p[i - 1].role \in {"tool", "assistant"}
  <2> HAVE p[i].role = "tool"
  <2>1. CASE j = 1
    <3>1. k > 1 /\ k - 1 \in 1..n
      BY <1>1, <1>2 DEF Dialog
    <3>2. messages[k - 1].role = "assistant"
      BY <1>2, <3>1 DEF Dialog
    <3>3. ChatOf(f[k - 1], k - 1, named) /\ at[(k - 1) + 1] = at[k - 1] + Len(f[k - 1])
      BY <3>1 DEF Request
    <3>4. Len(f[k - 1]) = 1
      BY <3>2, <3>3 DEF ChatOf
    <3>5. k - 1 \in 1..(n + 1) /\ (k - 1) + 1 = k
      BY <1>1, <3>1
    <3>6. at[k - 1] \in Nat
      BY <3>5 DEF Request
    <3>7. (at[k - 1] + 1) + 1 = i - 1
      BY <1>1, <2>1, <3>3, <3>4, <3>5, <3>6
    <3>8. 1 \in 1..Len(f[k - 1])
      BY <3>4
    <3>9. p[(at[k - 1] + 1) + 1] = f[k - 1][1]
      BY <3>1, <3>8 DEF Request
    <3>10. QED
      BY <3>2, <3>3, <3>7, <3>8, <3>9 DEF ChatOf
  <2>2. CASE j # 1
    <3>1. j - 1 \in 1..Len(f[k]) /\ (at[k] + 1) + (j - 1) = i - 1
      <4>1. at[k] \in Nat /\ Len(f[k]) \in Nat
        BY <1>1
      <4>2. QED
        BY <2>2, <4>1
    <3>2. p[(at[k] + 1) + (j - 1)] = f[k][j - 1]
      BY <3>1 DEF Request
    <3>3. QED
      BY <1>1, <1>2, <3>1, <3>2 DEF ChatOf
  <2>3. QED
    BY <2>1, <2>2
<1>4. i + 0 <= Len(p) /\ 1..0 = {}
  BY <1>1
<1> HIDE DEF i
<1>5. ChatFits(p, i, named)
  BY <1>1, <1>2, <1>3, <1>4 DEF ChatFits
<1>6. QED
  BY <1>5 DEF i

\* A provider of chats takes the request.
LEMMA ChatsTaken ==
  ASSUME Dialog, NEW A, NEW f \in [1..Len(messages) -> Seq(A)], NEW named,
         NEW system \in A, system.role = "system", Len(system.calls) = 0,
         \A k \in 1..Len(messages) : ChatOf(f[k], k, named)
  PROVE  ChatAccepts(<<system>> \o FlattenSeq(f), named)
<1> DEFINE n == Len(messages)
           flat == FlattenSeq(f)
           first == <<system>>
           p == first \o flat
<1>1. n \in Nat
  BY DEF Dialog
<1>2. flat \in Seq(A) /\ \E at : Places(at, n, f, flat)
  <2> HIDE DEF n, flat
  <2>1. f \in [1..n -> Seq(A)]
    BY DEF n
  <2>2. QED
    BY <1>1, <2>1, FlattenPlaces DEF flat
<1>3. PICK at : Places(at, n, f, flat)
  BY <1>2
<1>4. first \in Seq(A) /\ Len(first) = 1 /\ first[1] = system
  OBVIOUS
<1> HIDE DEF flat, first, p
<1>5. /\ Len(flat) \in Nat /\ Len(p) = 1 + Len(flat) /\ p[1] = system
      /\ \A i \in 1..Len(flat) : p[1 + i] = flat[i]
  <2>1. /\ Len(p) = 1 + Len(flat) /\ Len(flat) \in Nat
        /\ \A i \in 1..(1 + Len(flat)) : p[i] = IF i <= 1 THEN first[i] ELSE flat[i - 1]
    <3>1. Len(first \o flat) = Len(first) + Len(flat)
          /\ \A i \in 1..(Len(first) + Len(flat)) :
               (first \o flat)[i] = IF i <= Len(first) THEN first[i] ELSE flat[i - Len(first)]
      BY <1>2, <1>4, ConcatProperties
    <3>2. Len(flat) \in Nat
      BY <1>2
    <3>3. QED
      BY <1>4, <3>1, <3>2 DEF p
  <2>2. \A i \in 1..Len(flat) : 1 + i \in 1..(1 + Len(flat)) /\ ~(1 + i <= 1) /\ (1 + i) - 1 = i
    BY <2>1
  <2>3. 1 \in 1..(1 + Len(flat)) /\ 1 <= 1
    BY <2>1
  <2>4. QED
    BY <1>4, <2>1, <2>2, <2>3
<1>6. ASSUME NEW k \in 1..n, NEW j \in 1..Len(f[k])
      PROVE  (at[k] + 1) + j \in 1..Len(p) /\ p[(at[k] + 1) + j] = f[k][j]
  <2>1. at[k] + j \in 1..Len(flat) /\ flat[at[k] + j] = f[k][j]
    BY <1>3 DEF Places
  <2>2. k \in 1..(n + 1) /\ Len(f[k]) \in Nat
    BY <1>1
  <2>3. at[k] \in Nat
    BY <1>3, <2>2 DEF Places
  <2>4. 1 + (at[k] + j) = (at[k] + 1) + j /\ 1 + (at[k] + j) \in 1..(1 + Len(flat))
    BY <1>5, <2>1, <2>2, <2>3, SMTT(30)
  <2>5. QED
    BY <1>5, <2>1, <2>4
<1>7. Request(p, at, f, named)
  <2>1. /\ at[1] = 0 /\ at[n + 1] = Len(flat)
        /\ \A k \in 1..(n + 1) : at[k] \in Nat
        /\ \A k \in 1..n : at[k + 1] = at[k] + Len(f[k])
    BY <1>3 DEF Places
  <2>2. at[n + 1] + 1 = Len(p) /\ Len(p) \in Nat
    BY <1>5, <2>1
  <2>3. p[1].role = "system" /\ Len(p[1].calls) = 0
    BY <1>5
  <2>4. QED
    BY <1>6, <2>1, <2>2, <2>3 DEF Request
<1>8. ASSUME NEW i \in 1..Len(p) PROVE ChatFits(p, i, named)
  <2>1. CASE i = 1
    <3>1. Len(p[1].calls) = 0 /\ p[1].role = "system" /\ Len(p) \in Nat
      BY <1>7 DEF Request
    <3>2. 1 + 0 <= Len(p) /\ 1..0 = {} /\ "system" # "tool"
      BY <2>1, <3>1
    <3>3. QED
      BY <2>1, <3>1, <3>2 DEF ChatFits
  <2>2. CASE i # 1
    <3>1. i - 1 \in 1..Len(flat)
      BY <1>5, <2>2
    <3>2. PICK k \in 1..n : \E j \in 1..Len(f[k]) : i - 1 = at[k] + j
      BY <1>3, <3>1 DEF Places
    <3>3. PICK j \in 1..Len(f[k]) : i - 1 = at[k] + j
      BY <3>2
    <3>4. k \in 1..(n + 1) /\ Len(f[k]) \in Nat
      BY <1>1
    <3>5. at[k] \in Nat
      BY <1>3, <3>4 DEF Places
    <3>6. i = (at[k] + 1) + j
      <4> DEFINE t == at[k]
      <4>1. i \in Int /\ j \in Int /\ t \in Int
        BY <1>5, <3>4, <3>5
      <4>2. i - 1 = t + j
        BY <3>3
      <4> HIDE DEF t
      <4>3. i = (t + 1) + j
        BY <4>1, <4>2
      <4>4. QED
        BY <4>3 DEF t
    <3>7. CASE messages[k].role = "assistant"
      <4>1. ChatOf(f[k], k, named)
        BY <1>7 DEF Request
      <4>2. Len(f[k]) = 1
        BY <3>7, <4>1 DEF ChatOf
      <4>3. i = at[k] + 2
        BY <3>5, <3>6, <4>2
      <4>4. QED
        BY <1>7, <3>7, <4>3, AnswersFollow
    <3>8. CASE messages[k].role # "assistant"
      BY <1>7, <3>6, <3>8, OtherChatFits
    <3>9. QED
      BY <3>7, <3>8
  <2>3. QED
    BY <2>1, <2>2
<1>9. p[1].role = "system"
  BY <1>5
<1>10. ChatAccepts(p, named)
  BY <1>8, <1>9 DEF ChatAccepts, ChatFits
<1>11. QED
  BY <1>10 DEF p, first, flat

\* A finite list of anything.
List(x) == Len(x) \in Nat /\ x = [j \in 1..Len(x) |-> x[j]]

\* Some lists are sequences over one set.
LEMMA ListsOf ==
  ASSUME NEW n \in Nat, NEW f, f = [k \in 1..n |-> f[k]], \A k \in 1..n : List(f[k]),
         NEW other
  PROVE  \E A : other \in A /\ f \in [1..n -> Seq(A)]
<1> DEFINE A == {other} \cup UNION {{f[k][j] : j \in 1..Len(f[k])} : k \in 1..n}
<1>1. ASSUME NEW k \in 1..n PROVE f[k] \in Seq(A)
  <2> DEFINE x == f[k]
             m == Len(x)
  <2>1. m \in Nat /\ x = [j \in 1..m |-> x[j]]
    BY DEF List
  <2>2. \A j \in 1..m : x[j] \in A
    OBVIOUS
  <2> HIDE DEF A, x, m
  <2>3. x \in [1..m -> A]
    BY <2>1, <2>2
  <2>4. QED
    BY <2>1, <2>3 DEF x
<1>2. other \in A
  OBVIOUS
<1> HIDE DEF A
<1>3. f \in [1..n -> Seq(A)]
  BY <1>1
<1>4. QED
  BY <1>2, <1>3

\* The same, whatever the chats are made of.
LEMMA ListsTaken ==
  ASSUME Dialog, NEW f, f = [k \in 1..Len(messages) |-> f[k]], NEW named,
         NEW system, system.role = "system", Len(system.calls) = 0,
         \A k \in 1..Len(messages) : List(f[k]) /\ ChatOf(f[k], k, named)
  PROVE  ChatAccepts(<<system>> \o FlattenSeq(f), named)
<1> DEFINE n == Len(messages)
<1>1. n \in Nat
  BY DEF Dialog
<1>2. \E A : system \in A /\ f \in [1..n -> Seq(A)]
  <2> HIDE DEF n
  <2>1. f = [k \in 1..n |-> f[k]] /\ \A k \in 1..n : List(f[k])
    BY DEF n
  <2>2. QED
    BY <1>1, <2>1, ListsOf
<1>3. PICK A : system \in A /\ f \in [1..n -> Seq(A)]
  BY <1>2
<1>4. QED
  BY <1>3, ChatsTaken

\* The chats of one message (to_openai_messages).
LEMMA OpenAIOf ==
  ASSUME Dialog, NEW said, NEW parts, NEW k \in 1..Len(messages)
  PROVE  LET x == OpenAIChats(ToMessages(said, parts)[k]) IN List(x) /\ ChatOf(x, k, TRUE)
<1> DEFINE m == ToMessages(said, parts)[k]
           calls == messages[k].calls
           x == OpenAIChats(m)
<1>1. Sent(m, k, said, parts)
  BY ConversationFacts
<1> HIDE DEF m
<1>2. messages[k].role \in {"user", "assistant", "tool"} /\ calls \in Seq(Call)
  BY DEF Dialog
<1>3. CASE messages[k].role = "user"
  <2> DEFINE chat == Chat("user", m.text, <<>>, None)
  <2>1. x = <<chat>>
    BY <1>1, <1>3 DEF OpenAIChats, Sent
  <2>2. chat.role = "user" /\ Len(chat.calls) = 0
    BY DEF Chat
  <2> HIDE DEF chat, x
  <2>3. Len(x) = 1 /\ x = [j \in 1..1 |-> x[j]] /\ x[1] = chat
    BY <2>1
  <2>4. \A j \in 1..1 : x[j].role = "user" /\ Len(x[j].calls) = 0
    BY <2>2, <2>3
  <2>5. List(x) /\ ChatOf(x, k, TRUE)
    BY <1>3, <2>3, <2>4 DEF List, ChatOf
  <2>6. QED
    BY <2>5 DEF x, m
<1>4. CASE messages[k].role = "assistant"
  <2> DEFINE chat == Chat("assistant", m.text, m.calls, None)
  <2>1. x = <<chat>> /\ m.calls = calls
    BY <1>1, <1>4 DEF OpenAIChats, Sent
  <2>2. chat.role = "assistant" /\ chat.calls = m.calls
    BY DEF Chat
  <2> HIDE DEF chat, x
  <2>3. Len(x) = 1 /\ x = [j \in 1..1 |-> x[j]] /\ x[1] = chat
    BY <2>1
  <2>4. \A j \in 1..1 : x[j].role = "assistant" /\ x[j].calls = messages[k].calls
    BY <2>1, <2>2, <2>3
  <2>5. List(x) /\ ChatOf(x, k, TRUE)
    BY <1>4, <2>3, <2>4 DEF List, ChatOf
  <2>6. QED
    BY <2>5 DEF x, m
<1>5. CASE messages[k].role = "tool"
  <2> DEFINE n == Len(calls)
             chat(j) == Chat("tool", ToolContentText(m.results[j].content), <<>>, m.results[j].id)
  <2>0. n \in Nat
    BY <1>2
  <2>1. /\ x = [j \in 1..n |-> chat(j)] /\ \A j \in 1..n : m.results[j].id = calls[j]
    BY <1>1, <1>5 DEF OpenAIChats, Sent
  <2>2. \A j \in 1..n : chat(j).role = "tool" /\ Len(chat(j).calls) = 0 /\ chat(j).id = m.results[j].id
    BY DEF Chat
  <2> HIDE DEF chat, x, n
  <2>3. Len(x) = n /\ x = [j \in 1..n |-> x[j]] /\ \A j \in 1..n : x[j] = chat(j)
    BY <2>0, <2>1
  <2>4. \A j \in 1..n : x[j].role = "tool" /\ Len(x[j].calls) = 0 /\ x[j].id = messages[k].calls[j]
    BY <2>1, <2>2, <2>3
  <2>5. List(x) /\ ChatOf(x, k, TRUE)
    BY <1>5, <2>0, <2>3, <2>4 DEF List, ChatOf, n
  <2>6. QED
    BY <2>5 DEF x, m
<1>6. QED
  BY <1>2, <1>3, <1>4, <1>5

\* The chats of one message, without ids (to_ollama_messages).
LEMMA OllamaOf ==
  ASSUME Dialog, NEW said, NEW parts, NEW k \in 1..Len(messages)
  PROVE  LET x == OllamaChats(ToMessages(said, parts)[k]) IN List(x) /\ ChatOf(x, k, FALSE)
<1> DEFINE m == ToMessages(said, parts)[k]
           calls == messages[k].calls
           x == OllamaChats(m)
<1>1. Sent(m, k, said, parts)
  BY ConversationFacts
<1> HIDE DEF m
<1>2. messages[k].role \in {"user", "assistant", "tool"} /\ calls \in Seq(Call)
  BY DEF Dialog
<1>3. CASE messages[k].role = "user"
  <2> DEFINE chat == Chat("user", m.text, <<>>, None)
  <2>1. x = <<chat>>
    BY <1>1, <1>3 DEF OllamaChats, Sent
  <2>2. chat.role = "user" /\ Len(chat.calls) = 0
    BY DEF Chat
  <2> HIDE DEF chat, x
  <2>3. Len(x) = 1 /\ x = [j \in 1..1 |-> x[j]] /\ x[1] = chat
    BY <2>1
  <2>4. \A j \in 1..1 : x[j].role = "user" /\ Len(x[j].calls) = 0
    BY <2>2, <2>3
  <2>5. List(x) /\ ChatOf(x, k, FALSE)
    BY <1>3, <2>3, <2>4 DEF List, ChatOf
  <2>6. QED
    BY <2>5 DEF x, m
<1>4. CASE messages[k].role = "assistant"
  <2> DEFINE ids == [j \in 1..Len(m.calls) |-> None]
             chat == Chat("assistant", IF m.text = None THEN "" ELSE m.text, ids, None)
  <2>1. x = <<chat>> /\ m.calls = calls
    BY <1>1, <1>4 DEF OllamaChats, Sent
  <2>2. chat.role = "assistant" /\ chat.calls = ids
    BY DEF Chat
  <2>3. Len(ids) = Len(calls)
    <3>1. Len(m.calls) \in Nat /\ Len(m.calls) = Len(calls)
      <4> HIDE DEF x, chat
      <4>1. m.calls = calls
        BY <2>1
      <4>2. QED
        BY <1>2, <4>1
    <3>2. ids = [j \in 1..Len(calls) |-> None] /\ Len(calls) \in Nat
      BY <1>2, <3>1
    <3>3. QED
      BY <3>2
  <2> HIDE DEF chat, x, ids
  <2>4. Len(x) = 1 /\ x = [j \in 1..1 |-> x[j]] /\ x[1] = chat
    BY <2>1
  <2>5. \A j \in 1..1 : x[j].role = "assistant" /\ Len(x[j].calls) = Len(messages[k].calls)
    BY <2>2, <2>3, <2>4
  <2>6. List(x) /\ ChatOf(x, k, FALSE)
    BY <1>4, <2>4, <2>5 DEF List, ChatOf
  <2>7. QED
    BY <2>6 DEF x, m
<1>5. CASE messages[k].role = "tool"
  <2> DEFINE n == Len(calls)
             chat(j) == Chat("tool", ToolContentText(m.results[j].content), <<>>, None)
  <2>0. n \in Nat
    BY <1>2
  <2>1. x = [j \in 1..n |-> chat(j)]
    BY <1>1, <1>5 DEF OllamaChats, Sent
  <2>2. \A j \in 1..n : chat(j).role = "tool" /\ Len(chat(j).calls) = 0
    BY DEF Chat
  <2> HIDE DEF chat, x, n
  <2>3. Len(x) = n /\ x = [j \in 1..n |-> x[j]] /\ \A j \in 1..n : x[j] = chat(j)
    BY <2>0, <2>1
  <2>4. \A j \in 1..n : x[j].role = "tool" /\ Len(x[j].calls) = 0
    BY <2>1, <2>2, <2>3
  <2>5. List(x) /\ ChatOf(x, k, FALSE)
    BY <1>5, <2>0, <2>3, <2>4 DEF List, ChatOf, n
  <2>6. QED
    BY <2>5 DEF x, m
<1>6. QED
  BY <1>2, <1>3, <1>4, <1>5

\* Every provider takes the request.
LEMMA RequestsTaken ==
  ASSUME LoopInv
  PROVE  RequestFaithful
<1> SUFFICES ASSUME InFlight, NEW said \in Said, NEW parts \in Contents
    PROVE  LET conversation == ToMessages(said, parts) IN
           /\ AnthropicAccepts(AnthropicMessages(conversation))
           /\ ChatAccepts(ToOpenAIMessages("prompt", conversation), TRUE)
           /\ ChatAccepts(ToOllamaMessages("prompt", conversation), FALSE)
  BY DEF RequestFaithful
<1> DEFINE c == ToMessages(said, parts)
           n == Len(messages)
           system == Chat("system", "prompt", <<>>, None)
<1>1. Dialog
  BY WaitingDialog DEF InFlight, Waiting
<1>2. Len(c) = n
  BY <1>1, ConversationFacts
<1>3. system.role = "system" /\ Len(system.calls) = 0 /\ "prompt" # None
  BY DEF Chat, None
<1>4. AnthropicAccepts(AnthropicMessages(c))
  BY <1>1, AnthropicTakesIt
<1> HIDE DEF system
<1>5. ChatAccepts(ToOpenAIMessages("prompt", c), TRUE)
  <2> DEFINE f == [k \in 1..n |-> OpenAIChats(c[k])]
  <2>1. ToOpenAIMessages("prompt", c) = <<system>> \o FlattenSeq(f)
    BY <1>2, <1>3 DEF ToOpenAIMessages, system
  <2>2. \A k \in 1..n : List(OpenAIChats(c[k])) /\ ChatOf(OpenAIChats(c[k]), k, TRUE)
    BY <1>1, OpenAIOf
  <2> HIDE DEF c
  <2>3. f = [k \in 1..n |-> f[k]] /\ \A k \in 1..n : List(f[k]) /\ ChatOf(f[k], k, TRUE)
    BY <2>2
  <2> HIDE DEF f
  <2>4. QED
    BY <1>1, <1>3, <2>1, <2>3, ListsTaken
<1>6. ChatAccepts(ToOllamaMessages("prompt", c), FALSE)
  <2> DEFINE f == [k \in 1..n |-> OllamaChats(c[k])]
  <2>1. ToOllamaMessages("prompt", c) = <<system>> \o FlattenSeq(f)
    BY <1>2, <1>3 DEF ToOllamaMessages, system
  <2>2. \A k \in 1..n : List(OllamaChats(c[k])) /\ ChatOf(OllamaChats(c[k]), k, FALSE)
    BY <1>1, OllamaOf
  <2> HIDE DEF c
  <2>3. f = [k \in 1..n |-> f[k]] /\ \A k \in 1..n : List(f[k]) /\ ChatOf(f[k], k, FALSE)
    BY <2>2
  <2> HIDE DEF f
  <2>4. QED
    BY <1>1, <1>3, <2>1, <2>3, ListsTaken
<1>7. QED
  BY <1>4, <1>5, <1>6

\* Two lists, one behind the other.
LEMMA JoinLists ==
  ASSUME NEW a, NEW b, List(a), List(b)
  PROVE  /\ List(a \o b)
         /\ \A i \in 1..Len(a \o b) : \/ i \in 1..Len(a) /\ (a \o b)[i] = a[i]
                                      \/ i - Len(a) \in 1..Len(b) /\ (a \o b)[i] = b[i - Len(a)]
         /\ \A i \in 1..Len(b) : Len(a) + i \in 1..Len(a \o b) /\ (a \o b)[Len(a) + i] = b[i]
<1> DEFINE A == {a[i] : i \in 1..Len(a)} \cup {b[i] : i \in 1..Len(b)}
           m == Len(a)
           n == Len(b)
           c == a \o b
<1>1. m \in Nat /\ n \in Nat /\ a = [i \in 1..m |-> a[i]] /\ b = [i \in 1..n |-> b[i]]
  BY DEF List
<1>2. (\A i \in 1..m : a[i] \in A) /\ (\A i \in 1..n : b[i] \in A)
  OBVIOUS
<1>3. a \in Seq(A) /\ b \in Seq(A)
  <2> HIDE DEF A, m, n
  <2>1. a \in [1..m -> A] /\ b \in [1..n -> A]
    BY <1>1, <1>2
  <2>2. QED
    BY <1>1, <2>1
<1> HIDE DEF A
<1>4. /\ c \in Seq(A) /\ Len(c) = m + n
      /\ \A i \in 1..(m + n) : c[i] = IF i <= m THEN a[i] ELSE b[i - m]
  BY <1>3, ConcatProperties
<1> HIDE DEF m, n, c
<1>5. List(c)
  <2>1. Len(c) \in Nat /\ c = [i \in 1..Len(c) |-> c[i]]
    BY <1>4
  <2>2. QED
    BY <2>1 DEF List
<1>6. ASSUME NEW i \in 1..Len(c)
      PROVE  \/ i \in 1..m /\ c[i] = a[i]
             \/ i - m \in 1..n /\ c[i] = b[i - m]
  BY <1>1, <1>4
<1>7. ASSUME NEW i \in 1..n PROVE m + i \in 1..Len(c) /\ c[m + i] = b[i]
  <2>1. m + i \in 1..(m + n) /\ ~(m + i <= m) /\ (m + i) - m = i
    BY <1>1
  <2>2. QED
    BY <1>4, <2>1
<1>8. QED
  BY <1>5, <1>6, <1>7 DEF c, m, n

\* A part keeps what fits and counts the rest (truncated).
LEMMA PartFacts ==
  ASSUME NEW what, NEW s \in Nat
  PROVE  LET p == Part(what, s) IN
         p.what = what /\ p.kept <= MaxRendered /\ p.kept + p.missing = s
<1> DEFINE S == {s, MaxRendered}
<1>1. MaxRendered \in Nat
  BY WireAssumption
<1>2. \E x \in S : \A y \in S : x <= y
  <2>1. CASE s <= MaxRendered
    BY <1>1, <2>1
  <2>2. CASE ~(s <= MaxRendered)
    BY <1>1, <2>2
  <2>3. QED
    BY <2>1, <2>2
<1>3. Min(S) \in S /\ \A y \in S : Min(S) <= y
  <2> HIDE DEF S
  <2>1. QED
    BY <1>2 DEF Min
<1>4. Min(S) \in Nat /\ Min(S) <= MaxRendered /\ Min(S) + (s - Min(S)) = s
  BY <1>1, <1>3
<1>5. QED
  BY <1>4 DEF Part

\* Every call of some, and no other, is told of, as a call or as a result.
Tells(x, kind, calls) ==
  /\ \A j \in 1..Len(x) : \A c \in Call : x[j].what = <<kind, c>> =>
       \E i \in 1..Len(calls) : c = calls[i]
  /\ \A i \in 1..Len(calls) : \E j \in 1..Len(x) : x[j].what = <<kind, calls[i]>>

\* The calls of message k, if it has this role.
CallsOf(k, role) == IF messages[k].role = role THEN messages[k].calls ELSE <<>>

\* What the summarizer is told of message k, in parts of size s.
Rendered(x, k, s) ==
  /\ \A j \in 1..Len(x) : x[j].kept <= MaxRendered /\ x[j].kept + x[j].missing = s
  /\ Tells(x, "call", CallsOf(k, "assistant")) /\ Tells(x, "result", CallsOf(k, "tool"))

\* A text that names no call tells of none.
LEMMA TellsNone ==
  ASSUME NEW x, NEW kind, \A j \in 1..Len(x) : \A c \in Call : x[j].what # <<kind, c>>
  PROVE  Tells(x, kind, <<>>)
BY DEF Tells

\* One word is no pair.
LEMMA OneWord ==
  ASSUME NEW word, NEW kind, NEW c
  PROVE  <<word>> # <<kind, c>>
<1>1. Len(<<word>>) = 1 /\ Len(<<kind, c>>) = 2
  OBVIOUS
<1>2. QED
  BY <1>1

\* What the summarizer is told of one message (render_message_into).
LEMMA RenderFacts ==
  ASSUME Dialog, NEW said, NEW parts, NEW s \in Nat, NEW k \in 1..Len(messages)
  PROVE  LET x == RenderMessage(ToMessages(said, parts)[k], s) IN List(x) /\ Rendered(x, k, s)
<1> DEFINE m == ToMessages(said, parts)[k]
           calls == messages[k].calls
           n == Len(calls)
           x == RenderMessage(m, s)
<1>1. Sent(m, k, said, parts)
  BY ConversationFacts
<1> HIDE DEF m
<1>2. messages[k].role \in {"user", "assistant", "tool"} /\ calls \in Seq(Call) /\ n \in Nat
  BY DEF Dialog
<1>3. ASSUME NEW what
      PROVE  /\ Part(what, s).what = what /\ Part(what, s).kept <= MaxRendered
             /\ Part(what, s).kept + Part(what, s).missing = s
  BY PartFacts
<1>4. CASE messages[k].role = "user"
  <2> DEFINE part == Part(<<"user">>, s)
  <2>1. x = <<part>>
    BY <1>1, <1>4 DEF RenderMessage, Sent
  <2> HIDE DEF part, x
  <2>2. Len(x) = 1 /\ x = [j \in 1..1 |-> x[j]] /\ x[1] = part
    BY <2>1
  <2>3. /\ part.what = <<"user">> /\ part.kept <= MaxRendered
        /\ part.kept + part.missing = s
    BY <1>3 DEF part
  <2>4. \A j \in 1..Len(x) : /\ x[j].what = <<"user">>
                             /\ x[j].kept <= MaxRendered /\ x[j].kept + x[j].missing = s
    BY <2>2, <2>3
  <2>5. \A j \in 1..Len(x) : \A c \in Call : x[j].what # <<"call", c>> /\ x[j].what # <<"result", c>>
    BY <2>4, OneWord
  <2>6. Tells(x, "call", <<>>) /\ Tells(x, "result", <<>>)
    BY <2>5, TellsNone
  <2>7. CallsOf(k, "assistant") = <<>> /\ CallsOf(k, "tool") = <<>>
    BY <1>4 DEF CallsOf
  <2>8. List(x) /\ Rendered(x, k, s)
    BY <2>2, <2>4, <2>6, <2>7 DEF List, Rendered
  <2>9. QED
    BY <2>8 DEF x, m
<1>5. CASE messages[k].role = "tool"
  <2> DEFINE part(j) == Part(<<"result", calls[j]>>, s)
  <2>1. x = [j \in 1..n |-> part(j)]
    <3>1. x = [j \in 1..Len(m.results) |-> Part(<<"result", m.results[j].id>>, s)]
      BY <1>1, <1>5 DEF RenderMessage, Sent
    <3>2. Len(m.results) = n /\ \A j \in 1..n : m.results[j].id = calls[j]
      BY <1>1, <1>5 DEF Sent
    <3> HIDE DEF x, calls
    <3>3. QED
      BY <3>1, <3>2
  <2>2. \A j \in 1..n : /\ part(j).what = <<"result", calls[j]>> /\ part(j).kept <= MaxRendered
                        /\ part(j).kept + part(j).missing = s
    BY <1>3
  <2> HIDE DEF part, x
  <2>3. Len(x) = n /\ x = [j \in 1..n |-> x[j]] /\ \A j \in 1..n : x[j] = part(j)
    BY <1>2, <2>1
  <2>4. \A j \in 1..Len(x) : /\ x[j].what = <<"result", calls[j]>>
                             /\ x[j].kept <= MaxRendered /\ x[j].kept + x[j].missing = s
    BY <2>2, <2>3
  <2>5. \A j \in 1..Len(x) : \A c \in Call : x[j].what # <<"call", c>>
    BY <2>4
  <2>6. Tells(x, "call", <<>>)
    BY <2>5, TellsNone
  <2>7. Tells(x, "result", calls)
    <3>1. ASSUME NEW j \in 1..Len(x), NEW c \in Call, x[j].what = <<"result", c>>
          PROVE  j \in 1..n /\ c = calls[j]
      <4>1. <<"result", c>> = <<"result", calls[j]>>
        BY <2>4, <3>1
      <4>2. QED
        BY <2>3, <4>1
    <3>2. \A i \in 1..n : i \in 1..Len(x) /\ x[i].what = <<"result", calls[i]>>
      BY <2>3, <2>4
    <3>3. QED
      BY <3>1, <3>2 DEF Tells
  <2>8. CallsOf(k, "assistant") = <<>> /\ CallsOf(k, "tool") = calls
    BY <1>5 DEF CallsOf
  <2> HIDE DEF calls, n
  <2>9. List(x) /\ Rendered(x, k, s)
    BY <1>2, <2>3, <2>4, <2>6, <2>7, <2>8 DEF List, Rendered
  <2>10. QED
    BY <2>9 DEF x, m
<1>6. CASE messages[k].role = "assistant"
  <2> DEFINE t == Len(Texts(m.text))
             a == [j \in 1..t |-> Part(<<"assistant">>, s)]
             part(j) == Part(<<"call", calls[j]>>, s)
             b == [j \in 1..n |-> part(j)]
  <2>1. x = a \o b
    BY <1>1, <1>6 DEF RenderMessage, Sent
  <2>2. t \in Nat
    BY DEF Texts
  <2> HIDE DEF t
  <2>3. /\ List(a) /\ Len(a) = t
        /\ \A j \in 1..t : /\ a[j].what = <<"assistant">> /\ a[j].kept <= MaxRendered
                           /\ a[j].kept + a[j].missing = s
    <3>1. Len(a) = t /\ a = [j \in 1..t |-> a[j]]
      BY <2>2
    <3>2. QED
      BY <1>3, <2>2, <3>1 DEF List
  <2>4. \A j \in 1..n : /\ part(j).what = <<"call", calls[j]>> /\ part(j).kept <= MaxRendered
                        /\ part(j).kept + part(j).missing = s
    BY <1>3
  <2> HIDE DEF part, a, x
  <2>5. /\ List(b) /\ Len(b) = n
        /\ \A j \in 1..n : /\ b[j].what = <<"call", calls[j]>> /\ b[j].kept <= MaxRendered
                           /\ b[j].kept + b[j].missing = s
    <3>1. Len(b) = n /\ b = [j \in 1..n |-> b[j]] /\ \A j \in 1..n : b[j] = part(j)
      BY <1>2
    <3> HIDE DEF b
    <3>2. QED
      BY <1>2, <2>4, <3>1 DEF List
  <2> HIDE DEF b, n
  <2>6. /\ List(x)
        /\ \A i \in 1..Len(x) : \/ i \in 1..t /\ x[i] = a[i]
                                \/ i - t \in 1..n /\ x[i] = b[i - t]
        /\ \A i \in 1..n : t + i \in 1..Len(x) /\ x[t + i] = b[i]
    <3>1. List(a) /\ List(b) /\ Len(a) = t /\ Len(b) = n
      BY <2>3, <2>5
    <3>2. /\ List(a \o b)
          /\ \A i \in 1..Len(a \o b) : \/ i \in 1..Len(a) /\ (a \o b)[i] = a[i]
                                       \/ i - Len(a) \in 1..Len(b) /\ (a \o b)[i] = b[i - Len(a)]
          /\ \A i \in 1..Len(b) : /\ Len(a) + i \in 1..Len(a \o b)
                                  /\ (a \o b)[Len(a) + i] = b[i]
      BY <3>1, JoinLists
    <3>3. QED
      BY <2>1, <3>1, <3>2, Zenon
  <2>7. \A i \in 1..Len(x) : x[i].kept <= MaxRendered /\ x[i].kept + x[i].missing = s
    BY <2>3, <2>5, <2>6
  <2>8. \A i \in 1..Len(x) : \A c \in Call : x[i].what # <<"result", c>>
    <3> SUFFICES ASSUME NEW i \in 1..Len(x), NEW c \in Call PROVE x[i].what # <<"result", c>>
      OBVIOUS
    <3>1. CASE i \in 1..t /\ x[i] = a[i]
      BY <2>3, <3>1, OneWord
    <3>2. CASE i - t \in 1..n /\ x[i] = b[i - t]
      BY <2>5, <3>2
    <3>3. QED
      BY <2>6, <3>1, <3>2
  <2>9. Tells(x, "result", <<>>)
    BY <2>8, TellsNone
  <2>10. Tells(x, "call", calls)
    <3>1. ASSUME NEW i \in 1..Len(x), NEW c \in Call, x[i].what = <<"call", c>>
          PROVE  \E j \in 1..n : c = calls[j]
      <4>1. CASE i \in 1..t /\ x[i] = a[i]
        BY <2>3, <3>1, <4>1, OneWord
      <4>2. CASE i - t \in 1..n /\ x[i] = b[i - t]
        BY <2>5, <3>1, <4>2
      <4>3. QED
        BY <2>6, <4>1, <4>2
    <3>2. \A i \in 1..n : t + i \in 1..Len(x) /\ x[t + i].what = <<"call", calls[i]>>
      BY <2>5, <2>6
    <3>3. QED
      BY <3>1, <3>2 DEF Tells, n
  <2>11. CallsOf(k, "tool") = <<>> /\ CallsOf(k, "assistant") = calls
    BY <1>6 DEF CallsOf
  <2> HIDE DEF calls
  <2>12. List(x) /\ Rendered(x, k, s)
    BY <2>6, <2>7, <2>9, <2>10, <2>11 DEF Rendered
  <2>13. QED
    BY <2>12 DEF x, m
<1>7. QED
  BY <1>2, <1>4, <1>5, <1>6

\* The first message, the task or a synopsis, calls nothing.
Opened == messages[1].calls = <<>>

\* The task calls nothing.
LEMMA InitOpened == Init => Opened
BY DEF Init, Opened

\* No step gives the first message a call.
LEMMA NextOpened == LoopInv /\ Opened /\ [Next]_vars => Opened'
<1> SUFFICES ASSUME LoopInv, Opened, [Next]_vars PROVE Opened'
  OBVIOUS
<1> DEFINE n == Len(messages)
<1>0. messages \in Seq(Message) /\ messages # <<>> /\ n \in Nat /\ n >= 1
  BY DEF LoopInv, TypeOK
<1>1. CASE UNCHANGED messages
  BY <1>1 DEF Opened
<1>2. CASE Summarized
  <2> DEFINE first == [role |-> "user", calls |-> <<>>, of |-> UNION {messages[k].of : k \in 1..PickCutoff}]
             rest == SubSeq(messages, PickCutoff + 1, n)
  <2>1. messages' = <<first>> \o rest
    BY <1>2 DEF Summarized, ApplySummary
  <2>2. first.calls = <<>>
    OBVIOUS
  <2> HIDE DEF first
  <2>3. (<<first>> \o rest)[1] = first
    <3> DEFINE c == PickCutoff
               S == Message \cup {first}
    <3>1. c \in 2..(n - 1)
      <4>1. pc \in Waiting /\ c # 0
        BY <1>2 DEF Summarized, LoopInv, InRound, Waiting
      <4>2. QED
        BY <4>1, WaitingFacts, CutoffFacts
    <3> HIDE DEF c, n
    <3>2. rest \in Seq(S)
      <4>1. c + 1 \in 1..n /\ \A i \in 1..n : messages[i] \in S
        BY <1>0, <3>1 DEF n
      <4>2. messages \in Seq(S)
        BY <1>0
      <4>3. QED
        BY <1>0, <4>1, <4>2 DEF c
    <3>3. <<first>> \in Seq(S) /\ Len(<<first>>) = 1 /\ <<first>>[1] = first
      OBVIOUS
    <3> HIDE DEF rest, S
    <3>4. QED
      BY <3>2, <3>3, ConcatProperties
  <2>4. QED
    BY <2>1, <2>2, <2>3 DEF Opened
<1>3. CASE ModelCalls
  BY <1>0, <1>3 DEF ModelCalls, Opened
<1>4. CASE Denied \/ ToolReturns
  <2>1. messages' = AddToolResult(NextCall) /\ pc \in Working
    BY <1>4 DEF Denied, ToolReturns, Working
  <2>2. Final.role = "tool" => n > 2
    BY <2>1 DEF LoopInv, Shape, Answering, Working
  <2>3. CASE Final.role = "tool"
    BY <1>0, <2>1, <2>2, <2>3 DEF AddToolResult, Opened
  <2>4. CASE Final.role # "tool"
    BY <1>0, <2>1, <2>4 DEF AddToolResult, Opened
  <2>5. QED
    BY <2>3, <2>4
<1>5. QED
  BY <1>1, <1>2, <1>3, <1>4
     DEF Next, Compact, Converse, Execute, vars, Cancel, SkipCompaction, AskSummary,
         SummaryAbandoned, SendRequest, CancelledAtModel, ModelFails, ModelIsDone,
         StartTool, BatchDone, OutOfIterations

-----------------------------------------------------------------------------
\* The summarizer is told of whole turns.
LEMMA SummariesTold ==
  ASSUME LoopInv, Opened
  PROVE  SummaryFaithful
<1> SUFFICES ASSUME pc = "summary", NEW said \in Said, NEW s \in 0..(MaxRendered + 1)
    PROVE  LET conversation == ToMessages(said, <<"text">>)
               prompt == RenderForSummary(conversation, PickCutoff, s)
               told(kind) == {c \in Call : \E k \in DOMAIN prompt : prompt[k].what = <<kind, c>>}
               replaced == UNION {ToSet(messages[k].calls) : k \in 1..PickCutoff} IN
           /\ told("call") = replaced /\ told("result") = replaced
           /\ \A k \in DOMAIN prompt : /\ prompt[k].kept <= MaxRendered
                                       /\ prompt[k].kept + prompt[k].missing = s
  BY DEF SummaryFaithful
<1> DEFINE c == ToMessages(said, <<"text">>)
           n == Len(messages)
           m == PickCutoff
           f == [k \in 1..m |-> RenderMessage(c[k], s)]
           prompt == RenderForSummary(c, m, s)
           told(kind) == {x \in Call : \E k \in DOMAIN prompt : prompt[k].what = <<kind, x>>}
           replaced == UNION {ToSet(messages[k].calls) : k \in 1..m}
<1>1. Dialog
  BY WaitingDialog DEF Waiting
<1>2. m \in 2..(n - 1) /\ messages[m + 1].role = "assistant" /\ n \in Nat
  <2>1. pc \in Waiting /\ m # 0
    BY DEF LoopInv, InRound, Waiting
  <2>2. QED
    BY <1>1, <2>1, WaitingFacts, CutoffFacts DEF Dialog
<1>3. s \in Nat
  BY WireAssumption
<1> HIDE DEF m, n
<1>4. /\ m \in Nat /\ \A k \in 1..m : k \in 1..n
      /\ f = [k \in 1..m |-> f[k]] /\ \A k \in 1..m : List(f[k]) /\ Rendered(f[k], k, s)
  <2>1. m \in Nat /\ \A k \in 1..m : k \in 1..n
    BY <1>2
  <2>2. \A k \in 1..m : List(RenderMessage(c[k], s)) /\ Rendered(RenderMessage(c[k], s), k, s)
    BY <1>1, <1>3, <2>1, RenderFacts DEF n
  <2> HIDE DEF c
  <2>3. QED
    BY <2>1, <2>2
<1>5. prompt = FlattenSeq(f)
  BY DEF RenderForSummary
<1> HIDE DEF f, prompt, c
<1>6. PICK A : f \in [1..m -> Seq(A)]
  BY <1>4, ListsOf
<1>7. prompt \in Seq(A) /\ \E at : Places(at, m, f, prompt)
  BY <1>4, <1>5, <1>6, FlattenPlaces
<1>8. PICK at : Places(at, m, f, prompt)
  BY <1>7
<1>9. DOMAIN prompt = 1..Len(prompt)
  BY <1>7
\* What stands in the prompt stands for one message, and the other way round.
<1>10. ASSUME NEW i \in DOMAIN prompt
       PROVE  \E k \in 1..m : \E j \in 1..Len(f[k]) : prompt[i] = f[k][j]
  <2>1. PICK k \in 1..m : \E j \in 1..Len(f[k]) : i = at[k] + j
    BY <1>8, <1>9 DEF Places
  <2>2. PICK j \in 1..Len(f[k]) : i = at[k] + j
    BY <2>1
  <2>3. prompt[at[k] + j] = f[k][j]
    BY <1>8 DEF Places
  <2>4. QED
    BY <2>2, <2>3
<1>11. ASSUME NEW k \in 1..m, NEW j \in 1..Len(f[k])
       PROVE  \E i \in DOMAIN prompt : prompt[i] = f[k][j]
  <2>1. at[k] + j \in DOMAIN prompt /\ prompt[at[k] + j] = f[k][j]
    BY <1>8, <1>9 DEF Places
  <2>2. QED
    BY <2>1
\* The calls of the messages replaced, by the role of the message.
<1>12. ASSUME NEW x
       PROVE  x \in replaced <=> \E k \in 1..m : \E i \in 1..Len(messages[k].calls) : x = messages[k].calls[i]
  <2>1. \A k \in 1..m : messages[k].calls \in Seq(Call)
    BY <1>1, <1>4 DEF Dialog, n
  <2>2. \A k \in 1..m : DOMAIN messages[k].calls = 1..Len(messages[k].calls)
    BY <2>1
  <2>3. \A k \in 1..m : ToSet(messages[k].calls) = {messages[k].calls[i] : i \in 1..Len(messages[k].calls)}
    BY <2>2 DEF ToSet
  <2>4. QED
    BY <2>3
<1> HIDE DEF replaced
<1>13. ASSUME NEW k \in 1..m, messages[k].calls # <<>>
       PROVE  /\ \E l \in 1..m : messages[l].role = "assistant" /\ messages[l].calls = messages[k].calls
              /\ \E l \in 1..m : messages[l].role = "tool" /\ messages[l].calls = messages[k].calls
  <2>1. k # 1 /\ k \in 1..n
    BY <1>4, <1>13 DEF Opened
  <2>2. k > 1 /\ messages[k].role \in {"assistant", "tool"}
    BY <1>1, <2>1 DEF Dialog, n
  <2>3. CASE messages[k].role = "tool"
    <3>1. k - 1 \in 1..m
      BY <1>4, <2>2
    <3>2. messages[k - 1].role = "assistant" /\ messages[k - 1].calls = messages[k].calls
      BY <1>1, <2>1, <2>2, <2>3 DEF Dialog, n
    <3>3. QED
      BY <2>3, <3>1, <3>2
  <2>4. CASE messages[k].role = "assistant"
    <3>1. k + 1 \in 1..n /\ k + 1 > 1 /\ (k + 1) - 1 = k
      BY <1>2, <2>1, <2>2
    <3>2. messages[k + 1].role # "assistant"
      BY <1>1, <2>4, <3>1 DEF Dialog, n
    <3>3. k + 1 \in 1..m
      BY <1>2, <1>4, <3>2
    <3>4. messages[k + 1].role = "tool" /\ messages[k + 1].calls = messages[k].calls
      BY <1>1, <3>1, <3>2 DEF Dialog, n
    <3>5. QED
      BY <2>4, <3>3, <3>4
  <2>5. QED
    BY <2>2, <2>3, <2>4
<1>14. ASSUME NEW kind, NEW role, \A k \in 1..m : Tells(f[k], kind, CallsOf(k, role)),
              \A k \in 1..m : messages[k].calls # <<>> =>
                \E l \in 1..m : messages[l].role = role /\ messages[l].calls = messages[k].calls
       PROVE  told(kind) = replaced
  <2>1. ASSUME NEW x \in told(kind) PROVE x \in replaced
    <3>1. x \in Call
      OBVIOUS
    <3>2. PICK i \in DOMAIN prompt : prompt[i].what = <<kind, x>>
      OBVIOUS
    <3>3. PICK k \in 1..m : \E j \in 1..Len(f[k]) : prompt[i] = f[k][j]
      BY <1>10
    <3>4. PICK j \in 1..Len(f[k]) : prompt[i] = f[k][j]
      BY <3>3
    <3>5. \E l \in 1..Len(CallsOf(k, role)) : x = CallsOf(k, role)[l]
      BY <1>14, <3>1, <3>2, <3>4 DEF Tells
    <3>6. messages[k].role = role
      <4>1. CASE messages[k].role # role
        <5>1. CallsOf(k, role) = <<>>
          BY <4>1 DEF CallsOf
        <5>2. 1..Len(CallsOf(k, role)) = {}
          BY <5>1
        <5>3. QED
          BY <3>5, <5>2
      <4>2. QED
        BY <4>1
    <3>7. \E l \in 1..Len(messages[k].calls) : x = messages[k].calls[l]
      BY <3>5, <3>6 DEF CallsOf
    <3>8. QED
      BY <1>12, <3>7
  <2>2. ASSUME NEW x \in replaced PROVE x \in told(kind)
    <3>1. PICK k \in 1..m : \E i \in 1..Len(messages[k].calls) : x = messages[k].calls[i]
      BY <1>12
    <3>2. messages[k].calls # <<>> /\ messages[k].calls \in Seq(Call)
      <4>1. messages[k].calls \in Seq(Call)
        BY <1>1, <1>4 DEF Dialog, n
      <4>2. CASE messages[k].calls = <<>>
        <5>1. 1..Len(messages[k].calls) = {}
          BY <4>2
        <5>2. QED
          BY <3>1, <5>1
      <4>3. QED
        BY <4>1, <4>2
    <3>3. x \in Call
      BY <3>1, <3>2
    <3>4. PICK l \in 1..m : messages[l].role = role /\ messages[l].calls = messages[k].calls
      BY <1>14, <3>2
    <3>5. CallsOf(l, role) = messages[k].calls
      BY <3>4 DEF CallsOf
    <3>6. PICK i \in 1..Len(CallsOf(l, role)) : x = CallsOf(l, role)[i]
      BY <3>1, <3>5
    <3>7. PICK j \in 1..Len(f[l]) : f[l][j].what = <<kind, CallsOf(l, role)[i]>>
      BY <1>14 DEF Tells
    <3>8. PICK p \in DOMAIN prompt : prompt[p] = f[l][j]
      BY <1>11
    <3>9. prompt[p].what = <<kind, x>>
      BY <3>6, <3>7, <3>8
    <3>10. QED
      BY <3>3, <3>9
  <2> HIDE DEF told
  <2>3. QED
    BY <2>1, <2>2
<1>15. told("call") = replaced
  <2>1. \A k \in 1..m : Tells(f[k], "call", CallsOf(k, "assistant"))
    BY <1>4 DEF Rendered
  <2> HIDE DEF told
  <2>2. QED
    BY <1>13, <1>14, <2>1
<1>16. told("result") = replaced
  <2>1. \A k \in 1..m : Tells(f[k], "result", CallsOf(k, "tool"))
    BY <1>4 DEF Rendered
  <2> HIDE DEF told
  <2>2. QED
    BY <1>13, <1>14, <2>1
<1>17. ASSUME NEW i \in DOMAIN prompt
       PROVE  prompt[i].kept <= MaxRendered /\ prompt[i].kept + prompt[i].missing = s
  <2>1. PICK k \in 1..m : \E j \in 1..Len(f[k]) : prompt[i] = f[k][j]
    BY <1>10
  <2>2. QED
    BY <1>4, <2>1 DEF Rendered
<1>18. QED
  BY <1>15, <1>16, <1>17 DEF prompt, c, m, replaced

\* An answer of the providers that do not stream goes back as it came.
LEMMA RepliesEchoed == EchoFaithful
<1> SUFFICES ASSUME NEW reply \in ChatReplies
    PROVE  LET openai == ConvertOpenAIResponse(<<reply>>)
               ollama == ConvertOllamaResponse(reply)
               echo == OllamaChats(Turn(ollama))[1] IN
           /\ OpenAIChats(Turn(openai)) = <<Chat("assistant", reply.text, openai.calls, None)>>
           /\ Len(openai.calls) = Len(reply.pieces)
           /\ echo.content = (IF reply.text = None THEN "" ELSE reply.text)
           /\ Len(echo.calls) = Len(reply.pieces) /\ IsInjective(ollama.calls)
           /\ reply.pieces # <<>> =>
                SingleChunkStream(ollama) = <<[content |-> ollama.content, calls |-> ollama.calls]>>
  BY DEF EchoFaithful
<1> DEFINE pieces == reply.pieces
           n == Len(pieces)
           argument(k) == <<k, Arguments([j \in 1..pieces[k] |-> <<k, j>>])>>
           calls == [k \in 1..n |-> argument(k)]
           said == IF reply.text \in {None, ""} THEN None ELSE reply.text
           openai == ConvertOpenAIResponse(<<reply>>)
           ollama == ConvertOllamaResponse(reply)
           echo == OllamaChats(Turn(ollama))[1]
<1>1. pieces \in SeqOf(0..1, MaxBlocks)
  BY DEF ChatReplies
<1>2. pieces \in Seq(0..1) /\ n \in Nat
  <2> HIDE DEF pieces
  <2>1. pieces \in Seq(0..1)
    BY <1>1 DEF SeqOf
  <2>2. QED
    BY <2>1
<1>3. Len(calls) = n /\ \A k \in 1..n : calls[k][1] = k
  <2> HIDE DEF pieces, n
  <2>1. QED
    BY <1>2
<1>4. openai = [content |-> reply.text, calls |-> calls]
  <2>1. <<reply>> # <<>> /\ <<reply>>[1] = reply
    OBVIOUS
  <2>2. QED
    BY <2>1 DEF ConvertOpenAIResponse
<1>5. ollama = [content |-> said, calls |-> calls]
  BY DEF ConvertOllamaResponse
<1> HIDE DEF argument, openai, ollama, echo
<1>6. OpenAIChats(Turn(openai)) = <<Chat("assistant", reply.text, openai.calls, None)>>
  <2> HIDE DEF calls
  <2>1. Turn(openai).role = "assistant" /\ Turn(openai).text = reply.text /\ Turn(openai).calls = openai.calls
    BY <1>4 DEF Turn
  <2>2. QED
    BY <2>1 DEF OpenAIChats
<1>7. Len(openai.calls) = n
  <2> HIDE DEF calls, n
  <2>1. QED
    BY <1>3, <1>4
<1>8. echo = Chat("assistant", IF said = None THEN "" ELSE said, [k \in 1..n |-> None], None)
  <2> HIDE DEF calls, n, said
  <2>1. Turn(ollama).role = "assistant" /\ Turn(ollama).text = said /\ Len(Turn(ollama).calls) = n
    BY <1>3, <1>5 DEF Turn
  <2> DEFINE chat == Chat("assistant", IF said = None THEN "" ELSE said, [k \in 1..n |-> None], None)
  <2>2. OllamaChats(Turn(ollama)) = <<chat>>
    BY <2>1 DEF OllamaChats
  <2> HIDE DEF chat
  <2>3. <<chat>>[1] = chat
    OBVIOUS
  <2>4. QED
    BY <2>2, <2>3 DEF echo, chat
<1>9. echo.content = (IF reply.text = None THEN "" ELSE reply.text) /\ Len(echo.calls) = n
  <2> HIDE DEF pieces, n
  <2>1. echo.content = (IF said = None THEN "" ELSE said) /\ echo.calls = [k \in 1..n |-> None]
    BY <1>8 DEF Chat
  <2>2. Len(echo.calls) = n
    <3> DEFINE ids == [k \in 1..n |-> None]
    <3>1. n \in Nat
      BY <1>2
    <3>2. Len(ids) = n
      BY <3>1
    <3>3. echo.calls = ids
      BY <2>1
    <3> HIDE DEF ids
    <3>4. QED
      BY <3>2, <3>3
  <2>3. QED
    BY <2>1, <2>2
<1>10. IsInjective(ollama.calls)
  <2>1. DOMAIN calls = 1..n
    OBVIOUS
  <2> HIDE DEF calls, n
  <2>2. \A a, b \in DOMAIN calls : calls[a] = calls[b] => a = b
    BY <1>3, <2>1
  <2>3. QED
    BY <1>5, <2>2 DEF IsInjective
<1>11. pieces # <<>> =>
         SingleChunkStream(ollama) = <<[content |-> ollama.content, calls |-> ollama.calls]>>
  <2> HAVE pieces # <<>>
  <2>1. calls # <<>>
    <3>1. n # 0
      BY <1>2
    <3> HIDE DEF calls, n
    <3>2. Len(<<>>) = 0
      OBVIOUS
    <3>3. QED
      BY <1>3, <3>1, <3>2
  <2> HIDE DEF calls
  <2>2. ollama.calls # <<>>
    BY <1>5, <2>1
  <2>3. QED
    BY <2>2 DEF SingleChunkStream
<1>12. QED
  BY <1>6, <1>7, <1>9, <1>10, <1>11 DEF openai, ollama, echo

\* Whatever was compacted, denied or interrupted, each provider is sent a request
\* its API accepts, in which every call and its result find each other; an answer
\* gives the same streamed or whole, and goes back as it came; and the summarizer
\* is told of every call it replaces, together with the result (build_request,
\* to_openai_messages, to_ollama_messages, stream_complete, render_for_summary).
THEOREM WireIsFaithful == Spec => []WireFaithful
<1>1. Init => LoopInv /\ Opened
  BY InitLoopInv, InitOpened
<1>2. LoopInv /\ Opened /\ [Next]_vars => (LoopInv /\ Opened)'
  BY NextLoopInv, NextOpened
<1>3. LoopInv /\ Opened => WireFaithful
  BY RequestsTaken, SummariesTold, RepliesEchoed, StreamsAnswerAlike DEF WireFaithful
<1>4. QED
  BY <1>1, <1>2, <1>3, PTL DEF Spec
=============================================================================
