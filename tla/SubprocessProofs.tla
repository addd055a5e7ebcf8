-------------------------- MODULE SubprocessProofs --------------------------
(***************************************************************************)
(* Proofs about the builtin tools.  Subprocess, for every cap, size of a   *)
(* read, number of processes and place of the character boundaries:        *)
(* nothing of a group survives an interruption, and of a finished command  *)
(* nothing is lost.  Files, for every number of calls and every content:   *)
(* no edit leaves a file cut short.                                        *)
(***************************************************************************)
EXTENDS MCSubprocess, Recursion, SequenceTheorems, FiniteSetTheorems, TLAPS

Interrupted == {"killing_timed_out", "killing_cancelled", "timed_out", "cancelled"}

\* Nothing of an interrupted group is left, and a command comes back reaped.
GroupInv ==
  /\ phase \in Interrupted => alive = {}
  /\ phase \in {"timed_out", "cancelled", "finished"} => reaped

\* What was dropped is what the last trim had to drop: it ends at a boundary, and
\* any earlier one leaves more than the cap.
TailOf(s) ==
  /\ dropped[s] \in 0..got[s]
  /\ dropped[s] > 0 => dropped[s] + 1 \notin Continues
  /\ \A k \in 0..(dropped[s] - 1) :
       k = 0 \/ k + 1 \notin Continues => got[s] - k > Cap

\* A file is begun before the first trim, or never.
SpillOf(s) ==
  /\ spill[s] = "open" => disk[s] = 1..got[s] /\ dropped[s] > 0
  /\ spill[s] # "open" => disk[s] = {}
  /\ spill[s] = "none" => dropped[s] = 0

\* Between the last turn of the read loop and the join nothing moves.
EndOf(s) ==
  /\ ended[s] # "no" => got[s] - dropped[s] <= Cap
  /\ ended[s] = "eof" => holds[s] = {} /\ got[s] = written[s]
  /\ phase = "finished" => ended[s] # "no"

\* The stream before a command is launched is empty and nobody's.
StartOf(s) ==
  phase = "start" => written[s] = 0 /\ ended[s] = "no"

ReadInv ==
  \A s \in Stream :
    /\ got[s] <= written[s] /\ TailOf(s) /\ SpillOf(s) /\ EndOf(s) /\ StartOf(s)

OutputInv == TypeOK /\ ReadInv

-----------------------------------------------------------------------------
(* Cutting.                                                                *)

LEMMA Constants == Cap \in Nat /\ Cap > 0 /\ Chunk \in Nat /\ Child \notin Kid /\ Killed \notin Code
                   /\ Continues \subseteq Nat /\ MaxBytes \in [Stream -> Nat]
BY SubprocessAssumption

\* Boundary finds the first place at or after c, n if there is none before.
LEMMA BoundaryFacts ==
  ASSUME NEW c \in Nat, NEW n \in Nat, c <= n
  PROVE  LET b == Boundary(c, n) IN
         /\ b \in c..n
         /\ b = n \/ b + 1 \notin Continues
         /\ \A j \in c..(b - 1) : j + 1 \in Continues
<1> DEFINE T == {k \in c..n : k = n \/ k + 1 \notin Continues}
<1>1. T \in SUBSET Nat /\ n \in T
  OBVIOUS
<1>2. PICK b \in T : \A y \in T : b <= y
  BY <1>1, LeastNat
<1>3. \A j \in c..(b - 1) : j + 1 \in Continues
  BY <1>1, <1>2
<1>4. \E k \in c..n : /\ k = n \/ k + 1 \notin Continues
                      /\ \A j \in c..(k - 1) : j + 1 \in Continues
  BY <1>2, <1>3
<1>5. QED
  BY <1>4 DEF Boundary

\* One trim of a stream of n bytes gives the least cut at the cap.
LEMMA TrimFacts ==
  ASSUME NEW n \in Nat, NEW d \in 0..n, n - d > Cap
  PROVE  LET b == Trim(d, n) IN
         /\ b \in 0..n /\ b > 0 /\ n - b <= Cap
         /\ b + 1 \notin Continues
         /\ \A k \in 0..(b - 1) : k = 0 \/ k + 1 \notin Continues => n - k > Cap
<1> DEFINE c == n - Cap
           b == Boundary(c, n)
<1>1. c \in Nat /\ c > 0 /\ c <= n /\ Trim(d, n) = b
  BY Constants DEF Trim
<1>2. /\ b \in c..n
      /\ b = n \/ b + 1 \notin Continues
      /\ \A j \in c..(b - 1) : j + 1 \in Continues
  BY <1>1, BoundaryFacts
<1> HIDE DEF b
<1>3. b + 1 \notin Continues
  <2>1. SUFFICES ASSUME b = n, n + 1 \in Continues PROVE FALSE
    BY <1>2
  <2>2. c + 1 \in Continues
    BY <1>1, <1>2, <2>1, Constants
  <2>3. PICK i \in 1..(Cap - 1) : c + 1 + i \notin Continues
    BY <2>2, CharacterAssumption
  <2>4. c + i \in c..(b - 1) /\ (c + i) + 1 = c + 1 + i
    BY <1>1, <2>1, <2>3, Constants
  <2>5. QED
    BY <1>2, <2>3, <2>4
<1>4. ASSUME NEW k \in 0..(b - 1), k = 0 \/ k + 1 \notin Continues PROVE n - k > Cap
  <2>1. k \notin c..(b - 1)
    BY <1>1, <1>2, <1>4
  <2>2. k < c
    BY <1>1, <1>2, <2>1
  <2>3. QED
    BY <1>1, <2>2, Constants
<1>5. n - b <= Cap /\ b \in 0..n /\ b > 0
  BY <1>1, <1>2, Constants
<1>6. QED
  BY <1>1, <1>3, <1>4, <1>5

-----------------------------------------------------------------------------
(* Types.                                                                  *)

LEMMA InitType == Init => TypeOK
<1> SUFFICES ASSUME Init PROVE TypeOK
  OBVIOUS
<1>1. /\ disk \in [Stream -> SUBSET Nat] /\ holds \in [Stream -> SUBSET Process]
      /\ spill \in [Stream -> {"none", "open", "gave_up"}]
      /\ ended \in [Stream -> {"no", "eof", "error"}]
  BY DEF Init
<1>2. QED
  BY <1>1 DEF Init, TypeOK, Answer

LEMMA SpillTypes ==
  ASSUME TypeOK, NEW s \in Stream, NEW n \in Nat
  PROVE  /\ \A f \in Persisted(s, n) : f[1] \in {"none", "open", "gave_up"} /\ f[2] \in SUBSET Nat
         /\ \A f \in Created(s, n) : f[1] \in {"none", "open", "gave_up"} /\ f[2] \in SUBSET Nat
<1>1. got[s] \in Nat /\ dropped[s] \in Nat /\ disk[s] \in SUBSET Nat
      /\ spill[s] \in {"none", "open", "gave_up"}
  BY DEF TypeOK
<1>2. (got[s] + 1)..n \in SUBSET Nat /\ (dropped[s] + 1)..n \in SUBSET Nat
  BY <1>1
<1>3. QED
  BY <1>1, <1>2 DEF Persisted, Created

\* One turn of the read loop, as a reader of the buffer and of the file sees it.
LEMMA ReadChunkEffect ==
  ASSUME TypeOK, NEW s \in Stream, ReadChunk(s)
  PROVE  /\ Reading(s)
         /\ UNCHANGED <<phase, caller, group, ended, reaped, cancelled, answer>>
         /\ \A t \in Stream \ {s} : /\ got'[t] = got[t] /\ dropped'[t] = dropped[t]
                                    /\ spill'[t] = spill[t] /\ disk'[t] = disk[t]
         /\ got' \in [Stream -> Nat] /\ got[s] < got'[s] /\ got'[s] <= written[s]
         /\ spill' \in [Stream -> {"none", "open", "gave_up"}]
         /\ disk' \in [Stream -> SUBSET Nat]
         /\ dropped' = [dropped EXCEPT ![s] =
              IF got'[s] - dropped[s] > 2 * Cap THEN Trim(dropped[s], got'[s]) ELSE dropped[s]]
         /\ \E f \in Persisted(s, got'[s]) : \E g \in Overflow(s, got'[s], f) :
              spill'[s] = g[1] /\ disk'[s] = g[2]
<1>1. PICK n \in (got[s] + 1)..written[s] :
        /\ got' = [got EXCEPT ![s] = n]
        /\ dropped' = [dropped EXCEPT ![s] =
             IF n - dropped[s] > 2 * Cap THEN Trim(dropped[s], n) ELSE dropped[s]]
        /\ \E f \in Persisted(s, n) : \E g \in Overflow(s, n, f) :
             /\ spill' = [spill EXCEPT ![s] = g[1]]
             /\ disk' = [disk EXCEPT ![s] = g[2]]
  BY DEF ReadChunk
<1>2. n \in Nat /\ got[s] \in Nat /\ written[s] \in Nat
  BY DEF TypeOK
<1>3. got'[s] = n
  BY <1>1 DEF TypeOK
<1>4. PICK f \in Persisted(s, n) : \E g \in Overflow(s, n, f) :
             /\ spill' = [spill EXCEPT ![s] = g[1]]
             /\ disk' = [disk EXCEPT ![s] = g[2]]
  BY <1>1
<1>5. PICK g \in Overflow(s, n, f) :
             /\ spill' = [spill EXCEPT ![s] = g[1]]
             /\ disk' = [disk EXCEPT ![s] = g[2]]
  BY <1>4
<1>6. g[1] \in {"none", "open", "gave_up"} /\ g[2] \in SUBSET Nat
  BY <1>2, <1>4, <1>5, SpillTypes DEF Overflow
<1>7. spill'[s] = g[1] /\ disk'[s] = g[2]
      /\ spill' \in [Stream -> {"none", "open", "gave_up"}] /\ disk' \in [Stream -> SUBSET Nat]
  BY <1>5, <1>6 DEF TypeOK
<1>8. \A t \in Stream \ {s} : /\ got'[t] = got[t] /\ dropped'[t] = dropped[t]
                              /\ spill'[t] = spill[t] /\ disk'[t] = disk[t]
  BY <1>1, <1>5 DEF TypeOK
<1>9. got' \in [Stream -> Nat]
  BY <1>1, <1>2 DEF TypeOK
<1>10. QED
  BY <1>1, <1>2, <1>3, <1>4, <1>5, <1>7, <1>8, <1>9 DEF ReadChunk

\* The end of a stream.
LEMMA EndOfStreamEffect ==
  ASSUME TypeOK, NEW s \in Stream, EndOfStream(s)
  PROVE  /\ Reading(s)
         /\ UNCHANGED <<phase, caller, group, got, reaped, cancelled, answer>>
         /\ ended' \in [Stream -> {"no", "eof", "error"}]
         /\ ended'[s] \in {"eof", "error"}
         /\ ended'[s] = "eof" => holds[s] = {} /\ got[s] = written[s]
         /\ \A t \in Stream \ {s} : /\ ended'[t] = ended[t] /\ dropped'[t] = dropped[t]
                                    /\ spill'[t] = spill[t] /\ disk'[t] = disk[t]
         /\ spill' \in [Stream -> {"none", "open", "gave_up"}]
         /\ disk' \in [Stream -> SUBSET Nat]
         /\ dropped' = [dropped EXCEPT ![s] = Trim(dropped[s], got[s])]
         /\ \E f \in AtEnd(s) : spill'[s] = f[1] /\ disk'[s] = f[2]
<1>1. /\ \/ /\ holds[s] = {} /\ got[s] = written[s]
            /\ ended' = [ended EXCEPT ![s] = "eof"]
         \/ ended' = [ended EXCEPT ![s] = "error"]
      /\ dropped' = [dropped EXCEPT ![s] = Trim(dropped[s], got[s])]
  BY DEF EndOfStream
<1>2. PICK f \in AtEnd(s) : /\ spill' = [spill EXCEPT ![s] = f[1]]
                            /\ disk' = [disk EXCEPT ![s] = f[2]]
  BY DEF EndOfStream
<1>3. f[1] \in {"none", "open", "gave_up"} /\ f[2] \in SUBSET Nat
  <2>1. got[s] \in Nat /\ disk[s] \in SUBSET Nat /\ spill[s] \in {"none", "open", "gave_up"}
    BY DEF TypeOK
  <2>2. \/ f \in Created(s, got[s])
        \/ f = <<spill[s], disk[s]>>
        \/ f = <<"gave_up", {}>>
    BY <1>2 DEF AtEnd
  <2>3. QED
    BY <2>1, <2>2, SpillTypes
<1>4. spill'[s] = f[1] /\ disk'[s] = f[2]
      /\ spill' \in [Stream -> {"none", "open", "gave_up"}] /\ disk' \in [Stream -> SUBSET Nat]
  BY <1>2, <1>3 DEF TypeOK
<1>5. /\ ended' \in [Stream -> {"no", "eof", "error"}] /\ ended'[s] \in {"eof", "error"}
      /\ ended'[s] = "eof" => holds[s] = {} /\ got[s] = written[s]
  BY <1>1 DEF TypeOK
<1>6. \A t \in Stream \ {s} : /\ ended'[t] = ended[t] /\ dropped'[t] = dropped[t]
                              /\ spill'[t] = spill[t] /\ disk'[t] = disk[t]
  BY <1>1, <1>2 DEF TypeOK
<1>7. QED
  BY <1>1, <1>2, <1>4, <1>5, <1>6 DEF EndOfStream

-----------------------------------------------------------------------------
(* Every step keeps the types.  After a turn of a read loop a trim of its  *)
(* buffer needs to know that it dropped no more than it had, so types and  *)
(* outputs are kept together.                                              *)

LEMMA InitOutputInv == Init => OutputInv
<1> SUFFICES ASSUME Init PROVE OutputInv
  OBVIOUS
<1>1. TypeOK
  BY InitType
<1>2. ReadInv
  BY DEF Init, ReadInv, TailOf, SpillOf, EndOf, StartOf
<1>3. QED
  BY <1>1, <1>2 DEF OutputInv

\* A step that leaves the readers alone.
LEMMA ReadersStay ==
  ASSUME OutputInv, TypeOK', UNCHANGED reader,
         \A s \in Stream :
           /\ written[s] <= written'[s]
           /\ ended[s] = "eof" => holds'[s] = {} /\ written'[s] = written[s]
           /\ phase' = "finished" => ended[s] # "no"
           /\ phase' = "start" => written'[s] = 0 /\ ended[s] = "no"
  PROVE  OutputInv'
<1> SUFFICES ASSUME NEW s \in Stream
             PROVE  (got[s] <= written[s] /\ TailOf(s) /\ SpillOf(s) /\ EndOf(s) /\ StartOf(s))'
  BY DEF OutputInv, ReadInv
<1>1. /\ got' = got /\ dropped' = dropped /\ spill' = spill /\ disk' = disk /\ ended' = ended
      /\ got[s] <= written[s] /\ TailOf(s) /\ SpillOf(s) /\ EndOf(s)
      /\ got[s] \in Nat /\ written[s] \in Nat /\ written'[s] \in Nat
  BY DEF OutputInv, ReadInv, TypeOK, reader
<1>2. (got[s] <= written[s])'
  BY <1>1
<1>3. TailOf(s)' /\ SpillOf(s)'
  BY <1>1 DEF TailOf, SpillOf
<1>4. EndOf(s)' /\ StartOf(s)'
  BY <1>1 DEF EndOf, StartOf
<1>5. QED
  BY <1>2, <1>3, <1>4

LEMMA ReadChunkKeeps ==
  ASSUME OutputInv, NEW s \in Stream, ReadChunk(s)
  PROVE  OutputInv'
<1> USE DEF OutputInv
<1> DEFINE n == got'[s]
           d == dropped[s]
           b == IF n - d > 2 * Cap THEN Trim(d, n) ELSE d
<1>1. /\ Reading(s)
      /\ UNCHANGED <<phase, caller, group, ended, reaped, cancelled, answer>>
      /\ \A t \in Stream \ {s} : /\ got'[t] = got[t] /\ dropped'[t] = dropped[t]
                                 /\ spill'[t] = spill[t] /\ disk'[t] = disk[t]
      /\ got' \in [Stream -> Nat] /\ got[s] < n /\ n <= written[s]
      /\ spill' \in [Stream -> {"none", "open", "gave_up"}]
      /\ disk' \in [Stream -> SUBSET Nat]
      /\ dropped' = [dropped EXCEPT ![s] = b]
  BY ReadChunkEffect
<1>2. PICK f \in Persisted(s, n) : \E g \in Overflow(s, n, f) :
        spill'[s] = g[1] /\ disk'[s] = g[2]
  BY ReadChunkEffect
<1>3. PICK g \in Overflow(s, n, f) : spill'[s] = g[1] /\ disk'[s] = g[2]
  BY <1>2
<1>4. /\ got[s] \in Nat /\ n \in Nat /\ d \in 0..got[s] /\ written[s] \in Nat
      /\ TailOf(s) /\ SpillOf(s)
      /\ spill[s] \in {"none", "open", "gave_up"}
  BY <1>1 DEF TypeOK, ReadInv, TailOf
<1>5. /\ b \in 0..n
      /\ b > 0 => b + 1 \notin Continues
      /\ \A k \in 0..(b - 1) : k = 0 \/ k + 1 \notin Continues => n - k > Cap
      /\ n - d > 2 * Cap => b > 0
      /\ n - d <= 2 * Cap => b = d
  <2>1. CASE n - d > 2 * Cap
    <3>1. b = Trim(d, n) /\ d \in 0..n /\ n - d > Cap
      BY <1>1, <1>4, <2>1, Constants
    <3>2. QED
      BY <1>4, <2>1, <3>1, TrimFacts, Constants
  <2>2. CASE ~(n - d > 2 * Cap)
    <3>1. b = d
      BY <2>2
    <3>2. QED
      BY <1>1, <1>4, <2>2, <3>1, Constants DEF TailOf
  <2>3. QED
    BY <2>1, <2>2
<1> HIDE DEF b
<1>6. dropped'[s] = b /\ dropped' \in [Stream -> Nat]
  BY <1>1, <1>4, <1>5 DEF TypeOK
<1>7. TypeOK'
  BY <1>1, <1>6 DEF TypeOK, group
<1>8. TailOf(s)'
  BY <1>5, <1>6 DEF TailOf
<1>9. SpillOf(s)'
  <2>1. CASE spill[s] = "none"
    <3>1. f = <<"none", {}>> /\ d = 0
      BY <1>2, <1>4, <2>1 DEF Persisted, SpillOf
    <3>2. CASE n - d > 2 * Cap
      <4>1. g = <<"open", 1..n>> \/ g = <<"gave_up", {}>>
        BY <1>3, <3>1, <3>2 DEF Overflow, Created
      <4>2. QED
        BY <1>3, <1>5, <1>6, <3>2, <4>1 DEF SpillOf
    <3>3. CASE ~(n - d > 2 * Cap)
      <4>1. g = <<"none", {}>> /\ b = 0
        BY <1>3, <1>4, <1>5, <3>1, <3>3, Constants DEF Overflow
      <4>2. QED
        BY <1>3, <1>6, <4>1 DEF SpillOf
    <3>4. QED
      BY <3>2, <3>3
  <2>2. CASE spill[s] = "open"
    <3>1. f = <<"open", 1..n>> \/ f = <<"gave_up", {}>>
      <4>1. 1..got[s] \cup (got[s] + 1)..n = 1..n
        BY <1>1, <1>4
      <4>2. disk[s] = 1..got[s]
        BY <1>4, <2>2 DEF SpillOf
      <4>3. QED
        BY <1>2, <2>2, <4>1, <4>2 DEF Persisted
    <3>2. g = f
      BY <1>3, <3>1 DEF Overflow
    <3>3. b > 0
      BY <1>4, <1>5, <2>2, Constants DEF SpillOf
    <3>4. QED
      BY <1>3, <1>6, <3>1, <3>2, <3>3 DEF SpillOf
  <2>3. CASE spill[s] = "gave_up"
    <3>1. f = <<"gave_up", {}>>
      BY <1>2, <1>4, <2>3 DEF Persisted, SpillOf
    <3>2. g = f
      BY <1>3, <3>1 DEF Overflow
    <3>3. QED
      BY <1>3, <3>1, <3>2 DEF SpillOf
  <2>4. QED
    BY <1>4, <2>1, <2>2, <2>3
<1>10. ASSUME NEW t \in Stream
       PROVE  (got[t] <= written[t] /\ TailOf(t) /\ SpillOf(t) /\ EndOf(t) /\ StartOf(t))'
  <2>1. CASE t = s
    <3>1. phase' = "running" /\ ended'[s] = "no" /\ written' = written
      BY <1>1 DEF Reading, group
    <3>2. EndOf(s)' /\ StartOf(s)'
      BY <3>1 DEF EndOf, StartOf
    <3>3. QED
      BY <1>1, <1>8, <1>9, <2>1, <3>1, <3>2
  <2>2. CASE t # s
    <3>1. /\ got'[t] = got[t] /\ dropped'[t] = dropped[t] /\ spill'[t] = spill[t]
          /\ disk'[t] = disk[t] /\ UNCHANGED <<ended, written, holds, phase>>
      BY <1>1, <2>2 DEF group
    <3>2. got[t] <= written[t] /\ TailOf(t) /\ SpillOf(t) /\ EndOf(t) /\ StartOf(t)
      BY DEF ReadInv
    <3>3. TailOf(t)' /\ SpillOf(t)'
      BY <3>1, <3>2 DEF TailOf, SpillOf
    <3>4. EndOf(t)' /\ StartOf(t)' /\ (got[t] <= written[t])'
      BY <3>1, <3>2 DEF EndOf, StartOf
    <3>5. QED
      BY <3>3, <3>4
  <2>3. QED
    BY <2>1, <2>2
<1>11. QED
  BY <1>7, <1>10 DEF ReadInv

LEMMA EndOfStreamKeeps ==
  ASSUME OutputInv, NEW s \in Stream, EndOfStream(s)
  PROVE  OutputInv'
<1> USE DEF OutputInv
<1> DEFINE n == got[s]
           d == dropped[s]
           b == Trim(d, n)
<1>1. /\ Reading(s)
      /\ UNCHANGED <<phase, caller, group, got, reaped, cancelled, answer>>
      /\ ended' \in [Stream -> {"no", "eof", "error"}]
      /\ ended'[s] \in {"eof", "error"}
      /\ ended'[s] = "eof" => holds[s] = {} /\ got[s] = written[s]
      /\ \A t \in Stream \ {s} : /\ ended'[t] = ended[t] /\ dropped'[t] = dropped[t]
                                 /\ spill'[t] = spill[t] /\ disk'[t] = disk[t]
      /\ spill' \in [Stream -> {"none", "open", "gave_up"}]
      /\ disk' \in [Stream -> SUBSET Nat]
      /\ dropped' = [dropped EXCEPT ![s] = b]
  BY EndOfStreamEffect
<1>2. PICK f \in AtEnd(s) : spill'[s] = f[1] /\ disk'[s] = f[2]
  BY EndOfStreamEffect
<1>3. /\ n \in Nat /\ d \in 0..n /\ written[s] \in Nat /\ n <= written[s]
      /\ TailOf(s) /\ SpillOf(s)
      /\ spill[s] \in {"none", "open", "gave_up"}
  BY DEF TypeOK, ReadInv, TailOf
<1>4. /\ b \in 0..n
      /\ b > 0 => b + 1 \notin Continues
      /\ \A k \in 0..(b - 1) : k = 0 \/ k + 1 \notin Continues => n - k > Cap
      /\ n - b <= Cap
      /\ n - d > Cap => b > 0
      /\ n - d <= Cap => b = d
  <2>1. CASE n - d > Cap
    BY <1>3, <2>1, TrimFacts, Constants
  <2>2. CASE ~(n - d > Cap)
    <3>1. b = d
      BY <1>3, <2>2, Constants DEF Trim
    <3>2. QED
      BY <1>3, <2>2, <3>1, Constants DEF TailOf
  <2>3. QED
    BY <2>1, <2>2
<1> HIDE DEF b
<1>5. dropped'[s] = b /\ dropped' \in [Stream -> Nat]
  BY <1>1, <1>3, <1>4 DEF TypeOK
<1>6. TypeOK'
  BY <1>1, <1>5 DEF TypeOK, group
<1>7. TailOf(s)'
  BY <1>1, <1>4, <1>5 DEF TailOf
<1>8. SpillOf(s)'
  <2>1. CASE spill[s] = "none" /\ n - d > Cap
    <3>1. d = 0
      BY <1>3, <2>1 DEF SpillOf
    <3>2. f = <<"open", 1..n>> \/ f = <<"gave_up", {}>>
      BY <1>2, <2>1, <3>1 DEF AtEnd, Created
    <3>3. QED
      BY <1>1, <1>2, <1>4, <1>5, <2>1, <3>2 DEF SpillOf
  <2>2. CASE spill[s] = "none" /\ ~(n - d > Cap)
    <3>1. f = <<"none", {}>> /\ b = 0
      BY <1>2, <1>3, <1>4, <2>2, Constants DEF AtEnd, SpillOf
    <3>2. QED
      BY <1>2, <1>5, <3>1 DEF SpillOf
  <2>3. CASE spill[s] = "open"
    <3>1. f = <<"open", 1..n>> \/ f = <<"gave_up", {}>>
      BY <1>2, <1>3, <2>3 DEF AtEnd, SpillOf
    <3>2. b > 0
      BY <1>3, <1>4, <2>3, Constants DEF SpillOf
    <3>3. QED
      BY <1>1, <1>2, <1>5, <3>1, <3>2 DEF SpillOf
  <2>4. CASE spill[s] = "gave_up"
    <3>1. f = <<"gave_up", {}>>
      BY <1>2, <1>3, <2>4 DEF AtEnd, SpillOf
    <3>2. QED
      BY <1>2, <3>1 DEF SpillOf
  <2>5. QED
    BY <1>3, <2>1, <2>2, <2>3, <2>4
<1>9. ASSUME NEW t \in Stream
      PROVE  (got[t] <= written[t] /\ TailOf(t) /\ SpillOf(t) /\ EndOf(t) /\ StartOf(t))'
  <2>1. CASE t = s
    <3>1. UNCHANGED <<phase, got, written, holds>> /\ phase = "running"
      BY <1>1 DEF Reading, group
    <3>2. EndOf(s)' /\ StartOf(s)'
      BY <1>1, <1>4, <1>5, <3>1 DEF EndOf, StartOf
    <3>3. QED
      BY <1>3, <1>7, <1>8, <2>1, <3>1, <3>2
  <2>2. CASE t # s
    <3>1. /\ got'[t] = got[t] /\ dropped'[t] = dropped[t] /\ spill'[t] = spill[t]
          /\ disk'[t] = disk[t] /\ ended'[t] = ended[t] /\ UNCHANGED <<written, holds, phase>>
      BY <1>1, <2>2 DEF group
    <3>2. got[t] <= written[t] /\ TailOf(t) /\ SpillOf(t) /\ EndOf(t) /\ StartOf(t)
      BY DEF ReadInv
    <3>3. TailOf(t)' /\ SpillOf(t)'
      BY <3>1, <3>2 DEF TailOf, SpillOf
    <3>4. EndOf(t)' /\ StartOf(t)' /\ (got[t] <= written[t])'
      BY <3>1, <3>2 DEF EndOf, StartOf
    <3>5. QED
      BY <3>3, <3>4
  <2>3. QED
    BY <2>1, <2>2
<1>10. QED
  BY <1>6, <1>9 DEF ReadInv

\* The command, its group and the race over it.
LEMMA NextOutputInv == OutputInv /\ [Next]_vars => OutputInv'
<1> SUFFICES ASSUME OutputInv, [Next]_vars PROVE OutputInv'
  OBVIOUS
<1>0. /\ TypeOK
      /\ \A s \in Stream : /\ written[s] \in Nat /\ got[s] <= written[s]
                           /\ EndOf(s) /\ StartOf(s)
  BY DEF OutputInv, ReadInv, TypeOK
<1>1. ASSUME Spawn PROVE OutputInv'
  <2>1. TypeOK'
    BY <1>0, <1>1 DEF Spawn, TypeOK, reader, Process
  <2>2. QED
    BY <1>0, <1>1, <2>1, ReadersStay DEF Spawn, reader, StartOf
<1>2. ASSUME LaunchFails PROVE OutputInv'
  <2>1. TypeOK'
    BY <1>0, <1>2 DEF LaunchFails, TypeOK, reader, group, Returned, Answer
  <2>2. QED
    BY <1>0, <1>2, <2>1, ReadersStay DEF LaunchFails, reader, group, EndOf
<1>3. ASSUME NEW s \in Stream, ReadChunk(s) PROVE OutputInv'
  BY <1>3, ReadChunkKeeps
<1>4. ASSUME NEW s \in Stream, EndOfStream(s) PROVE OutputInv'
  BY <1>4, EndOfStreamKeeps
<1>5. ASSUME ReapChild PROVE OutputInv'
  <2>1. TypeOK'
    BY <1>0, <1>5 DEF ReapChild, TypeOK, reader, group
  <2>2. QED
    BY <1>0, <1>5, <2>1, ReadersStay DEF ReapChild, reader, group, EndOf
<1>6. ASSUME Finish PROVE OutputInv'
  <2>1. TypeOK'
    BY <1>0, <1>6 DEF Finish, Verdict, TypeOK, reader, group, Returned, Answer
  <2>2. QED
    BY <1>0, <1>6, <2>1, ReadersStay DEF Finish, Joined, reader, group, EndOf
<1>7. ASSUME NEW why \in {"timed_out", "cancelled"}, Interrupt(why) PROVE OutputInv'
  <2>1. TypeOK'
    BY <1>0, <1>7 DEF Interrupt, TypeOK, reader
  <2>2. \A s \in Stream : holds[s] = {} => holds'[s] = {}
    BY <1>7 DEF Interrupt
  <2>3. phase' # "finished" /\ phase' # "start"
    BY <1>7 DEF Interrupt
  <2>4. QED
    BY <1>0, <1>7, <2>1, <2>2, <2>3, ReadersStay DEF Interrupt, reader, EndOf
<1>8. ASSUME Torn PROVE OutputInv'
  <2>1. TypeOK'
    BY <1>0, <1>8 DEF Torn, TypeOK, reader, group, Returned, Answer
  <2>2. QED
    BY <1>0, <1>8, <2>1, ReadersStay DEF Torn, reader, group, EndOf
<1>9. ASSUME NEW k \in Kid, Fork(k) PROVE OutputInv'
  <2>1. TypeOK'
    BY <1>0, <1>9 DEF Fork, TypeOK, reader, Process
  <2>2. \A s \in Stream : holds[s] = {} => holds'[s] = {}
    BY <1>9 DEF Fork
  <2>3. QED
    BY <1>0, <1>9, <2>1, <2>2, ReadersStay DEF Fork, reader, EndOf, StartOf
<1>10. ASSUME NEW p \in Process, NEW s \in Stream, Write(p, s) PROVE OutputInv'
  <2>1. TypeOK'
    BY <1>0, <1>10 DEF Write, TypeOK, reader
  <2>2. \A t \in Stream : /\ written[t] <= written'[t]
                          /\ holds[t] = {} => written'[t] = written[t]
    BY <1>0, <1>10 DEF Write, TypeOK
  <2>3. QED
    BY <1>0, <1>10, <2>1, <2>2, ReadersStay DEF Write, reader, EndOf
<1>11. ASSUME NEW p \in Process, NEW s \in Stream, CloseEnd(p, s) PROVE OutputInv'
  <2>1. TypeOK'
    BY <1>0, <1>11 DEF CloseEnd, TypeOK, reader
  <2>2. \A t \in Stream : holds[t] = {} => holds'[t] = {}
    BY <1>0, <1>11 DEF CloseEnd, TypeOK
  <2>3. QED
    BY <1>0, <1>11, <2>1, <2>2, ReadersStay DEF CloseEnd, reader, EndOf, StartOf
<1>12. ASSUME NEW p \in Process, NEW c \in Code \cup {Killed}, Exit(p, c) PROVE OutputInv'
  <2>1. TypeOK'
    BY <1>0, <1>12 DEF Exit, TypeOK, reader
  <2>2. \A t \in Stream : holds[t] = {} => holds'[t] = {}
    BY <1>12 DEF Exit
  <2>3. QED
    BY <1>0, <1>12, <2>1, <2>2, ReadersStay DEF Exit, reader, EndOf, StartOf
<1>13. ASSUME Cancel PROVE OutputInv'
  <2>1. TypeOK'
    BY <1>0, <1>13 DEF Cancel, TypeOK, reader, group
  <2>2. QED
    BY <1>0, <1>13, <2>1, ReadersStay DEF Cancel, reader, group, EndOf, StartOf
<1>14. ASSUME UNCHANGED vars PROVE OutputInv'
  <2>1. TypeOK'
    BY <1>0, <1>14 DEF TypeOK, vars, reader, group
  <2>2. QED
    BY <1>0, <1>14, <2>1, ReadersStay DEF vars, reader, group, EndOf, StartOf
<1>15. QED
  BY <1>1, <1>2, <1>3, <1>4, <1>5, <1>6, <1>7, <1>8, <1>9, <1>10, <1>11, <1>12,
     <1>13, <1>14 DEF Next, RunRaw, Group

\* Every variable keeps its type, whatever the command and its group do.
THEOREM SubprocessTypeCorrect == Spec => []TypeOK
<1>1. OutputInv => TypeOK
  BY DEF OutputInv
<1>2. QED
  BY <1>1, InitOutputInv, NextOutputInv, PTL DEF Spec

\* A finished command shows exactly the tail that one cut of its whole output
\* would leave, and what it cut off is in the file it names, for every cap and
\* size of a read (read_capped).
THEOREM NothingIsLost == Spec => []OutputIsExact
<1>1. OutputInv => OutputIsExact
  <2> SUFFICES ASSUME OutputInv, phase = "finished", NEW s \in Stream
               PROVE  /\ dropped[s] \in Cuts(got[s])
                      /\ \A k \in Cuts(got[s]) : dropped[s] <= k
                      /\ ended[s] = "eof" => got[s] = written[s]
                      /\ spill[s] = "open" => disk[s] = 1..got[s]
                      /\ spill[s] = "open" <=> disk[s] # {}
                      /\ spill[s] = "open" => dropped[s] > 0
                      /\ spill[s] = "none" => dropped[s] = 0
    BY DEF OutputIsExact, TailIsExact, SpillIsWhole
  <2>1. /\ got[s] \in Nat /\ dropped[s] \in 0..got[s]
        /\ TailOf(s) /\ SpillOf(s) /\ EndOf(s) /\ got[s] - dropped[s] <= Cap
    BY DEF OutputInv, ReadInv, TypeOK, TailOf, EndOf
  <2>2. dropped[s] \in Cuts(got[s])
    BY <2>1 DEF Cuts, TailOf
  <2>3. ASSUME NEW k \in Cuts(got[s]) PROVE dropped[s] <= k
    <3>1. SUFFICES ASSUME k < dropped[s] PROVE FALSE
      BY <2>1 DEF Cuts
    <3>2. k \in 0..(dropped[s] - 1) /\ got[s] - k <= Cap
          /\ (k = 0 \/ k + 1 \notin Continues)
      BY <2>1, <3>1 DEF Cuts
    <3>3. got[s] - k > Cap
      BY <2>1, <3>2 DEF TailOf
    <3>4. QED
      BY <2>1, <3>2, <3>3, Constants
  <2>4. spill[s] = "open" => 1 \in disk[s]
    <3>1. spill[s] = "open" => disk[s] = 1..got[s] /\ got[s] >= 1
      BY <2>1 DEF SpillOf
    <3>2. QED
      BY <2>1, <3>1
  <2>5. QED
    BY <2>1, <2>2, <2>3, <2>4 DEF SpillOf, EndOf
<1>2. QED
  BY <1>1, InitOutputInv, NextOutputInv, PTL DEF Spec

\* The group of an interrupted command is dead and cannot come back: only the
\* child forks, and the kill reaches every process there is (run_raw).
THEOREM NothingSurvivesHolds == Spec => []NothingSurvives
<1>1. Init => GroupInv
  BY DEF Init, GroupInv, Interrupted
<1>2. TypeOK /\ GroupInv /\ [Next]_vars => GroupInv'
  <2> SUFFICES ASSUME TypeOK, GroupInv, [Next]_vars PROVE GroupInv'
    OBVIOUS
  <2> USE DEF GroupInv, Interrupted
  <2>1. ASSUME Spawn PROVE GroupInv'
    BY <2>1 DEF Spawn
  <2>2. ASSUME LaunchFails PROVE GroupInv'
    BY <2>2 DEF LaunchFails, group
  <2>3. ASSUME NEW s \in Stream, ReadChunk(s) \/ EndOfStream(s) PROVE GroupInv'
    BY <2>3 DEF ReadChunk, EndOfStream, group
  <2>4. ASSUME ReapChild PROVE GroupInv'
    BY <2>4 DEF ReapChild, group
  <2>5. ASSUME Finish PROVE GroupInv'
    BY <2>5 DEF Finish, Joined, group
  <2>6. ASSUME NEW why \in {"timed_out", "cancelled"}, Interrupt(why) PROVE GroupInv'
    BY <2>6 DEF Interrupt, Slain, TypeOK
  <2>7. ASSUME Torn PROVE GroupInv'
    BY <2>7 DEF Torn, group
  <2>8. ASSUME NEW k \in Kid, Fork(k) PROVE GroupInv'
    BY <2>8 DEF Fork
  <2>9. ASSUME NEW p \in Process, NEW s \in Stream, Write(p, s) \/ CloseEnd(p, s) PROVE GroupInv'
    BY <2>9 DEF Write, CloseEnd
  <2>10. ASSUME NEW p \in Process, NEW c \in Code \cup {Killed}, Exit(p, c) PROVE GroupInv'
    BY <2>10 DEF Exit
  <2>11. ASSUME Cancel PROVE GroupInv'
    BY <2>11 DEF Cancel, group
  <2>12. ASSUME UNCHANGED vars PROVE GroupInv'
    BY <2>12 DEF vars, group
  <2>13. QED
    BY <2>1, <2>2, <2>3, <2>4, <2>5, <2>6, <2>7, <2>8, <2>9, <2>10, <2>11, <2>12
       DEF Next, RunRaw, Group
<1>3. GroupInv => NothingSurvives
  BY DEF GroupInv, Interrupted, NothingSurvives
<1>4. QED
  BY <1>1, <1>2, <1>3, SubprocessTypeCorrect, PTL DEF Spec

-----------------------------------------------------------------------------
(* Files.                                                                  *)

\* A call is a record with its two fields, and a temp file that is put in place
\* holds everything.
CallInv ==
  /\ call = [c \in Editor |-> [at |-> call[c].at, new |-> call[c].new]]
  /\ DOMAIN temp = Editor
  /\ \A c \in Editor : Is(c, "written") => temp[c] = <<call[c].new>>

\* A call that has the file open has emptied it, and finds there only what others
\* wrote since; the only content that was written since is the file.
LaidInv ==
  /\ laid \subseteq Contents
  /\ \A c \in Editor : Is(c, "emptied") =>
       /\ call[c].new \in Contents
       /\ file \in Seq(Token) /\ Overlaid
       /\ laid = {} => file = <<>>
  /\ file \in whole \/ Overlaid
  /\ \A new \in laid : torn = {} /\ laid = {new} => file = new /\ new \in whole
  /\ (\A c \in Editor : ~Is(c, "emptied")) /\ torn = {} /\ laid = {} => file \in whole

FilesInv == CallInv /\ LaidInv

\* What is written over the file is there, and after it what was there before.
LEMMA OverFacts ==
  ASSUME NEW T, file \in Seq(T), NEW text \in Seq(T)
  PROVE  /\ Over(text) \in Seq(T)
         /\ \A i \in DOMAIN Over(text) :
              \/ i \in DOMAIN text /\ Over(text)[i] = text[i]
              \/ i \in DOMAIN file /\ Over(text)[i] = file[i]
         /\ file \in {<<>>, text} => Over(text) = text
<1>1. PICK m, n \in Nat : /\ m = Len(text) /\ DOMAIN text = 1..m
                          /\ n = Len(file) /\ DOMAIN file = 1..n
  OBVIOUS
<1>2. PICK tail : tail = SubSeq(file, m + 1, n)
  OBVIOUS
<1>3. /\ tail \in Seq(T)
      /\ Len(tail) = IF m + 1 <= n THEN n - m ELSE 0
      /\ \A i \in 1..(n - m) : tail[i] = file[m + i]
  <2>1. \A i \in (m + 1)..n : file[i] \in T
    BY <1>1
  <2>2. m + 1 \in Int /\ n \in Int /\ n - (m + 1) + 1 = n - m
    BY <1>1
  <2>3. \A i \in 1..(n - m) : (m + 1) + i - 1 = m + i
    BY <1>1
  <2>4. /\ SubSeq(file, m + 1, n) \in Seq(T)
        /\ Len(SubSeq(file, m + 1, n)) = IF m + 1 <= n THEN n - (m + 1) + 1 ELSE 0
        /\ \A i \in 1..(n - (m + 1) + 1) : SubSeq(file, m + 1, n)[i] = file[(m + 1) + i - 1]
    BY <2>1, <2>2, SubSeqProperties
  <2>5. QED
    BY <1>2, <2>2, <2>3, <2>4
<1>4. PICK l \in Nat : l = Len(tail)
  BY <1>3, LenProperties
<1>5. PICK after :
        /\ after = Over(text)
        /\ after \in Seq(T) /\ DOMAIN after = 1..(m + l) /\ Len(after) = m + l
        /\ \A i \in 1..(m + l) : after[i] = IF i <= m THEN text[i] ELSE tail[i - m]
  <2>1. Over(text) = text \o tail
    BY <1>1, <1>2 DEF Over
  <2>2. /\ text \o tail \in Seq(T) /\ Len(text \o tail) = m + l
        /\ \A i \in 1..(m + l) : (text \o tail)[i] = IF i <= m THEN text[i] ELSE tail[i - m]
    BY <1>4, <1>1, <1>3, ConcatProperties
  <2>3. DOMAIN (text \o tail) = 1..(m + l)
    BY <2>2
  <2>4. QED
    BY <2>1, <2>2, <2>3
<1>6. l = IF m + 1 <= n THEN n - m ELSE 0
  BY <1>4, <1>3
<1>7. ASSUME NEW i \in 1..(m + l)
      PROVE  \/ i \in 1..m /\ after[i] = text[i]
             \/ i \in 1..n /\ after[i] = file[i]
  <2>1. CASE i <= m
    BY <1>5, <2>1
  <2>2. CASE i > m
    <3>1. m + 1 <= n /\ i <= n /\ i - m \in 1..(n - m) /\ m + (i - m) = i
      BY <1>6, <2>2
    <3>2. after[i] = tail[i - m]
      BY <1>5, <2>2
    <3>3. tail[i - m] = file[m + (i - m)]
      BY <1>3, <3>1
    <3>4. QED
      BY <3>1, <3>2, <3>3
  <2>3. QED
    BY <2>1, <2>2
<1>8. ASSUME file \in {<<>>, text} PROVE after = text
  <2>1. n <= m
    BY <1>1, <1>8
  <2>2. l = 0
    BY <1>6, <2>1
  <2>3. \A i \in 1..m : after[i] = text[i]
    BY <1>5, <2>2
  <2>4. Len(after) = Len(text)
    BY <1>1, <1>5, <2>2
  <2>5. QED
    BY <1>1, <1>5, <2>3, <2>4
<1>9. QED
  BY <1>1, <1>5, <1>7, <1>8

\* A step of one call that puts nothing at the path.
LEMMA CallMoves ==
  ASSUME FilesInv, NEW c \in Editor, NEW to, NEW new,
         Goes(c, to, new), to # "emptied", ~Is(c, "emptied"),
         DOMAIN temp' = Editor, \A d \in Editor \ {c} : temp'[d] = temp[d],
         to = "written" => temp'[c] = <<new>>,
         UNCHANGED <<file, whole, laid, torn>>
  PROVE  FilesInv'
<1>1. /\ call'[c] = [at |-> to, new |-> new]
      /\ \A d \in Editor \ {c} : call'[d] = call[d]
      /\ call' = [d \in Editor |-> [at |-> call'[d].at, new |-> call'[d].new]]
  BY DEF FilesInv, CallInv, Goes
<1>2. CallInv'
  BY <1>1 DEF FilesInv, CallInv, Is
<1>3. LaidInv'
  <2>1. \A d \in Editor :
          (Is(d, "emptied")' <=> Is(d, "emptied")) /\ (Is(d, "emptied") => call'[d] = call[d])
    BY <1>1 DEF Is
  <2>2. QED
    BY <2>1 DEF FilesInv, LaidInv, Overlaid
<1>4. QED
  BY <1>2, <1>3 DEF FilesInv

LEMMA NextFilesInv == FilesInv /\ [NextFiles]_fvars => FilesInv'
<1> SUFFICES ASSUME FilesInv, [NextFiles]_fvars PROVE FilesInv'
  OBVIOUS
<1>0. /\ CallInv /\ LaidInv /\ DOMAIN temp = Editor
  BY DEF FilesInv, CallInv
<1>1. ASSUME NEW c \in Editor, EditReads(c) PROVE FilesInv'
  <2>1. PICK to \in {"refused", "computed"} : \E new : Goes(c, to, new)
    BY <1>1 DEF EditReads, Fails
  <2>2. QED
    BY <1>0, <1>1, <2>1, CallMoves DEF EditReads, Is
<1>2. ASSUME NEW c \in Editor, EditOpensTemp(c) PROVE FilesInv'
  <2>1. PICK to \in {"refused", "opened"} : \E new : Goes(c, to, new)
    BY <1>2 DEF EditOpensTemp, Fails
  <2>2. DOMAIN temp' = Editor /\ \A d \in Editor \ {c} : temp'[d] = temp[d]
    BY <1>0, <1>2 DEF EditOpensTemp
  <2>3. QED
    BY <1>2, <2>1, <2>2, CallMoves DEF EditOpensTemp, Is
<1>3. ASSUME NEW c \in Editor, EditWritesTemp(c) PROVE FilesInv'
  <2>1. ~Is(c, "emptied") /\ UNCHANGED <<file, whole, laid, torn>>
    BY <1>3 DEF EditWritesTemp, Is
  <2>2. CASE temp' = [temp EXCEPT ![c] = <<call[c].new>>] /\ Goes(c, "written", call[c].new)
    <3>1. /\ DOMAIN temp' = Editor /\ \A d \in Editor \ {c} : temp'[d] = temp[d]
          /\ temp'[c] = <<call[c].new>>
      BY <1>0, <2>2
    <3>2. QED
      BY <2>1, <2>2, <3>1, CallMoves
  <2>3. CASE \E k \in 0..(Len(call[c].new) - 1) :
               temp' = [temp EXCEPT ![c] = <<SubSeq(call[c].new, 1, k)>>] /\ WrittenTo(c)
    <3>1. DOMAIN temp' = Editor /\ \A d \in Editor \ {c} : temp'[d] = temp[d]
      BY <1>0, <2>3
    <3>2. Goes(c, "refused", <<>>)
      BY <2>3 DEF WrittenTo, Fails
    <3>3. QED
      BY <2>1, <3>1, <3>2, CallMoves
  <2>4. QED
    BY <1>3, <2>2, <2>3 DEF EditWritesTemp
<1>4. ASSUME NEW c \in Editor, EditRenames(c) PROVE FilesInv'
  <2>1. CASE /\ file' = temp[c][1]
             /\ whole' = whole \cup {call[c].new}
             /\ laid' = {} /\ torn' = {}
             /\ temp' = [temp EXCEPT ![c] = <<>>]
             /\ call' = [d \in Editor |->
                           IF d = c THEN [call[c] EXCEPT !.at = "done"]
                           ELSE IF Is(d, "emptied") THEN [call[d] EXCEPT !.at = "detached"]
                           ELSE call[d]]
    <3>1. temp[c] = <<call[c].new>>
      BY <1>0, <1>4 DEF EditRenames, CallInv
    <3>2. file' \in whole'
      BY <2>1, <3>1
    <3>3. \A d \in Editor : call[d] = [at |-> call[d].at, new |-> call[d].new]
      BY <1>0 DEF CallInv
    <3>4. \A d \in Editor :
            call'[d] = [at |-> IF d = c THEN "done"
                               ELSE IF Is(d, "emptied") THEN "detached" ELSE call[d].at,
                        new |-> call[d].new]
      <4>1. ASSUME NEW d \in Editor, NEW to
            PROVE  [call[d] EXCEPT !.at = to] = [at |-> to, new |-> call[d].new]
        <5>1. PICK r : r = call[d] /\ r = [at |-> call[d].at, new |-> call[d].new]
          BY <3>3
        <5>2. [r EXCEPT !.at = to] = [at |-> to, new |-> r.new]
          BY <5>1
        <5>3. QED
          BY <5>1, <5>2
      <4>2. QED
        BY <2>1, <3>3, <4>1
    <3>5. call' = [d \in Editor |-> call'[d]]
      BY <2>1
    <3>6. call' = [d \in Editor |-> [at |-> call'[d].at, new |-> call'[d].new]]
      BY <3>4, <3>5
    <3>7. \A d \in Editor :
            /\ call'[d].at = IF d = c THEN "done"
                             ELSE IF Is(d, "emptied") THEN "detached" ELSE call[d].at
            /\ call'[d].new = call[d].new
      <4>1. SUFFICES ASSUME NEW d \in Editor
            PROVE  /\ call'[d].at = IF d = c THEN "done"
                                    ELSE IF Is(d, "emptied") THEN "detached" ELSE call[d].at
                   /\ call'[d].new = call[d].new
        OBVIOUS
      <4>2. PICK a, b, r : /\ a = (IF d = c THEN "done"
                                   ELSE IF Is(d, "emptied") THEN "detached" ELSE call[d].at)
                           /\ b = call[d].new
                           /\ r = call'[d] /\ r = [at |-> a, new |-> b]
        BY <3>4
      <4>3. r.at = a /\ r.new = b
        BY <4>2
      <4>4. QED
        BY <4>2, <4>3
    <3>8. \A d \in Editor : Is(d, "written")' => temp'[d] = <<call'[d].new>>
      <4>1. \A d \in Editor : Is(d, "written")' => d # c /\ Is(d, "written") /\ call'[d].new = call[d].new
        BY <3>7 DEF Is
      <4>2. QED
        BY <1>0, <2>1, <4>1 DEF CallInv
    <3>9. \A d \in Editor : ~Is(d, "emptied")'
      BY <3>7 DEF Is
    <3>10. CallInv'
      BY <1>0, <2>1, <3>6, <3>8 DEF CallInv
    <3>11. LaidInv'
      BY <2>1, <3>2, <3>9 DEF LaidInv
    <3>12. QED
      BY <3>10, <3>11 DEF FilesInv
  <2>2. CASE /\ Fails(c)
             /\ temp' = [temp EXCEPT ![c] = <<>>] \/ UNCHANGED temp
             /\ UNCHANGED <<file, whole, laid, torn>>
    <3>1. DOMAIN temp' = Editor /\ \A d \in Editor \ {c} : temp'[d] = temp[d]
      BY <1>0, <2>2
    <3>2. QED
      BY <1>4, <2>2, <3>1, CallMoves DEF EditRenames, Is, Fails
  <2>3. QED
    BY <1>4, <2>1, <2>2 DEF EditRenames
<1>5. ASSUME NEW c \in Editor, WriteOpens(c) PROVE FilesInv'
  <2>1. CASE \E content \in Contents : Goes(c, "emptied", content)
    <3>1. PICK content \in Contents : Goes(c, "emptied", content)
      BY <2>1
    <3>2. /\ call'[c] = [at |-> "emptied", new |-> content]
          /\ \A d \in Editor \ {c} : call'[d] = call[d]
          /\ call' = [d \in Editor |-> [at |-> call'[d].at, new |-> call'[d].new]]
      BY <1>0, <3>1 DEF CallInv, Goes
    <3>3. CallInv'
      BY <1>0, <1>5, <3>2 DEF CallInv, WriteOpens, Is
    <3>4. Is(c, "emptied")' /\ ~Is(c, "idle")'
      BY <3>2 DEF Is
    <3>5. file' = <<>> /\ laid' = {} /\ torn' = {}
      BY <1>0, <1>5, <3>4 DEF CallInv, WriteOpens, Fails, Goes, Is
    <3>6. file' \in Seq(Token) /\ Overlaid'
      BY <3>5 DEF Overlaid
    <3>7. \A d \in Editor : Is(d, "emptied")' => call'[d].new \in Contents
      BY <1>0, <3>2 DEF LaidInv, Is
    <3>8. LaidInv'
      BY <3>4, <3>5, <3>6, <3>7 DEF LaidInv
    <3>9. QED
      BY <3>3, <3>8 DEF FilesInv
  <2>2. CASE Fails(c) /\ UNCHANGED <<file, laid, torn>>
    BY <1>0, <1>5, <2>2, CallMoves DEF WriteOpens, Is, Fails
  <2>3. QED
    BY <1>5, <2>1, <2>2 DEF WriteOpens
<1>6. ASSUME NEW c \in Editor, WriteFills(c) PROVE FilesInv'
  <2>1. PICK to \in {"done", "refused"} : \E new : Goes(c, to, new)
    BY <1>6 DEF WriteFills, Fails
  <2>2. /\ call'[c].at = to
        /\ \A d \in Editor \ {c} : call'[d] = call[d]
        /\ call' = [d \in Editor |-> [at |-> call'[d].at, new |-> call'[d].new]]
    BY <1>0, <2>1 DEF CallInv, Goes
  <2>3. CallInv'
    BY <1>0, <1>6, <2>2 DEF CallInv, Is, WriteFills
  <2> DEFINE new == call[c].new
  <2>4. /\ new \in Contents /\ new \in Seq(Token) /\ file \in Seq(Token) /\ Overlaid
        /\ laid \subseteq Contents /\ laid' = laid \cup {new}
    BY <1>0, <1>6, ContentsAssumption DEF LaidInv, WriteFills
  <2>5. \A d \in Editor : Is(d, "emptied")' => Is(d, "emptied") /\ call'[d] = call[d]
    BY <2>2 DEF Is
  <2>6. PICK k \in 0..Len(new) :
          /\ file' = Over(SubSeq(new, 1, k))
          /\ (k = Len(new) /\ torn' = torn /\ new \in whole') \/ torn' # {}
    <3>1. CASE file' = Over(new) /\ whole' = whole \cup {new} /\ UNCHANGED torn
      <4>1. Len(new) \in 0..Len(new) /\ SubSeq(new, 1, Len(new)) = new
        BY <2>4
      <4>2. QED
        BY <3>1, <4>1
    <3>2. CASE \E k \in 0..(Len(new) - 1) : file' = Over(SubSeq(new, 1, k)) /\ torn' = torn \cup {c}
      <4>1. PICK k \in 0..(Len(new) - 1) : file' = Over(SubSeq(new, 1, k)) /\ torn' = torn \cup {c}
        BY <3>2
      <4>2. k \in 0..Len(new) /\ torn' # {}
        BY <2>4, <4>1
      <4>3. QED
        BY <4>1, <4>2
    <3>3. QED
      BY <1>6, <3>1, <3>2 DEF WriteFills
  <2> DEFINE text == SubSeq(new, 1, k)
  <2>7. /\ text \in Seq(Token) /\ DOMAIN text = 1..k /\ 1..k \subseteq DOMAIN new
        /\ \A i \in 1..k : text[i] = new[i]
        /\ k = Len(new) => text = new
    BY <2>4
  <2> HIDE DEF new, text
  <2>8. file' = Over(text)
    BY <2>6 DEF text
  <2>9. file' \in Seq(Token)
    BY <2>4, <2>7, <2>8, OverFacts
  <2>10. Overlaid'
    <3>1. SUFFICES ASSUME NEW i \in DOMAIN file'
                   PROVE  \E one \in laid' : i \in DOMAIN one /\ file'[i] = one[i]
      BY DEF Overlaid
    <3>2. \/ i \in DOMAIN text /\ file'[i] = text[i]
          \/ i \in DOMAIN file /\ file'[i] = file[i]
      BY <2>4, <2>7, <2>8, OverFacts
    <3>3. CASE i \in DOMAIN text /\ file'[i] = text[i]
      BY <2>4, <2>7, <3>3
    <3>4. CASE i \in DOMAIN file /\ file'[i] = file[i]
      BY <2>4, <3>4 DEF Overlaid
    <3>5. QED
      BY <3>2, <3>3, <3>4
  <2>11. ASSUME NEW one \in laid', torn' = {}, laid' = {one} PROVE file' = one /\ one \in whole'
    <3>1. one = new /\ laid \subseteq {new} /\ torn = {}
      BY <2>4, <2>6, <2>11
    <3>2. file \in {<<>>, new}
      BY <1>0, <1>6, <3>1 DEF LaidInv, WriteFills
    <3>3. text = new /\ new \in whole'
      BY <2>6, <2>7, <2>11
    <3>4. QED
      BY <2>4, <2>8, <3>1, <3>2, <3>3, OverFacts
  <2>12. LaidInv'
    BY <1>0, <2>4, <2>5, <2>9, <2>10, <2>11 DEF LaidInv
  <2>13. QED
    BY <2>3, <2>12 DEF FilesInv
<1>7. ASSUME NEW c \in Editor, WriteFillsDetached(c) PROVE FilesInv'
  <2>1. PICK to \in {"done", "refused"} : \E new : Goes(c, to, new)
    BY <1>7 DEF WriteFillsDetached, Fails
  <2>2. QED
    BY <1>0, <1>7, <2>1, CallMoves DEF WriteFillsDetached, Is
<1>8. ASSUME ToolsDie PROVE FilesInv'
  <2>1. \A d \in Editor :
          call'[d] = IF call[d].at \in {"done", "refused"} THEN call[d]
                     ELSE [at |-> "died", new |-> <<>>]
    BY <1>8 DEF ToolsDie, NoCall
  <2>2. call' = [d \in Editor |-> call'[d]]
    BY <1>8 DEF ToolsDie
  <2>3. \A d \in Editor : call[d] = [at |-> call[d].at, new |-> call[d].new]
    BY <1>0 DEF CallInv
  <2>4. CallInv'
    BY <1>0, <1>8, <2>1, <2>2, <2>3 DEF CallInv, Is, ToolsDie
  <2>5. LaidInv'
    <3>1. \A d \in Editor : ~Is(d, "emptied")'
      BY <2>1 DEF Is
    <3>2. /\ UNCHANGED <<file, whole, laid>>
          /\ torn' = {} => torn = {} /\ \A d \in Editor : ~Is(d, "emptied")
      BY <1>8 DEF ToolsDie
    <3>3. QED
      BY <1>0, <3>1, <3>2 DEF LaidInv, Overlaid
  <2>6. QED
    BY <2>4, <2>5 DEF FilesInv
<1>9. ASSUME UNCHANGED fvars PROVE FilesInv'
  BY <1>0, <1>9 DEF fvars, FilesInv, CallInv, LaidInv, Overlaid, Is
<1>10. QED
  BY <1>1, <1>2, <1>3, <1>4, <1>5, <1>6, <1>7, <1>8, <1>9 DEF NextFiles

\* Whatever fails and whenever the process dies, an edit leaves the file whole, for
\* any number of calls and any contents: only a file_write that stops, or several
\* that overlap, leave something else, and then only what they wrote (file_edit,
\* file_write).
THEOREM EditsLeaveWhole == FilesSpec => []EditsAreAtomic
<1>1. InitFiles => FilesInv
  BY DEF InitFiles, FilesInv, CallInv, LaidInv, NoCall, Is
<1>2. FilesInv => EditsAreAtomic
  <2> SUFFICES ASSUME FilesInv PROVE EditsAreAtomic
    OBVIOUS
  <2>1. ASSUME \A c \in Editor : ~Is(c, "emptied"), torn = {}, \A m, n \in laid : m = n
        PROVE  file \in whole
    <3>1. CASE laid = {}
      BY <2>1, <3>1 DEF FilesInv, LaidInv
    <3>2. ASSUME NEW new \in laid PROVE file \in whole
      <4>1. laid = {new}
        BY <2>1, <3>2
      <4>2. QED
        BY <2>1, <4>1 DEF FilesInv, LaidInv
    <3>3. QED
      BY <3>1, <3>2
  <2>2. QED
    BY <2>1 DEF FilesInv, LaidInv, EditsAreAtomic
<1>3. QED
  BY <1>1, <1>2, NextFilesInv, PTL DEF FilesSpec

-----------------------------------------------------------------------------
(* The arithmetic of the tools that read and edit.                         *)

\* The lines found so far are sequences of characters.
LEMMA SplitsFacts ==
  ASSUME NEW Char, NEW t \in Seq(Char)
  PROVE  /\ Splits(t)[0] = [done |-> <<>>, line |-> <<>>]
         /\ \A k \in 1..Len(t) : Splits(t)[k] = SplitAt(Splits(t)[k - 1], t[k])
         /\ \A k \in 0..Len(t) :
              Splits(t)[k] \in [done : Seq(Seq(Char)), line : Seq(Char)]
<1> DEFINE A == [done : Seq(Seq(Char)), line : Seq(Char)]
           n == Len(t)
           none == [done |-> <<>>, line |-> <<>>]
           step == [k \in 1..n |-> [seen \in A |-> SplitAt(seen, t[k])]]
           Cut(f) == f = [k \in 0..n |-> IF k = 0 THEN none ELSE SplitAt(f[k - 1], t[k])]
<1>1. n \in Nat /\ none \in A /\ \A k \in 1..n : t[k] \in Char
  OBVIOUS
<1>2. ASSUME NEW seen \in A, NEW c \in Char PROVE SplitAt(seen, c) \in A
  <2>1. seen.done \in Seq(Seq(Char)) /\ seen.line \in Seq(Char)
    BY <1>2
  <2>2. CASE c = NewLine
    <3>1. Append(seen.done, seen.line) \in Seq(Seq(Char)) /\ <<>> \in Seq(Char)
      BY <2>1
    <3>2. SplitAt(seen, c) = [done |-> Append(seen.done, seen.line), line |-> <<>>]
      BY <2>2 DEF SplitAt
    <3>3. QED
      BY <3>1, <3>2
  <2>3. CASE c # NewLine
    <3>1. Append(seen.line, c) \in Seq(Char)
      BY <1>2, <2>1
    <3>2. SplitAt(seen, c) = [done |-> seen.done, line |-> Append(seen.line, c)]
      BY <2>3 DEF SplitAt
    <3>3. QED
      BY <2>1, <3>1, <3>2
  <2>4. QED
    BY <2>2, <2>3
<1>3. step \in [1..n -> [A -> A]]
  <2>1. \A k \in 1..n : \A seen \in A : SplitAt(seen, t[k]) \in A
    BY <1>1, <1>2
  <2> HIDE DEF A
  <2>2. QED
    BY <2>1
<1>4. PICK f : Follows(f, A, none, n, step)
  <2>1. n \in Nat /\ none \in A
    BY <1>1
  <2> HIDE DEF A, step, n, none
  <2>2. QED
    BY <1>3, <2>1, RecursionExists
<1>5. Cut(f)
  <2>0. f \in [0..n -> A] /\ f[0] = none /\ \A k \in 1..n : f[k] = step[k][f[k - 1]]
    <3> HIDE DEF A, n, none, step
    <3>1. QED
      BY <1>4 DEF Follows
  <2>1. ASSUME NEW k \in 1..n PROVE f[k] = SplitAt(f[k - 1], t[k])
    <3>1. f[k - 1] \in A
      <4>1. k - 1 \in 0..n
        BY <1>1
      <4> HIDE DEF A
      <4>2. QED
        BY <2>0, <4>1
    <3>2. step[k][f[k - 1]] = SplitAt(f[k - 1], t[k])
      <4> HIDE DEF A
      <4>1. QED
        BY <3>1
    <3>3. QED
      BY <2>0, <3>2
  <2>2. \A k \in 0..n : f[k] = IF k = 0 THEN none ELSE SplitAt(f[k - 1], t[k])
    <3>1. \A k \in 0..n : k = 0 \/ k \in 1..n
      BY <1>1
    <3>2. QED
      BY <2>0, <2>1, <3>1
  <2>3. f = [k \in 0..n |-> f[k]]
    BY <2>0
  <2>4. QED
    BY <2>2, <2>3, Zenon
<1>6. Cut(Splits(t))
  BY <1>5, Zenon DEF Splits
<1> DEFINE cut == Splits(t)
<1>7. /\ cut[0] = none
      /\ \A k \in 1..n : cut[k] = SplitAt(cut[k - 1], t[k])
  <2> HIDE DEF cut, n, none
  <2>1. Cut(cut)
    BY <1>6 DEF cut
  <2>2. \A k \in 0..n : cut[k] = IF k = 0 THEN none ELSE SplitAt(cut[k - 1], t[k])
    BY <2>1
  <2>3. 0 \in 0..n /\ \A k \in 1..n : k \in 0..n /\ k # 0
    BY <1>1
  <2>4. QED
    BY <2>2, <2>3
<1>8. \A k \in 0..n : cut[k] \in A
  <2> HIDE DEF cut, A, none
  <2> DEFINE Bad == {k \in 0..n : cut[k] \notin A}
  <2>1. SUFFICES ASSUME Bad # {} PROVE FALSE
    OBVIOUS
  <2>2. PICK k \in Bad : \A j \in Bad : k <= j
    <3>1. Bad \subseteq Nat
      OBVIOUS
    <3> HIDE DEF Bad
    <3>2. QED
      BY <2>1, <3>1, LeastNat
  <2>3. CASE k = 0
    BY <1>1, <1>7, <2>2, <2>3
  <2>4. CASE k # 0
    <3>1. k \in 1..n /\ k - 1 \in 0..n /\ ~(k <= k - 1)
      BY <2>2, <2>4
    <3>2. cut[k - 1] \in A
      BY <2>2, <3>1
    <3>3. QED
      BY <1>1, <1>2, <1>7, <2>2, <3>1, <3>2
  <2>5. QED
    BY <2>3, <2>4
<1>9. QED
  BY <1>7, <1>8
LEMMA LinesType ==
  ASSUME NEW Char, NEW t \in Seq(Char)
  PROVE  Lines(t) \in Seq(Seq(Char))
<1> DEFINE cut == Splits(t)[Len(t)]
<1>1. cut \in [done : Seq(Seq(Char)), line : Seq(Char)]
  <2>1. Len(t) \in 0..Len(t)
    OBVIOUS
  <2>2. QED
    BY <2>1, SplitsFacts
<1>2. cut.done \in Seq(Seq(Char)) /\ cut.line \in Seq(Char)
  BY <1>1
<1>3. Append(cut.done, cut.line) \in Seq(Seq(Char))
  BY <1>2
<1>4. QED
  BY <1>2, <1>3 DEF Lines

\* As many lines have ended as there were newlines.
LEMMA SplitsCount ==
  ASSUME NEW Char, NEW t \in Seq(Char), NEW k \in 0..Len(t)
  PROVE  /\ IsFiniteSet({j \in 1..k : t[j] = NewLine})
         /\ Len(Splits(t)[k].done) = Cardinality({j \in 1..k : t[j] = NewLine})
<1> DEFINE At(m) == {j \in 1..m : t[j] = NewLine}
           ends(m) == Len(Splits(t)[m].done)
           Bad == {m \in 0..Len(t) : ends(m) # Cardinality(At(m))}
<1>1. ASSUME NEW m \in 0..Len(t) PROVE IsFiniteSet(At(m)) /\ Cardinality(At(m)) \in Nat
  <2>1. IsFiniteSet(1..m)
    BY FS_Interval
  <2>2. At(m) \in SUBSET (1..m)
    OBVIOUS
  <2> HIDE DEF At
  <2>3. QED
    BY <2>1, <2>2, FS_Subset, FS_CardinalityType
<1>2. Bad = {}
  <2>1. SUFFICES ASSUME Bad # {} PROVE FALSE
    OBVIOUS
  <2>2. PICK m \in Bad : \A j \in Bad : m <= j
    <3>1. Bad \subseteq Nat
      OBVIOUS
    <3> HIDE DEF Bad
    <3>2. QED
      BY <2>1, <3>1, LeastNat
  <2>3. CASE m = 0
    <3>1. At(m) = {} /\ ends(m) = 0
      BY <2>3, SplitsFacts
    <3> HIDE DEF At, ends
    <3>2. QED
      BY <2>2, <3>1, FS_EmptySet
  <2>4. CASE m # 0
    <3>1. m \in 1..Len(t) /\ m - 1 \in 0..Len(t) /\ ~(m <= m - 1)
      BY <2>2, <2>4
    <3>2. ends(m - 1) = Cardinality(At(m - 1))
      BY <2>2, <3>1
    <3>3. /\ Splits(t)[m] = SplitAt(Splits(t)[m - 1], t[m])
          /\ Splits(t)[m - 1] \in [done : Seq(Seq(Char)), line : Seq(Char)]
      BY <3>1, SplitsFacts
    <3>4. CASE t[m] = NewLine
      <4>1. ends(m) = ends(m - 1) + 1
        BY <3>3, <3>4 DEF SplitAt
      <4>2. At(m) = At(m - 1) \cup {m} /\ m \notin At(m - 1)
        BY <3>1, <3>4
      <4> HIDE DEF At, ends
      <4>3. Cardinality(At(m)) = Cardinality(At(m - 1)) + 1
        BY <1>1, <3>1, <4>2, FS_AddElement
      <4>4. QED
        BY <2>2, <3>2, <4>1, <4>3
    <3>5. CASE t[m] # NewLine
      <4>1. ends(m) = ends(m - 1)
        BY <3>3, <3>5 DEF SplitAt
      <4>2. At(m) = At(m - 1)
        BY <3>1, <3>5
      <4> HIDE DEF At, ends
      <4>3. QED
        BY <2>2, <3>2, <4>1, <4>2
    <3>6. QED
      BY <3>4, <3>5
  <2>5. QED
    BY <2>3, <2>4
<1>3. QED
  BY <1>1, <1>2

\* A text that ends in the middle of a line has one line more than newlines.
LEMMA OpenLines ==
  ASSUME NEW Char, NEW x \in Seq(Char)
  PROVE  Len(Lines(Append(x, "a"))) = NewLinesIn(x) + 1
<1> DEFINE C == Char \cup {"a"}
           t == Append(x, "a")
           n == Len(x)
           cut == Splits(t)
<1>1. /\ x \in Seq(C) /\ t \in Seq(C) /\ Len(t) = n + 1 /\ t[n + 1] = "a" /\ n \in Nat
      /\ \A j \in 1..n : t[j] = x[j]
  <2>1. x \in Seq(C)
    BY SeqMonotonic
  <2> HIDE DEF C
  <2>2. "a" \in C
    BY DEF C
  <2>3. QED
    BY <2>1, <2>2, AppendProperties
<1>2. /\ cut[n + 1] = SplitAt(cut[n], "a")
      /\ cut[n] \in [done : Seq(Seq(C)), line : Seq(C)]
  <2>1. n + 1 \in 1..Len(t) /\ n \in 0..Len(t) /\ n + 1 - 1 = n
    BY <1>1
  <2> HIDE DEF C, t, n
  <2>2. QED
    BY <1>1, <2>1, SplitsFacts
<1>3. "a" # NewLine
  BY DEF NewLine
<1>4. /\ cut[n + 1].done = cut[n].done /\ cut[n + 1].line = Append(cut[n].line, "a")
      /\ cut[n].line \in Seq(C) /\ cut[n].done \in Seq(Seq(C))
  <2> HIDE DEF C, t, n, cut
  <2>1. QED
    BY <1>2, <1>3 DEF SplitAt
<1>5. cut[n + 1].line # <<>> /\ cut[n + 1].line \in Seq(C)
  <2>1. "a" \in C
    OBVIOUS
  <2> HIDE DEF C, t, n, cut
  <2>2. QED
    BY <1>4, <2>1, AppendProperties
<1>6. Lines(t) = Append(cut[n].done, cut[n + 1].line)
  <2> HIDE DEF C, t, n
  <2>1. QED
    BY <1>1, <1>4, <1>5 DEF Lines
<1>7. Len(Lines(t)) = Len(cut[n].done) + 1
  <2> HIDE DEF C, t, n, cut
  <2>1. QED
    BY <1>4, <1>5, <1>6, AppendProperties
<1>8. Len(cut[n].done) = Cardinality({j \in 1..n : t[j] = NewLine})
  <2>1. n \in 0..Len(t)
    BY <1>1
  <2> HIDE DEF C, t, n
  <2>2. QED
    BY <1>1, <2>1, SplitsCount
<1>9. {j \in 1..n : t[j] = NewLine} = {j \in DOMAIN x : x[j] = NewLine}
  <2> HIDE DEF t
  <2>1. QED
    BY <1>1
<1>10. QED
  BY <1>7, <1>8, <1>9 DEF NewLinesIn
-----------------------------------------------------------------------------
(* Pages.                                                                  *)

\* The numbered lines of a text, blanks at the end taken away.
Rows(t) ==
  [n \in DOMAIN Lines(t) |->
     <<n, IF n = Len(Lines(t)) THEN TrimEnd(Lines(t)[n]) ELSE Lines(t)[n]>>]

LEMMA RowsFacts ==
  ASSUME NEW Char, NEW t \in Seq(Char)
  PROVE  /\ Len(Lines(t)) \in Nat /\ DOMAIN Lines(t) = 1..Len(Lines(t))
         /\ Rows(t) \in Seq({Rows(t)[n] : n \in 1..Len(Lines(t))})
         /\ Len(Rows(t)) = Len(Lines(t))
         /\ \A n \in 1..Len(Lines(t)) : Rows(t)[n][1] = n
<1>1. Len(Lines(t)) \in Nat /\ DOMAIN Lines(t) = 1..Len(Lines(t))
  BY LinesType
<1> DEFINE m == Len(Lines(t))
           S == {Rows(t)[n] : n \in 1..m}
<1>2. Rows(t) \in [1..m -> S]
  <2>1. \A n \in 1..m : Rows(t)[n] \in S
    OBVIOUS
  <2>2. Rows(t) = [n \in 1..m |-> Rows(t)[n]]
    BY <1>1 DEF Rows
  <2> HIDE DEF S, m
  <2>3. QED
    BY <2>1, <2>2
<1>3. \A n \in 1..m : Rows(t)[n][1] = n
  BY <1>1 DEF Rows
<1>4. Rows(t) \in Seq(S) /\ Len(Rows(t)) = m
  <2> HIDE DEF S
  <2>1. QED
    BY <1>1, <1>2
<1>5. QED
  BY <1>1, <1>3, <1>4

\* A page is a run of rows, as long as it may be, and its note names the row after.
LEMMA PageFacts ==
  ASSUME NEW Char, NEW t \in Seq(Char), NEW offset \in Nat \ {0}, NEW limit \in Nat \ {0}
  PROVE  LET m == Len(Lines(t)) page == Page(t, offset, limit) IN
         /\ offset > m => page = [shown |-> <<>>, next |-> 0]
         /\ offset <= m =>
              \E last \in offset..m :
                /\ page.shown = SubSeq(Rows(t), offset, last)
                /\ page.next = IF last < m THEN last + 1 ELSE 0
                /\ last \in {m, offset - 1 + limit, offset - 1 + MaxReadLines}
<1> DEFINE m == Len(Lines(t))
           want == IF limit < MaxReadLines THEN limit ELSE MaxReadLines
           last == IF offset - 1 + want < m THEN offset - 1 + want ELSE m
           page == Page(t, offset, limit)
<1>1. m \in Nat /\ want \in Nat /\ want > 0 /\ want \in {limit, MaxReadLines}
  BY RowsFacts, FilesAssumption
<1>2. ASSUME offset > m PROVE page = [shown |-> <<>>, next |-> 0]
  BY <1>2 DEF Page
<1>3. ASSUME offset <= m
      PROVE  \E l \in offset..m :
                /\ page.shown = SubSeq(Rows(t), offset, l)
                /\ page.next = IF l < m THEN l + 1 ELSE 0
                /\ l \in {m, offset - 1 + limit, offset - 1 + MaxReadLines}
  <2>1. /\ last \in offset..m /\ last \in {m, offset - 1 + limit, offset - 1 + MaxReadLines}
        /\ m # 0 /\ ~(offset > m)
    BY <1>1, <1>3, FilesAssumption
  <2> DEFINE line(n) == IF n = m THEN TrimEnd(Lines(t)[n]) ELSE Lines(t)[n]
             shown == [i \in 1..(last - offset + 1) |-> <<offset - 1 + i, line(offset - 1 + i)>>]
  <2>2. page = [shown |-> shown, next |-> IF last < m THEN last + 1 ELSE 0]
    <3> HIDE DEF shown
    <3>1. QED
      BY <2>1, Zenon DEF Page, shown
  <2>3. shown = SubSeq(Rows(t), offset, last)
    <3> DEFINE S == {Rows(t)[n] : n \in 1..m}
    <3> HIDE DEF last, m
    <3>1. /\ SubSeq(Rows(t), offset, last) \in Seq(S)
          /\ Len(SubSeq(Rows(t), offset, last)) = last - offset + 1
          /\ \A i \in 1..(last - offset + 1) :
               SubSeq(Rows(t), offset, last)[i] = Rows(t)[offset + i - 1]
      <4>1. offset \in Int /\ last \in Int /\ offset <= last
        BY <1>1, <2>1
      <4>2. \A i \in offset..last : Rows(t)[i] \in S
        <5>1. \A i \in offset..last : i \in 1..m
          BY <1>1, <2>1
        <5>2. QED
          BY <5>1
      <4> HIDE DEF S
      <4>3. QED
        BY <4>1, <4>2, SubSeqProperties
    <3>2. ASSUME NEW i \in 1..(last - offset + 1) PROVE shown[i] = Rows(t)[offset + i - 1]
      <4>1. offset + i - 1 \in 1..m /\ offset - 1 + i = offset + i - 1
        BY <1>1, <2>1
      <4>2. Rows(t)[offset + i - 1] = <<offset + i - 1, line(offset + i - 1)>>
        BY <4>1, RowsFacts DEF Rows, m
      <4> HIDE DEF line
      <4>3. QED
        BY <4>1, <4>2
    <3>3. SubSeq(Rows(t), offset, last)
            = [i \in 1..(last - offset + 1) |-> Rows(t)[offset + i - 1]]
      <4> HIDE DEF S
      <4>1. QED
        BY <3>1, LenProperties
    <3>4. shown = [i \in 1..(last - offset + 1) |-> shown[i]]
      <4> HIDE DEF line
      <4>1. QED
        OBVIOUS
    <3>5. QED
      <4> HIDE DEF line, shown
      <4>1. QED
        BY <3>2, <3>3, <3>4, Zenon
  <2>4. QED
    <3> HIDE DEF last, shown, page
    <3>1. QED
      BY <2>1, <2>2, <2>3
<1>4. QED
  BY <1>2, <1>3
\* Following the notes from the first page on shows every line once, in order
\* (format_with_line_numbers), whatever the text and the limit.
THEOREM PagesAreComplete ==
  ASSUME NEW Char, NEW t \in Seq(Char), NEW limit \in Nat \ {0}
  PROVE  PagesTellAll(t, limit)
<1> DEFINE m == Len(Lines(t))
           S == {Rows(t)[n] : n \in 1..m}
           Told(r) == r = [offset \in 0..m + 1 |->
                             IF offset = 0 THEN <<>>
                             ELSE Page(t, offset, limit).shown \o r[Page(t, offset, limit).next]]
           rest == [offset \in 0..m + 1 |->
                      IF offset = 0 THEN <<>> ELSE SubSeq(Rows(t), offset, m)]
<1>1. m \in Nat /\ Rows(t) \in Seq(S) /\ Len(Rows(t)) = m
  BY RowsFacts
<1>2. ASSUME NEW offset \in 1..(m + 1)
      PROVE  LET page == Page(t, offset, limit) IN
             /\ page.next = 0 \/ page.next \in (offset + 1)..m
             /\ SubSeq(Rows(t), offset, m) = page.shown \o rest[page.next]
  <2> DEFINE page == Page(t, offset, limit)
  <2> HIDE DEF m, S
  <2>1. CASE offset > m
    <3>1. page = [shown |-> <<>>, next |-> 0]
      BY <1>1, <2>1, PageFacts DEF m
    <3>2. SubSeq(Rows(t), offset, m) = <<>>
      BY <1>1, <2>1, SubSeqEmpty
    <3>3. rest[0] = <<>>
      BY <1>1
    <3>4. page.shown = <<>> /\ page.next = 0
      BY <3>1
    <3>5. <<>> \o <<>> = <<>>
      OBVIOUS
    <3> HIDE DEF page, rest
    <3>6. QED
      BY <3>2, <3>3, <3>4, <3>5 DEF page
  <2>2. CASE offset <= m
    <3>1. PICK last \in offset..m :
            /\ page.shown = SubSeq(Rows(t), offset, last)
            /\ page.next = IF last < m THEN last + 1 ELSE 0
      <4>1. offset \in Nat \ {0} /\ offset <= Len(Lines(t))
        BY <1>1, <2>2 DEF m
      <4>2. QED
        BY <4>1, PageFacts, Zenon DEF m
    <3>2. /\ offset \in 1..(Len(Rows(t)) + 1) /\ last \in (offset - 1)..Len(Rows(t))
          /\ m \in last..Len(Rows(t))
      BY <1>1, <2>2, <3>1
    <3>3. SubSeq(Rows(t), offset, m) = SubSeq(Rows(t), offset, last) \o SubSeq(Rows(t), last + 1, m)
      BY <1>1, <3>2, ConcatAdjacentSubSeq
    <3>4. CASE last < m
      <4>1. page.next = last + 1 /\ last + 1 \in (offset + 1)..m /\ last + 1 \in 0..(m + 1)
            /\ last + 1 # 0
        BY <1>1, <2>2, <3>1, <3>4
      <4>2. rest[last + 1] = SubSeq(Rows(t), last + 1, m)
        BY <4>1
      <4> HIDE DEF page, rest
      <4>3. QED
        BY <3>1, <3>3, <4>1, <4>2 DEF page
    <3>5. CASE ~(last < m)
      <4>1. last = m /\ page.next = 0
        BY <1>1, <2>2, <3>1, <3>5
      <4>2. rest[0] = <<>> /\ SubSeq(Rows(t), m + 1, m) = <<>>
        <5>1. m \in Int /\ m + 1 \in Int /\ m < m + 1 /\ 0 \in 0..(m + 1)
          BY <1>1
        <5>2. QED
          BY <5>1, SubSeqEmpty
      <4> HIDE DEF page, rest
      <4>3. QED
        BY <3>1, <3>3, <4>1, <4>2 DEF page
    <3>6. QED
      BY <3>4, <3>5
  <2>3. offset > m \/ offset <= m
    BY <1>1
  <2>4. QED
    BY <2>1, <2>2, <2>3
<1>3. Told(rest)
  <2> HIDE DEF m
  <2>1. ASSUME NEW offset \in 0..m + 1
        PROVE  rest[offset] = IF offset = 0 THEN <<>>
                 ELSE Page(t, offset, limit).shown \o rest[Page(t, offset, limit).next]
    <3>1. offset # 0 => offset \in 1..(m + 1)
      BY <1>1
    <3>2. rest[offset] = IF offset = 0 THEN <<>> ELSE SubSeq(Rows(t), offset, m)
      OBVIOUS
    <3> HIDE DEF rest
    <3>3. QED
      BY <1>2, <3>1, <3>2
  <2>2. rest = [offset \in 0..m + 1 |-> rest[offset]]
    OBVIOUS
  <2> HIDE DEF rest
  <2>3. QED
    BY <2>1, <2>2, Zenon
<1> DEFINE read == ReadThrough(t, limit)
<1>4. Told(read)
  <2>1. \E r : Told(r)
    BY <1>3
  <2>2. QED
    BY <2>1, Zenon DEF ReadThrough
<1>5. \A offset \in 1..(m + 1) :
        read[offset] = Page(t, offset, limit).shown \o read[Page(t, offset, limit).next]
  <2> HIDE DEF m, read
  <2>1. \A offset \in 1..(m + 1) : offset \in 0..m + 1 /\ offset # 0
    BY <1>1
  <2>2. QED
    BY <1>4, <2>1
<1>6. read[0] = <<>> /\ rest[0] = <<>>
  <2> HIDE DEF m, read
  <2>1. 0 \in 0..m + 1
    BY <1>1
  <2>2. QED
    BY <1>4, <2>1
<1>7. \A offset \in 1..(m + 1) : read[offset] = rest[offset]
  <2> DEFINE Bad == {d \in 0..m : read[m + 1 - d] # rest[m + 1 - d]}
  <2> HIDE DEF m, read, rest, S
  <2>1. Bad = {}
    <3>1. SUFFICES ASSUME Bad # {} PROVE FALSE
      OBVIOUS
    <3>2. PICK d \in Bad : \A e \in Bad : d <= e
      <4>1. Bad \subseteq Nat
        BY <1>1
      <4> HIDE DEF Bad
      <4>2. QED
        BY <3>1, <4>1, LeastNat
    <3> DEFINE offset == m + 1 - d
               next == Page(t, offset, limit).next
    <3>3. offset \in 1..(m + 1) /\ d \in 0..m
      BY <1>1, <3>2
    <3>4. next = 0 \/ next \in (offset + 1)..m
      BY <1>2, <3>3
    <3>5. read[next] = rest[next]
      <4>1. CASE next = 0
        BY <1>6, <4>1
      <4>2. CASE next \in (offset + 1)..m
        <5> HIDE DEF next
        <5>1. /\ m + 1 - next \in 0..m /\ ~(d <= m + 1 - next)
              /\ m + 1 - (m + 1 - next) = next
          BY <1>1, <3>3, <4>2
        <5>2. m + 1 - next \notin Bad
          BY <3>2, <5>1
        <5>3. QED
          BY <5>1, <5>2
      <4>3. QED
        BY <3>4, <4>1, <4>2
    <3>6. rest[offset] = SubSeq(Rows(t), offset, m)
      <4>1. offset \in 0..m + 1 /\ offset # 0
        BY <1>1, <3>3
      <4>2. QED
        BY <4>1 DEF rest
    <3>7. read[offset] = rest[offset]
      BY <1>2, <1>5, <3>3, <3>5, <3>6
    <3>8. QED
      BY <3>2, <3>7
  <2>2. ASSUME NEW offset \in 1..(m + 1) PROVE read[offset] = rest[offset]
    <3>1. m + 1 - offset \in 0..m /\ m + 1 - (m + 1 - offset) = offset
      BY <1>1
    <3>2. m + 1 - offset \notin Bad
      BY <2>1
    <3>3. QED
      BY <3>1, <3>2
  <2>3. QED
    BY <2>2
<1>8. read[1] = Rows(t)
  <2> HIDE DEF m, read, S
  <2>1. 1 \in 1..(m + 1) /\ 1 \in 0..m + 1 /\ 1 # 0
    BY <1>1
  <2>2. rest[1] = SubSeq(Rows(t), 1, m)
    BY <2>1
  <2>3. SubSeq(Rows(t), 1, m) = Rows(t)
    BY <1>1, SubSeqFull
  <2> HIDE DEF rest
  <2>4. QED
    BY <1>7, <2>1, <2>2, <2>3
<1>9. QED
  BY <1>8, Zenon DEF PagesTellAll, Rows
\* The matches found in a prefix of the text.
LEMMA MatchedFacts ==
  ASSUME NEW Char, NEW t \in Seq(Char), NEW old \in Seq(Char)
  PROVE  /\ Matched(t, old)[0] = <<>>
         /\ \A k \in 1..Len(t) : Matched(t, old)[k] = MatchAt(t, old, Matched(t, old)[k - 1], k)
<1> DEFINE A == Seq(Nat)
           n == Len(t)
           none == <<>>
           step == [k \in 1..n |-> [found \in A |-> MatchAt(t, old, found, k)]]
           Found(f) == f = [k \in 0..n |-> IF k = 0 THEN <<>> ELSE MatchAt(t, old, f[k - 1], k)]
<1>1. n \in Nat /\ none \in A
  OBVIOUS
<1>2. ASSUME NEW found \in A, NEW k \in 1..n PROVE MatchAt(t, old, found, k) \in A
  BY <1>1, <1>2 DEF MatchAt
<1>3. step \in [1..n -> [A -> A]]
  <2> HIDE DEF A
  <2>1. QED
    BY <1>2
<1>4. PICK f : Follows(f, A, none, n, step)
  <2>1. n \in Nat /\ none \in A
    BY <1>1
  <2> HIDE DEF A, step, n, none
  <2>2. QED
    BY <1>3, <2>1, RecursionExists
<1>5. Found(f)
  <2>0. f \in [0..n -> A] /\ f[0] = none /\ \A k \in 1..n : f[k] = step[k][f[k - 1]]
    <3> HIDE DEF A, n, none, step
    <3>1. QED
      BY <1>4 DEF Follows
  <2>1. ASSUME NEW k \in 1..n PROVE f[k] = MatchAt(t, old, f[k - 1], k)
    <3>1. f[k - 1] \in A
      <4>1. k - 1 \in 0..n
        BY <1>1
      <4> HIDE DEF A
      <4>2. QED
        BY <2>0, <4>1
    <3>2. step[k][f[k - 1]] = MatchAt(t, old, f[k - 1], k)
      <4> HIDE DEF A
      <4>1. QED
        BY <3>1
    <3>3. QED
      BY <2>0, <3>2
  <2>2. \A k \in 0..n : f[k] = IF k = 0 THEN <<>> ELSE MatchAt(t, old, f[k - 1], k)
    <3>1. \A k \in 0..n : k = 0 \/ k \in 1..n
      BY <1>1
    <3>2. QED
      BY <2>0, <2>1, <3>1
  <2>3. f = [k \in 0..n |-> f[k]]
    BY <2>0
  <2>4. QED
    BY <2>2, <2>3, Zenon
<1> DEFINE found == Matched(t, old)
<1>6. Found(found)
  BY <1>5, Zenon DEF Matched
<1>7. QED
  <2> HIDE DEF found, n
  <2>1. \A k \in 0..n : found[k] = IF k = 0 THEN <<>> ELSE MatchAt(t, old, found[k - 1], k)
    BY <1>6
  <2>2. 0 \in 0..n /\ \A k \in 1..n : k \in 0..n /\ k # 0
    BY <1>1
  <2>3. found[0] = <<>> /\ \A k \in 1..n : found[k] = MatchAt(t, old, found[k - 1], k)
    BY <2>1, <2>2
  <2>4. QED
    BY <2>3 DEF found, n

\* What has been found among the first k places: the first occurrence, and a second
\* one exactly when two of them do not overlap.
Greedy(t, old, k, found) ==
  /\ found \in Seq(1..k)
  /\ found = <<>> => \A i \in 1..k : ~OccursAt(t, old, i)
  /\ found # <<>> => /\ OccursAt(t, old, found[1])
                     /\ \A i \in 1..k : OccursAt(t, old, i) => found[1] <= i
  /\ Len(found) = 1 => \A i \in 1..k : OccursAt(t, old, i) => i < found[1] + Len(old)
  /\ Len(found) > 1 => OccursAt(t, old, found[2]) /\ found[2] >= found[1] + Len(old)

LEMMA GreedyStep ==
  ASSUME NEW Char, NEW t \in Seq(Char), NEW old \in Seq(Char), old # <<>>,
         NEW k \in Nat \ {0}, NEW found, Greedy(t, old, k - 1, found)
  PROVE  Greedy(t, old, k, MatchAt(t, old, found, k))
<1> DEFINE next == MatchAt(t, old, found, k)
           l == Len(old)
<1>1. /\ found \in Seq(1..(k - 1)) /\ found \in Seq(1..k) /\ k \in 1..k
      /\ l \in Nat /\ l > 0 /\ Len(found) \in Nat
  <2>1. found \in Seq(1..(k - 1))
    BY DEF Greedy
  <2>2. 1..(k - 1) \subseteq 1..k /\ k \in 1..k
    OBVIOUS
  <2>3. found \in Seq(1..k)
    BY <2>1, <2>2, SeqMonotonic
  <2>4. QED
    BY <2>1, <2>2, <2>3
<1>2. \A i \in 1..k : i = k \/ i \in 1..(k - 1)
  OBVIOUS
<1>3. CASE ~OccursAt(t, old, k)
  <2>1. next = found
    BY <1>3 DEF MatchAt
  <2>2. QED
    BY <1>1, <1>2, <1>3, <2>1 DEF Greedy
<1>4. CASE OccursAt(t, old, k) /\ found = <<>>
  <2>1. next = <<k>>
    BY <1>4 DEF MatchAt
  <2>2. next \in Seq(1..k) /\ Len(next) = 1 /\ next[1] = k /\ next # <<>>
    BY <1>1, <2>1
  <2>3. \A i \in 1..k : OccursAt(t, old, i) => i = k
    BY <1>2, <1>4 DEF Greedy
  <2> HIDE DEF next
  <2>4. \A i \in 1..k : OccursAt(t, old, i) => next[1] <= i /\ i < next[1] + l
    <3>1. k <= k /\ k < k + l
      BY <1>1
    <3>2. QED
      BY <2>2, <2>3, <3>1
  <2>5. ~(Len(next) > 1)
    BY <2>2
  <2>6. QED
    BY <1>4, <2>2, <2>4, <2>5 DEF Greedy, next
<1>5. CASE OccursAt(t, old, k) /\ found # <<>>
  <2>1. /\ Len(found) > 0 /\ found[1] \in 1..(k - 1) /\ OccursAt(t, old, found[1])
        /\ \A i \in 1..k : OccursAt(t, old, i) => found[1] <= i
    <3>1. Len(found) > 0 /\ found[1] \in 1..(k - 1)
      BY <1>1, <1>5
    <3>2. QED
      BY <1>2, <1>5, <3>1 DEF Greedy
  <2>2. CASE k >= Last(found) + l
    <3>1. next = Append(found, k)
      BY <1>5, <2>2 DEF MatchAt
    <3>2. /\ next \in Seq(1..k) /\ next # <<>> /\ Len(next) = Len(found) + 1
          /\ \A i \in 1..Len(found) : next[i] = found[i]
          /\ next[Len(found) + 1] = k
      <4>1. next \in Seq(1..k) /\ Len(next) = Len(found) + 1
        BY <1>1, <3>1
      <4>2. next # <<>>
        BY <1>1, <4>1
      <4>3. (\A i \in 1..Len(found) : next[i] = found[i]) /\ next[Len(found) + 1] = k
        BY <1>1, <3>1
      <4> HIDE DEF next
      <4>4. QED
        BY <4>1, <4>2, <4>3
    <3>3. next[1] = found[1] /\ Len(next) > 1
      BY <1>1, <2>1, <3>2
    <3>4. OccursAt(t, old, next[2]) /\ next[2] >= next[1] + l
      <4>1. CASE Len(found) = 1
        <5>1. next[2] = k /\ Last(found) = found[1]
          BY <3>2, <4>1 DEF Last
        <5>2. QED
          BY <1>5, <2>2, <3>3, <5>1
      <4>2. CASE Len(found) > 1
        <5>1. next[2] = found[2]
          BY <1>1, <3>2, <4>2
        <5>2. QED
          BY <3>3, <4>2, <5>1 DEF Greedy
      <4>3. Len(found) = 1 \/ Len(found) > 1
        <5>1. \A c \in Nat : c > 0 => c = 1 \/ c > 1
          OBVIOUS
        <5>2. QED
          BY <1>1, <2>1, <5>1
      <4>4. QED
        BY <4>1, <4>2, <4>3
    <3> HIDE DEF next
    <3>5. ~(Len(next) = 1)
      <4>1. ~(1 > 1)
        OBVIOUS
      <4>2. QED
        BY <3>3, <4>1, Zenon
    <3>6. OccursAt(t, old, next[1]) /\ \A i \in 1..k : OccursAt(t, old, i) => next[1] <= i
      BY <2>1, <3>3
    <3>7. QED
      BY <3>2, <3>4, <3>5, <3>6 DEF Greedy, next
  <2>3. CASE ~(k >= Last(found) + l)
    <3>1. next = found
      BY <1>5, <2>3 DEF MatchAt
    <3>2. ASSUME Len(found) = 1 PROVE k < found[1] + l
      BY <1>1, <2>1, <2>3, <3>2 DEF Last
    <3>3. ASSUME Len(found) = 1, NEW i \in 1..k, OccursAt(t, old, i) PROVE i < found[1] + l
      BY <1>2, <3>2, <3>3 DEF Greedy
    <3>4. Len(found) > 1 => OccursAt(t, old, found[2]) /\ found[2] >= found[1] + Len(old)
      BY DEF Greedy
    <3>5. Greedy(t, old, k, found)
      BY <1>1, <1>5, <2>1, <3>3, <3>4 DEF Greedy
    <3> HIDE DEF next
    <3>6. QED
      BY <3>1, <3>5 DEF next
  <2>4. QED
    BY <2>2, <2>3
<1>6. QED
  BY <1>3, <1>4, <1>5

LEMMA MatchesFacts ==
  ASSUME NEW Char, NEW t \in Seq(Char), NEW old \in Seq(Char), old # <<>>
  PROVE  Greedy(t, old, Len(t), Matches(t, old))
<1> DEFINE found == Matched(t, old)
           Bad == {k \in 0..Len(t) : ~Greedy(t, old, k, found[k])}
<1>1. Len(t) \in Nat /\ Len(t) \in 0..Len(t)
  OBVIOUS
<1>2. Bad = {}
  <2>1. SUFFICES ASSUME Bad # {} PROVE FALSE
    OBVIOUS
  <2>2. PICK k \in Bad : \A j \in Bad : k <= j
    <3>1. Bad \subseteq Nat
      OBVIOUS
    <3> HIDE DEF Bad
    <3>2. QED
      BY <2>1, <3>1, LeastNat
  <2>3. CASE k = 0
    <3>1. found[k] = <<>>
      BY <2>3, MatchedFacts
    <3>2. Greedy(t, old, k, <<>>)
      BY <2>3 DEF Greedy
    <3>3. QED
      BY <2>2, <3>1, <3>2
  <2>4. CASE k # 0
    <3>1. k \in 1..Len(t) /\ k - 1 \in 0..Len(t) /\ ~(k <= k - 1) /\ k \in Nat \ {0}
      BY <2>2, <2>4
    <3>2. Greedy(t, old, k - 1, found[k - 1])
      BY <2>2, <3>1
    <3>3. found[k] = MatchAt(t, old, found[k - 1], k)
      BY <3>1, MatchedFacts
    <3>4. Greedy(t, old, k, found[k])
      BY <3>1, <3>2, <3>3, GreedyStep
    <3>5. QED
      BY <2>2, <3>4
  <2>5. QED
    BY <2>3, <2>4
<1>3. QED
  BY <1>1, <1>2 DEF Matches
\* What the matches say of the occurrences.
LEMMA MatchesTell ==
  ASSUME NEW Char, NEW t \in Seq(Char), NEW old \in Seq(Char), old # <<>>
  PROVE  LET found == Matches(t, old) places == Occurrences(t, old) IN
         /\ Len(found) \in Nat /\ (found = <<>> <=> Len(found) = 0)
         /\ found = <<>> <=> places = {}
         /\ found # <<>> => found[1] \in places
         /\ Len(found) > 1 <=> \E i, j \in places : j >= i + Len(old)
<1> DEFINE found == Matches(t, old)
           places == Occurrences(t, old)
           l == Len(old)
<1>1. Greedy(t, old, Len(t), found)
  BY MatchesFacts
<1> HIDE DEF found
<1>2. found \in Seq(1..Len(t)) /\ l \in Nat /\ l > 0 /\ Len(t) \in Nat
  BY <1>1 DEF Greedy
<1>3. Len(found) \in Nat /\ (found = <<>> <=> Len(found) = 0)
  BY <1>2
<1>4. \A i : i \in places <=> i \in 1..Len(t) /\ OccursAt(t, old, i)
  BY DEF Occurrences
<1> HIDE DEF places
<1>5. found = <<>> => places = {}
  BY <1>1, <1>4 DEF Greedy
<1>6. found # <<>> => found[1] \in places
  <2>1. found # <<>> => found[1] \in 1..Len(t)
    BY <1>2
  <2>2. QED
    BY <1>1, <1>4, <2>1 DEF Greedy
<1>7. ASSUME Len(found) > 1 PROVE \E i, j \in places : j >= i + l
  <2>1. found[1] \in 1..Len(t) /\ found[2] \in 1..Len(t) /\ found # <<>>
    BY <1>2, <1>7
  <2>2. found[2] \in places /\ found[2] >= found[1] + l
    BY <1>1, <1>4, <1>7, <2>1 DEF Greedy
  <2>3. QED
    BY <1>6, <2>1, <2>2
<1>8. ASSUME NEW i \in places, NEW j \in places, j >= i + l PROVE Len(found) > 1
  <2>1. SUFFICES ASSUME ~(Len(found) > 1) PROVE FALSE
    OBVIOUS
  <2>2. found # <<>>
    BY <1>5
  <2>3. Len(found) = 1
    <3>1. \A c \in Nat : c = 0 \/ c = 1 \/ c > 1
      OBVIOUS
    <3>2. QED
      BY <1>3, <2>1, <2>2, <3>1
  <2>4. /\ i \in 1..Len(t) /\ j \in 1..Len(t) /\ found[1] \in 1..Len(t)
        /\ OccursAt(t, old, i) /\ OccursAt(t, old, j)
    BY <1>4, <1>6, <2>2
  <2>5. found[1] <= i /\ j < found[1] + l
    BY <1>1, <2>2, <2>3, <2>4 DEF Greedy
  <2>6. QED
    BY <1>2, <1>8, <2>4, <2>5
<1>9. QED
  BY <1>3, <1>5, <1>6, <1>7, <1>8 DEF found, places

\* The page shown after an edit has every line put in, or as many as fit.
\* The lines an edit has put in are shown, as many as fit on a page.
ShowsNew(t, line, new) ==
  \A n \in line..(line + NewLinesIn(new)) :
    n <= Len(Lines(t)) /\ n < line + MaxReadLines - 2
    => \E k \in DOMAIN Snippet(t, line, new).shown : Snippet(t, line, new).shown[k][1] = n

LEMMA SnippetShows ==
  ASSUME NEW Char, NEW t \in Seq(Char), NEW new \in Seq(Char),
         NEW line \in Nat \ {0}, NewLinesIn(new) \in Nat
  PROVE  ShowsNew(t, line, new)
<1> SUFFICES ASSUME NEW n \in line..(line + NewLinesIn(new)),
                    n <= Len(Lines(t)), n < line + MaxReadLines - 2
             PROVE  \E k \in DOMAIN Snippet(t, line, new).shown :
                      Snippet(t, line, new).shown[k][1] = n
  BY DEF ShowsNew
<1> DEFINE m == Len(Lines(t))
           offset == IF line > 3 THEN line - 2 ELSE 1
           limit == NewLinesIn(new) + 5
           page == Page(t, offset, limit)
           S == {Rows(t)[r] : r \in 1..m}
<1>1. /\ offset \in Nat \ {0} /\ limit \in Nat \ {0} /\ m \in Nat /\ MaxReadLines \in Nat
      /\ n \in Int /\ offset <= n /\ n <= m
      /\ n <= offset - 1 + limit /\ n <= offset - 1 + MaxReadLines
  BY RowsFacts, FilesAssumption
<1>2. Snippet(t, line, new) = page
  BY DEF Snippet
<1> HIDE DEF offset, limit, page, S
<1>3. PICK last \in offset..m :
        /\ page.shown = SubSeq(Rows(t), offset, last)
        /\ last \in {m, offset - 1 + limit, offset - 1 + MaxReadLines}
  <2>1. offset <= m
    BY <1>1
  <2>2. QED
    BY <1>1, <2>1, PageFacts, Zenon DEF page
<1>4. n <= last
  BY <1>1, <1>3
<1>5. /\ \A r \in 1..m : Rows(t)[r] \in S /\ Rows(t)[r][1] = r
  BY RowsFacts DEF S
<1> HIDE DEF m
<1>6. /\ SubSeq(Rows(t), offset, last) \in Seq(S)
      /\ Len(SubSeq(Rows(t), offset, last)) = last - offset + 1
      /\ \A i \in 1..(last - offset + 1) :
           SubSeq(Rows(t), offset, last)[i] = Rows(t)[offset + i - 1]
  <2>1. offset \in Int /\ last \in Int /\ offset <= last /\ \A i \in offset..last : i \in 1..m
    BY <1>1, <1>3
  <2>2. \A i \in offset..last : Rows(t)[i] \in S
    BY <1>5, <2>1
  <2>3. QED
    BY <2>1, <2>2, SubSeqProperties
<1> DEFINE k == n - offset + 1
<1>7. k \in 1..(last - offset + 1) /\ offset + k - 1 = n /\ n \in 1..m
  BY <1>1, <1>3, <1>4
<1> HIDE DEF k
<1>8. page.shown[k][1] = n
  BY <1>3, <1>5, <1>6, <1>7
<1>9. k \in DOMAIN page.shown
  BY <1>3, <1>6, <1>7, LenProperties
<1>10. QED
  BY <1>2, <1>8, <1>9

LEMMA NewLinesType ==
  ASSUME NEW Char, NEW t \in Seq(Char)
  PROVE  NewLinesIn(t) \in Nat
<1>1. IsFiniteSet({j \in 1..Len(t) : t[j] = NewLine})
  <2>1. IsFiniteSet(1..Len(t))
    BY FS_Interval
  <2>2. {j \in 1..Len(t) : t[j] = NewLine} \in SUBSET (1..Len(t))
    OBVIOUS
  <2>3. QED
    BY <2>1, <2>2, FS_Subset
<1>2. {j \in 1..Len(t) : t[j] = NewLine} = {j \in DOMAIN t : t[j] = NewLine}
  OBVIOUS
<1>3. QED
  BY <1>1, <1>2, FS_CardinalityType DEF NewLinesIn

\* An edit does what it says, is refused when it is ambiguous, and shows what it
\* has put in (compute_edit), whatever the texts.
THEOREM EditsAreExact ==
  ASSUME NEW Char, NEW t \in Seq(Char), NEW old \in Seq(Char), NEW new \in Seq(Char)
  PROVE  EditIsExact(t, old, new)
<1> DEFINE found == Matches(t, old)
           places == Occurrences(t, old)
           apart == \E i, j \in places : j >= i + Len(old)
           made == Edited(t, old, new)
           shown == Snippet(made.content, made.line, new).shown
<1>1. CASE old = <<>> \/ old = new
  <2>1. EditFault(t, old, new) \in {"empty", "noop"}
    BY <1>1 DEF EditFault
  <2>2. QED
    BY <1>1, <2>1 DEF EditIsExact
<1>2. CASE old # <<>> /\ old # new
  <2>1. /\ Len(found) \in Nat /\ (found = <<>> <=> Len(found) = 0)
        /\ found = <<>> <=> places = {}
        /\ found # <<>> => found[1] \in places
        /\ Len(found) > 1 <=> apart
    BY <1>2, MatchesTell
  <2> HIDE DEF found, places, apart
  <2>2. EditFault(t, old, new) = IF found = <<>> THEN "not found"
                                 ELSE IF Len(found) > 1 THEN "ambiguous" ELSE "none"
    BY <1>2 DEF EditFault, found
  <2>3. CASE apart \/ places = {}
    <3>1. apart => found # <<>>
      <4>1. ~(0 > 1)
        OBVIOUS
      <4>2. QED
        BY <2>1, <4>1, Zenon
    <3>2. EditFault(t, old, new) = IF apart THEN "ambiguous" ELSE "not found"
      BY <2>1, <2>2, <2>3, <3>1, Zenon
    <3>3. old \notin {<<>>, new}
      BY <1>2
    <3>4. QED
      BY <1>2, <2>3, <3>2, <3>3 DEF EditIsExact, apart, places
  <2>4. CASE ~apart /\ places # {}
    <3> DEFINE i == found[1]
               before == SubSeq(t, 1, i - 1)
    <3>1. EditFault(t, old, new) = "none"
      BY <2>1, <2>2, <2>4, Zenon
    <3>2. i \in places /\ i \in 1..Len(t) /\ OccursAt(t, old, i)
      BY <2>1, <2>4 DEF places, Occurrences
    <3>3. made = [content |-> before \o new \o SubSeq(t, i + Len(old), Len(t)),
                  line    |-> NewLinesIn(before) + 1]
      BY DEF Edited, LineOf, found
    <3>4. /\ before \in Seq(Char) /\ SubSeq(t, i + Len(old), Len(t)) \in Seq(Char)
      <4>1. i \in Int /\ Len(old) \in Nat /\ Len(t) \in Nat /\ 1 <= i /\ i <= Len(t)
        BY <3>2
      <4>2. (\A j \in 1..(i - 1) : t[j] \in Char) /\ \A j \in (i + Len(old))..Len(t) : t[j] \in Char
        BY <4>1, ElementOfSeq
      <4> HIDE DEF i
      <4>3. QED
        BY <4>1, <4>2, SubSeqProperties
    <3>5. made.content \in Seq(Char)
      BY <3>3, <3>4
    <3>6. made.line = Len(Lines(Append(before, "a"))) /\ made.line \in Nat \ {0}
      <4>1. NewLinesIn(before) \in Nat /\ Len(Lines(Append(before, "a"))) = NewLinesIn(before) + 1
        BY <3>4, OpenLines, NewLinesType
      <4>2. QED
        BY <3>3, <4>1
    <3>7. Len(Lines(Append(new, "a"))) = NewLinesIn(new) + 1 /\ NewLinesIn(new) \in Nat
      BY OpenLines, NewLinesType
    <3> HIDE DEF made, i
    <3>8. ASSUME NEW n \in made.line..(made.line + Len(Lines(Append(new, "a"))) - 1),
                 n <= Len(Lines(made.content)), n < made.line + MaxReadLines - 2
          PROVE  \E k \in DOMAIN shown : shown[k][1] = n
      <4>1. n \in made.line..(made.line + NewLinesIn(new))
        BY <3>6, <3>7
      <4>2. /\ made.line \in Nat \ {0} /\ NewLinesIn(new) \in Nat
            /\ n <= Len(Lines(made.content)) /\ n < made.line + MaxReadLines - 2
        BY <3>6, <3>7, <3>8
      <4> HIDE DEF shown
      <4>3. ShowsNew(made.content, made.line, new)
        BY <3>5, <4>2, SnippetShows
      <4>4. \E k \in DOMAIN Snippet(made.content, made.line, new).shown :
              Snippet(made.content, made.line, new).shown[k][1] = n
        BY <4>1, <4>2, <4>3, Zenon DEF ShowsNew
      <4>5. QED
        BY <4>4 DEF shown
    <3>9. /\ \E j \in places :
               /\ made.content = SubSeq(t, 1, j - 1) \o new \o SubSeq(t, j + Len(old), Len(t))
               /\ made.line = Len(Lines(Append(SubSeq(t, 1, j - 1), "a")))
      <4>1. made.content = before \o new \o SubSeq(t, i + Len(old), Len(t))
        BY <3>3
      <4>2. QED
        BY <3>2, <3>6, <4>1
    <3>10. ~(old = <<>> \/ old = new)
      BY <1>2
    <3> HIDE DEF shown
    <3>11. QED
      BY <2>4, <3>1, <3>8, <3>9, <3>10, Zenon DEF EditIsExact, apart, places, made, shown
  <2>5. QED
    BY <2>3, <2>4
<1>3. QED
  BY <1>1, <1>2

-----------------------------------------------------------------------------
(* Commands and calls in one process.                                      *)

\* Every step of the tools is a step of the command or of the calls on the file,
\* and leaves the other alone.
LEMMA ToolsAreBoth == Tools => Spec /\ FilesSpec
<1>1. ToolsInit => Init /\ InitFiles
  BY DEF ToolsInit
<1>2. [ToolsNext]_<<vars, fvars>> => [Next]_vars
  BY DEF ToolsNext
<1>3. [ToolsNext]_<<vars, fvars>> => [NextFiles]_fvars
  BY DEF ToolsNext
<1>4. QED
  BY <1>1, <1>2, <1>3, PTL DEF Tools, Spec, FilesSpec

\* Commands lose nothing and leave no process behind whatever is done to the
\* files at other times (read_capped, run_raw).
THEOREM ToolsKeepOutput == Tools => [](OutputIsExact /\ NothingSurvives)
BY ToolsAreBoth, NothingIsLost, NothingSurvivesHolds, PTL

\* A file stays whole under edits, read page by page it is told completely, and
\* an edit is exact: for every content, page size and limit, and every edit
\* (format_with_line_numbers, compute_edit, file_edit, file_write).
THEOREM FilesAreWhole == Tools => []FilesStayWhole
<1> DEFINE Char == {"a", " ", NewLine}
<1>1. ASSUME NEW k \in Nat, NEW t \in BoundedSeq(Char, k) PROVE t \in Seq(Char)
  <2>1. PICK m \in 0..k : t \in [1..m -> Char]
    BY <1>1 DEF BoundedSeq, SeqOf
  <2> HIDE DEF Char
  <2>2. m \in Nat
    OBVIOUS
  <2>3. QED
    BY <2>1, <2>2
<1>2. Texts \subseteq Seq(Char) /\ Needles \subseteq Seq(Char)
  BY <1>1 DEF Texts, Needles
<1> HIDE DEF Char
<1>3. \A t \in Texts, limit \in 1..4 : PagesTellAll(t, limit)
  BY <1>2, PagesAreComplete
<1>4. \A t \in Texts, old \in Needles, new \in Needles : EditIsExact(t, old, new)
  BY <1>2, EditsAreExact
<1>5. EditsAreAtomic => FilesStayWhole
  BY <1>3, <1>4, Zenon DEF FilesStayWhole
<1>6. QED
  BY <1>5, ToolsAreBoth, EditsLeaveWhole, PTL
=============================================================================
