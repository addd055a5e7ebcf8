----------------------------- MODULE Subprocess -----------------------------
(***************************************************************************)
(* One command run by a builtin tool or a script node (exec.rs): a process *)
(* group whose two pipes are drained while it runs, each into a capped     *)
(* tail and, beyond the cap, a spill file; raced against a timeout and a   *)
(* cancellation that kill the group.                                       *)
(*                                                                         *)
(* The bytes of a stream are numbered from 1 in the order they were        *)
(* written.  The reader's buffer is always a run of them that ends at the  *)
(* last byte read, so how many were dropped from its front describes it.   *)
(* One step is one turn of the read loop: a spill file is looked at only   *)
(* when the command has returned.  SIGKILL takes effect at once, and       *)
(* nobody leaves the process group.                                        *)
(***************************************************************************)
EXTENDS Integers, FiniteSets

CONSTANTS
  Stream,     \* "stdout" and "stderr"
  Child,      \* the process spawned, leader of the group
  Kid,        \* processes it may fork
  Code,       \* exit codes; Killed is the absence of one
  Killed,
  Caller,     \* who runs commands: "script", "search", or any other tool
  Cap,        \* MAX_STREAM_BYTES
  Chunk,      \* most bytes one read returns
  Continues,  \* bytes that continue a UTF-8 character
  MaxBytes    \* model bound: bytes each stream carries

Process == {Child} \cup Kid

ASSUME SubprocessAssumption ==
  /\ Cap \in Nat \ {0} /\ Chunk \in Nat \ {0}
  /\ Continues \subseteq Nat
  /\ MaxBytes \in [Stream -> Nat]
  /\ Child \notin Kid
  /\ Killed \notin Code

\* A character is shorter than what is kept (4 bytes against 30 000).
ASSUME CharacterAssumption ==
  \A b \in Continues : \E i \in 1..(Cap - 1) : b + i \notin Continues

VARIABLES
  phase,     \* where run_raw is
  caller,    \* who called it
  alive,     \* processes of the group that run
  forked,    \* kids ever forked
  holds,     \* processes that hold the write end of each pipe
  written,   \* bytes written to each pipe
  got,       \* bytes read from it
  dropped,   \* bytes trimmed from the front of the buffer
  spill,     \* the Option of a spill file and spill_gave_up in one
  disk,      \* bytes in the spill file
  ended,     \* how each read_capped ended, if it did
  code,      \* exit status of the child, once it has exited
  reaped,    \* child.wait() has returned inside the join
  cancelled, \* the caller's token
  answer     \* what the caller makes of the result

group == <<alive, forked, holds, written, code>>
reader == <<got, dropped, spill, disk, ended>>
vars == <<phase, caller, group, reader, reaped, cancelled, answer>>

Returned == {"finished", "timed_out", "cancelled", "not_launched"}
Answer == {"none", "ok", "failed", "error", "cancelled"}

TypeOK ==
  /\ phase \in {"start", "running", "killing_timed_out", "killing_cancelled"} \cup Returned
  /\ caller \in Caller
  /\ alive \in SUBSET Process /\ forked \in SUBSET Kid
  /\ holds \in [Stream -> SUBSET Process]
  /\ written \in [Stream -> Nat]
  /\ got \in [Stream -> Nat]
  /\ dropped \in [Stream -> Nat]
  /\ spill \in [Stream -> {"none", "open", "gave_up"}]
  /\ disk \in [Stream -> SUBSET Nat]
  /\ ended \in [Stream -> {"no", "eof", "error"}]
  /\ code \in Code \cup {Killed}
  /\ reaped \in BOOLEAN /\ cancelled \in BOOLEAN
  /\ answer \in Answer

Init ==
  /\ phase = "start"
  /\ caller \in Caller
  /\ alive = {} /\ forked = {}
  /\ holds = [s \in Stream |-> {}]
  /\ written = [s \in Stream |-> 0]
  /\ got = [s \in Stream |-> 0]
  /\ dropped = [s \in Stream |-> 0]
  /\ spill = [s \in Stream |-> "none"]
  /\ disk = [s \in Stream |-> {}]
  /\ ended = [s \in Stream |-> "no"]
  /\ code = Killed
  /\ reaped = FALSE /\ cancelled = FALSE
  /\ answer = "none"

\* The child leads its own group and holds both pipes.
Spawn ==
  /\ phase = "start"
  /\ phase' = "running"
  /\ alive' = {Child}
  /\ holds' = [s \in Stream |-> {Child}]
  /\ UNCHANGED <<caller, forked, written, code, reader, reaped, cancelled, answer>>

\* The program is missing, or its directory is outside the workspace.
LaunchFails ==
  /\ phase = "start"
  /\ phase' = "not_launched"
  /\ answer' = IF caller = "script" THEN "failed" ELSE "error"
  /\ UNCHANGED <<caller, group, reader, reaped, cancelled>>

-----------------------------------------------------------------------------
(* The group: processes fork, write, close their ends and exit.            *)

Fork(k) ==
  /\ Child \in alive /\ k \in Kid \ forked
  /\ alive' = alive \cup {k}
  /\ forked' = forked \cup {k}
  /\ holds' = [s \in Stream |-> holds[s] \cup (IF Child \in holds[s] THEN {k} ELSE {})]
  /\ UNCHANGED <<phase, caller, written, code, reader, reaped, cancelled, answer>>

Write(p, s) ==
  /\ phase = "running"
  /\ p \in holds[s] /\ written[s] < MaxBytes[s]
  /\ written' = [written EXCEPT ![s] = @ + 1]
  /\ UNCHANGED <<phase, caller, alive, forked, holds, code, reader, reaped,
                 cancelled, answer>>

\* A background process that redirected its output.
CloseEnd(p, s) ==
  /\ p \in holds[s]
  /\ holds' = [holds EXCEPT ![s] = @ \ {p}]
  /\ UNCHANGED <<phase, caller, alive, forked, written, code, reader, reaped,
                 cancelled, answer>>

Exit(p, c) ==
  /\ p \in alive
  /\ alive' = alive \ {p}
  /\ holds' = [s \in Stream |-> holds[s] \ {p}]
  /\ code' = IF p = Child THEN c ELSE code
  /\ UNCHANGED <<phase, caller, forked, written, reader, reaped, cancelled, answer>>

-----------------------------------------------------------------------------
(* read_capped: drain a pipe, keep the tail, spill the whole.              *)

\* The first place at or after c where a stream of n bytes can be cut.
Boundary(c, n) ==
  CHOOSE k \in c..n :
    /\ k = n \/ k + 1 \notin Continues
    /\ \A j \in c..(k - 1) : j + 1 \in Continues

\* Mutant: cut in the middle of a character.
Trim_AnyByte(d, n) == IF n - d <= Cap THEN d ELSE n - Cap

\* trim_front_to_cap of a buffer that lacks the first d of n bytes.
Trim(d, n) == IF n - d <= Cap THEN d ELSE Boundary(n - Cap, n)

\* Persist the chunk before it can be trimmed: spill file and its content.
Persisted(s, n) ==
  IF spill[s] # "open" THEN {<<spill[s], disk[s]>>}
  ELSE {<<"open", disk[s] \cup ((got[s] + 1)..n)>>, <<"gave_up", {}>>}

\* create_spill and the write of everything buffered; either may fail.
Created(s, n) == {<<"open", (dropped[s] + 1)..n>>, <<"gave_up", {}>>}

\* Mutant: after a failed write the file is started again.
Overflow_Retries(s, n, f) ==
  IF n - dropped[s] <= 2 * Cap THEN {f}
  ELSE IF f[1] # "open" THEN Created(s, n) ELSE {f}

\* Twice the cap is exceeded: start a spill unless one was started before.
Overflow(s, n, f) ==
  IF n - dropped[s] > 2 * Cap /\ f[1] = "none" THEN Created(s, n) ELSE {f}

Reading(s) == phase = "running" /\ ended[s] = "no"

\* One turn of the loop, with n bytes read in all after it.
ReadChunk(s) ==
  /\ Reading(s)
  /\ \E n \in (got[s] + 1)..written[s] :
       /\ n - got[s] <= Chunk
       /\ got' = [got EXCEPT ![s] = n]
       /\ dropped' = [dropped EXCEPT ![s] =
            IF n - @ > 2 * Cap THEN Trim(@, n) ELSE @]
       /\ \E f \in Persisted(s, n) : \E g \in Overflow(s, n, f) :
            /\ spill' = [spill EXCEPT ![s] = g[1]]
            /\ disk' = [disk EXCEPT ![s] = g[2]]
  /\ UNCHANGED <<phase, caller, group, ended, reaped, cancelled, answer>>

\* The output ended between the cap and twice the cap: spill before trimming.
\* A file that cannot be created, written or flushed is given up.
AtEnd(s) ==
  LET last == IF got[s] - dropped[s] > Cap /\ spill[s] = "none"
              THEN Created(s, got[s]) ELSE {<<spill[s], disk[s]>>}
  IN last \cup {<<"gave_up", {}>> : f \in {l \in last : l[1] = "open"}}

\* A read returns 0 or an error; the error ends the stream early.
EndOfStream(s) ==
  /\ Reading(s)
  /\ \/ /\ holds[s] = {} /\ got[s] = written[s]
        /\ ended' = [ended EXCEPT ![s] = "eof"]
     \/ ended' = [ended EXCEPT ![s] = "error"]
  /\ \E f \in AtEnd(s) :
       /\ spill' = [spill EXCEPT ![s] = f[1]]
       /\ disk' = [disk EXCEPT ![s] = f[2]]
  /\ dropped' = [dropped EXCEPT ![s] = Trim(@, got[s])]
  /\ UNCHANGED <<phase, caller, group, got, reaped, cancelled, answer>>

-----------------------------------------------------------------------------
(* run_raw: the race, and the teardown.                                    *)

\* child.wait() inside the join: the child is gone for the system, too.
ReapChild ==
  /\ phase = "running" /\ Child \notin alive /\ ~reaped
  /\ reaped' = TRUE
  /\ UNCHANGED <<phase, caller, group, reader, cancelled, answer>>

Joined == reaped /\ \A s \in Stream : ended[s] # "no"

\* What the caller makes of an exit status: a script node routes on it, search
\* knows ripgrep's codes, the other tools report it in their text.
Verdict(c, status) ==
  CASE c = "script" -> IF status = 0 THEN "ok" ELSE "failed"
    [] c = "search" -> IF status \in {0, 1} THEN "ok" ELSE "error"
    [] OTHER -> "ok"

Finish ==
  /\ phase = "running" /\ Joined
  /\ phase' = "finished"
  /\ answer' = Verdict(caller, code)
  /\ UNCHANGED <<caller, group, reader, reaped, cancelled>>

Cancel ==
  /\ ~cancelled /\ phase \notin Returned
  /\ cancelled' = TRUE
  /\ UNCHANGED <<phase, caller, group, reader, reaped, answer>>

\* Mutant: only the child is killed.
Slain_ChildOnly == {Child}

\* kill(-pgid) reaches every process of the group, the child among them.
Slain == Process

\* Mutant: only the wait for the child is raced, not the reads.
Raced_WaitOnly == phase = "running" /\ ~reaped

\* The join of both reads and the wait is raced as a whole.
Raced == phase = "running"

\* Either interruption kills the group; the child is waited for afterwards.
Interrupt(why) ==
  /\ Raced
  /\ why = "cancelled" => cancelled
  /\ phase' = IF why = "cancelled" THEN "killing_cancelled" ELSE "killing_timed_out"
  /\ alive' = alive \ Slain
  /\ holds' = [s \in Stream |-> holds[s] \ Slain]
  /\ UNCHANGED <<caller, forked, written, code, reader, reaped, cancelled, answer>>

\* A script node reports either interruption as a failure.
Torn ==
  /\ phase \in {"killing_timed_out", "killing_cancelled"}
  /\ Child \notin alive
  /\ phase' = IF phase = "killing_cancelled" THEN "cancelled" ELSE "timed_out"
  /\ reaped' = TRUE
  /\ answer' = IF caller = "script" THEN "failed"
               ELSE IF phase = "killing_cancelled" THEN "cancelled" ELSE "error"
  /\ UNCHANGED <<caller, group, reader, cancelled>>

RunRaw ==
  \/ Spawn \/ LaunchFails
  \/ \E s \in Stream : ReadChunk(s) \/ EndOfStream(s)
  \/ ReapChild \/ Finish
  \/ Interrupt("timed_out") \/ Interrupt("cancelled") \/ Torn

Group ==
  \/ \E k \in Kid : Fork(k)
  \/ \E p \in Process, s \in Stream : Write(p, s) \/ CloseEnd(p, s)
  \/ \E p \in Process, c \in Code \cup {Killed} : Exit(p, c)

Next == RunRaw \/ Group \/ Cancel

Spec == Init /\ [][Next]_vars

\* The runtime polls what is ready and its timer fires; the group owes nothing.
FairSpec ==
  /\ Spec
  /\ WF_vars(Spawn \/ LaunchFails)
  /\ WF_vars(Interrupt("timed_out"))
  /\ WF_vars(Torn)

-----------------------------------------------------------------------------
(* Properties.                                                             *)

\* Where an output of n bytes may be cut to keep at most Cap whole characters.
Cuts(n) == {k \in 0..n : /\ n - k <= Cap
                         /\ k \in {0, n} \/ k + 1 \notin Continues}

\* A finished command shows of each stream exactly what a single cut of the
\* whole output at the cap would show, however the reads fell and however often
\* the buffer was trimmed meanwhile (read_capped), and every byte the group
\* wrote was read unless a read failed.
TailIsExact ==
  phase = "finished" =>
    \A s \in Stream :
      /\ dropped[s] \in Cuts(got[s])
      /\ \A k \in Cuts(got[s]) : dropped[s] <= k
      /\ ended[s] = "eof" => got[s] = written[s]

\* The spill file a result names holds the whole output from the first byte,
\* not what was left after a trim or after a failed write; output is cut
\* without a file only when one could not be written, and output that was not
\* cut leaves none (read_capped, finalize_stream).
SpillIsWhole ==
  phase = "finished" =>
    \A s \in Stream :
      /\ spill[s] = "open" => disk[s] = 1..got[s]
      /\ spill[s] = "open" <=> disk[s] # {}
      /\ spill[s] = "open" => dropped[s] > 0
      /\ spill[s] = "none" => dropped[s] = 0

\* Of a finished command nothing is lost: what is shown is the exact tail, and
\* what was cut off is in the file.
OutputIsExact == TailIsExact /\ SpillIsWhole

\* When a timed out or cancelled command returns, no process of its group runs
\* on, not even one whose parent had exited before (run_raw).
NothingSurvives == phase \in {"timed_out", "cancelled"} => alive = {} /\ reaped

\* A call returns, whatever the command and the processes it leaves behind do,
\* and holds the pipe open for (run_raw).
CallEnds == <>(phase \in Returned)

-----------------------------------------------------------------------------
\* "`child` is still alive here (owned, not yet reaped), so its PID/PGID is valid
\* and cannot have been recycled by the OS" (run_raw, before the kill).
KillsUnreaped == phase \in {"killing_timed_out", "killing_cancelled"} => ~reaped
=============================================================================
