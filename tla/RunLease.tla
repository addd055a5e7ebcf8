------------------------------- MODULE RunLease -----------------------------
(***************************************************************************)
(* What a server promises about the checkpoints of its runs, with no       *)
(* request, registry or slot in sight: a run is driven under a lease, and  *)
(* one lease on it is out at a time; only under it is the row written, and *)
(* a row that is closed is closed for good.  A lease given back, or lost   *)
(* with the server, is never heard of again.                               *)
(***************************************************************************)
EXTENDS Integers

CONSTANT Run

VARIABLES
  issued,   \* how many leases there have been
  lease,    \* the number of the lease that is out on each run, or 0
  record    \* the status of each row, or "none"

leases == <<issued, lease, record>>

Closed == {"completed", "failed"}

Init ==
  /\ issued = 0
  /\ lease = [r \in Run |-> 0]
  /\ record = [r \in Run |-> "none"]

Take(r) ==
  /\ issued' = issued + 1
  /\ lease[r] = 0
  /\ lease' = [lease EXCEPT ![r] = issued']
  /\ UNCHANGED record

Give(r) ==
  /\ lease[r] # 0 /\ lease'[r] = 0
  /\ lease' = [lease EXCEPT ![r] = 0]
  /\ UNCHANGED <<issued, record>>

\* A new record is at first running; what it becomes is for the holder to say.
Write(r) ==
  /\ lease[r] # 0
  /\ record[r] \notin Closed
  /\ record'[r] \in {"running", "suspended"} \cup Closed
  /\ record[r] = "none" => record'[r] = "running"
  /\ record' = [record EXCEPT ![r] = record'[r]]
  /\ UNCHANGED <<issued, lease>>

Lose ==
  /\ \A r \in Run : lease'[r] = 0
  /\ lease' = [r \in Run |-> 0]
  /\ UNCHANGED <<issued, record>>

Next == (\E r \in Run : Take(r) \/ Give(r) \/ Write(r)) \/ Lose

Spec == Init /\ [][Next]_leases
=============================================================================
