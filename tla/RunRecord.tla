------------------------------ MODULE RunRecord -----------------------------
(***************************************************************************)
(* What the checkpoint store promises about one run, with no executor in   *)
(* sight: a record opened once, whose progress only ever extends along the *)
(* graph of its blueprint, and which is final once closed.                 *)
(***************************************************************************)
EXTENDS Blueprint, SequencesExt

CONSTANTS Graphs, Nobody

VARIABLES
  blueprint,   \* the graph the record was taken against, or Nobody
  progress,    \* the transcript a resume would continue from
  life         \* "absent", "open" (running or suspended), or closed

record == <<blueprint, progress, life>>

Init == blueprint = Nobody /\ progress = <<>> /\ life = "absent"

\* The first snapshot that reaches the store; earlier ones may have failed.
Open ==
  /\ life = "absent"
  /\ life' = "open"
  /\ blueprint' \in Graphs
  /\ IsPath(blueprint', progress')

Extend ==
  /\ life = "open"
  /\ IsPrefix(progress, progress')
  /\ IsPath(blueprint, progress')
  /\ UNCHANGED <<life, blueprint>>

Close ==
  /\ life = "open"
  /\ life' \in {"completed", "failed"}
  /\ UNCHANGED <<progress, blueprint>>

Next == Open \/ Extend \/ Close

Spec == Init /\ [][Next]_record
=============================================================================
