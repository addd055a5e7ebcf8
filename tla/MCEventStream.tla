---------------------------- MODULE MCEventStream ---------------------------
(* Short runs for model checking EventStream.                              *)
EXTENDS EventStream

\* A single-agent run, a blueprint with an agent node in it, and one that
\* emits more than the history and the channel hold.
Agent == <<"other", "run_completed">>
Blueprint == <<"other", "run_completed", "other", "blueprint_completed">>
Chatty == <<"other", "other", "other", "other", "other", "other", "blueprint_completed">>

AllScripts == {Agent, Blueprint, Chatty}
=============================================================================
