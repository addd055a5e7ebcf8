---------------------------- MODULE MCSubprocess ----------------------------
(* One command with a chatty and a quiet stream and a background process;   *)
(* or else three calls on one file.                                         *)
EXTENDS Subprocess, Files

Streams == {"stdout", "stderr"}
Bytes == [s \in Streams |-> IF s = "stdout" THEN 8 ELSE 1]

Start == <<"a", NewLine, "b">>
SomeEdits == {<<<<"a">>, <<"c", "c">>>>, <<<<"b">>, <<>>>>, <<<<"c">>, <<"b">>>>}
SomeContents == {<<"b", NewLine>>, <<"a", "c", "c">>, <<>>}

\* Every short content, and every edit and page of it.
Texts == BoundedSeq({"a", " ", NewLine}, 4)
Needles == BoundedSeq({"a", " ", NewLine}, 2)

\* A file says what its readers and editors are told, and stays whole.
FilesStayWhole ==
  /\ EditsAreAtomic
  /\ phase = "start" /\ NoCallYet =>
       /\ \A t \in Texts, limit \in 1..4 : PagesTellAll(t, limit)
       /\ \A t \in Texts, old \in Needles, new \in Needles : EditIsExact(t, old, new)

\* Either the command runs or the calls are made.
ToolsInit == Init /\ InitFiles
ToolsNext == \/ NoCallYet /\ Next /\ UNCHANGED fvars
             \/ phase = "start" /\ ~cancelled /\ NextFiles /\ UNCHANGED vars
Tools == ToolsInit /\ [][ToolsNext]_<<vars, fvars>>

\* As for FairSpec.  A command is always launched under it, so what must happen
\* is asked of the behaviours with a command, what may never happen of all.
FairTools ==
  /\ Tools
  /\ WF_vars(Spawn \/ LaunchFails)
  /\ WF_vars(Interrupt("timed_out"))
  /\ WF_vars(Torn)
=============================================================================
