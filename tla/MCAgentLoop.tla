----------------------------- MODULE MCAgentLoop ----------------------------
(* A conversation long enough for a synopsis of a synopsis, on the wire of *)
(* every provider, with tools whose names collide in every way.            *)
EXTENDS Wire

\* "a" with a tool "a" meets the built-in "a_a"; "a" with "a_a" and "a_a" with
\* "a" would meet each other even if names were not cut short.
MCServerNames == {<<"a">>, <<"a", "_", "a">>}
MCRemoteNames == {<<"a">>, <<"e">>, <<"l">>, <<".">>, <<"_">>}

\* A cutoff in the middle of a turn comes up (an odd KeepRecent), and the
\* conversation outgrows KeepRecent again after it was cut.
ASSUME ReachesSecondSynopsis ==
  KeepRecent % 2 = 1 /\ 2 * MaxIterations >= 2 * KeepRecent
=============================================================================
