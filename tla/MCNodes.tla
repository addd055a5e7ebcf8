------------------------------- MODULE MCNodes ------------------------------
(* Short templates, values that look like templates and like shell syntax,  *)
(* and every run of two nodes, for checking Nodes.                          *)
EXTENDS Nodes

Tokens == {"{", "}", "b", "task", " "}
ShortTemplates == BoundedSeq(Tokens, 4) \cup {<<"{", "task", "}", "{", "b", "}">>,
                                              <<"b", " ", "{", "b", "}", "task">>}
Letters == {"{", "}", "b", "x", " ", "'", "\\", "(none)", "task", "yes"}
OddValues == {<<>>, <<"{", "b", "}">>, <<"x", " ", "'", "\\">>}
SomeKeys == {<<"b">>}
Marks == <<"task">> :> "#task" @@ <<"b">> :> "#b"

-----------------------------------------------------------------------------
Def(kind, name) ==
  [kind |-> kind, name |-> name, prompt |-> <<"{", "b", "}", "{", "task", "}">>,
   ref |-> <<>>, path |-> <<"p">>, approval |-> kind = "human",
   tools |-> {"t"}, registry |-> {"t", "u"},
   env |-> <<"a", "b", "c">>, process |-> [a |-> " ", b |-> "here"],
   defaults |-> [a |-> "theirs", b |-> "there"]]

SomeWorkers == {Def(kind, name) : kind \in Kinds, name \in {"b", "c", "task"}}
World == [hard : BOOLEAN, ok : BOOLEAN, text : {<<>>, NoAnswer, <<"yes">>, <<"{", "task", "}">>}]
Call(kind, name, w) == [node |-> Def(kind, name), world |-> w]

\* Two super-steps, the second of two nodes that see the first; when one of them
\* fails hard nothing of it is merged.
TwoSteps ==
  {<<<<Call(k1, n, w1)>>, <<Call(k2, "b", w2), Call(k2, "c", w1)>>>> :
     k1 \in Kinds, k2 \in Kinds, n \in {"b", "task"}, w1 \in {w \in World : ~w.hard}, w2 \in World}

Widths13 == BoundedSeq(BoundedSeq({1, 3}, 2), 4)

Networks ==
  {[i \in DOMAIN order |-> [name |-> order[i], up |-> up[order[i]]]] :
     up \in [0..2 -> BOOLEAN], order \in {<<>>, <<0, 1, 2>>, <<2, 1, 0>>, <<1, 0, 2>>, <<2, 1>>, <<1, 2>>}}
=============================================================================
