----------------------------- MODULE MCExecutor -----------------------------
(* Small blueprints, written as documents and loaded, for model checking    *)
(* Executor; and every short document, for checking the loader itself.      *)
EXTENDS Meaning, MCNodes

E(f, w, t) == [from |-> f, to |-> t, when |-> w]
Script == [kind |-> "script", set |-> {}]
Document(name, nodes, edges) ==
  [name |-> name, entry |-> "a", nodes |-> [n \in nodes |-> Script], edges |-> edges]

\* A verify loop whose work fans out and joins: a, then b and c, then d, which
\* ends the run or starts over.
VerifyLoop ==
  Document("verify_loop", {"a", "b", "c", "d"},
           <<E("a", NoWhen, "b"), E("d", "failure", "a"), E("a", NoWhen, "c"),
             E("b", NoWhen, "d"), E("c", NoWhen, "d"), E("d", "success", "End")>>)

\* A router with two targets on failure, and a path that simply stops on success.
Branch ==
  Document("branch", {"a", "b"},
           <<E("a", "success", "b"), E("a", "failure", "b"), E("a", "failure", "a"),
             E("b", "failure", "a")>>)

\* Exactly as many nodes as the step budget of the run that uses it.
Chain ==
  Document("chain", {"a", "b", "c"},
           <<E("a", NoWhen, "b"), E("b", NoWhen, "c"), E("c", NoWhen, "END")>>)

\* The blueprint "branch" after somebody edited its file.
EditedBranch == Document("branch", {"a", "c"}, <<E("a", "success", "c")>>)

\* A graph built in code, whose router names a node that does not exist: only
\* conditional targets of GraphBuilder are left to run time.
Ghost ==
  [label |-> "ghost", nodes |-> {"a", "b"}, entry |-> "a",
   edges |-> {[from |-> "a", when |-> "success", to |-> "b"],
              [from |-> "a", when |-> "failure", to |-> "ghost"],
              [from |-> "b", when |-> "failure", to |-> "a"]}]

Spelling == <<"a", "b", "c", "d", "ghost">>
Names == ToSet(Spelling)
LoopAndBranch == {Load(VerifyLoop), Load(Branch), Ghost}
JustChain == {Load(Chain)}
BranchAndEdit == {Load(Branch), Load(EditedBranch)}

-----------------------------------------------------------------------------
(* Every document of at most three edges over a few names, the misspelt and *)
(* the ill-formed included.                                                 *)

SomeEdge == [from : {"a", "ghost"}, to : {"b", "ghost", "End"},
             when : {NoWhen, "success", "failure", "sometimes"}]
Docs ==
  {[Document("doc", {"a", "b"}, edges) EXCEPT !.entry = entry] :
     entry \in {"a", "ghost"}, edges \in BoundedSeq(SomeEdge, 3)}

\* Directories of at most two files.
Misspelt == [Branch EXCEPT !.entry = "ghost"]
SomeFile == [stem : {"x", "y"}, yaml : BOOLEAN, utf8 : BOOLEAN, doc : {VerifyLoop, Branch, Misspelt}]
SomeDocuments == Docs \cup {VerifyLoop, Branch, Misspelt}
SomeDirectories == BoundedSeq(SomeFile, 2)
MoreNames == Names \cup {"x", "y", "End", "success", "failure", "sometimes"}
=============================================================================
