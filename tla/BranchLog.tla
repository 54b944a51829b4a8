----------------------------- MODULE BranchLog -----------------------------
(***************************************************************************)
(* What codegen.commit_files promises about the branch it commits to: a    *)
(* log of commits to which each accepted request is added at most once and *)
(* as one step, on top of everything before it, and nothing is ever        *)
(* removed.  CodegenCommit implements it with GitHub's Git Data API.       *)
(***************************************************************************)
EXTENDS Sequences, Naturals

CONSTANTS
  Calls,    \* requests to commit the generated files of a story
  Others,   \* pushes to the branch by anybody else
  Files,    \* paths in the repository
  Writes,   \* the files every call or push brings with it
  NoFile    \* the path does not exist

VARIABLES
  line,     \* the commits of the branch, oldest first, by their authors
  tree,     \* whose version of every file the branch's tip holds
  reported  \* the calls whose commit the caller was told of

vars == <<line, tree, reported>>

Authors == Calls \cup Others
AuthorsOf(l) == {l[i] : i \in DOMAIN l}
Overlay(t, a) == [f \in Files |-> IF f \in Writes[a] THEN a ELSE t[f]]

Init ==
  /\ line = <<>>
  /\ tree = [f \in Files |-> NoFile]
  /\ reported = {}

\* All files of one author in one commit.
Land(a) ==
  /\ a \notin AuthorsOf(line)
  /\ line' = Append(line, a)
  /\ tree' = Overlay(tree, a)
  /\ UNCHANGED reported

\* The caller is told of a commit only when it is on the branch.
Report(c) ==
  /\ c \in AuthorsOf(line)
  /\ reported' = reported \cup {c}
  /\ UNCHANGED <<line, tree>>

Next ==
  \/ \E a \in Authors : Land(a)
  \/ \E c \in Calls : Report(c)

Spec == Init /\ [][Next]_vars
=============================================================================
