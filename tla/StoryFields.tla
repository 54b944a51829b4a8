---------------------------- MODULE StoryFields ----------------------------
(***************************************************************************)
(* What the story documents promise to the editor, the code generation     *)
(* page and the export: a story's text, its code generation and its issue  *)
(* are three independent parts, each changed by its own writers in single  *)
(* steps that leave the other parts alone.  Backlog implements it with     *)
(* whole documents that are read, changed and put back.                    *)
(***************************************************************************)
CONSTANTS
  Stories,
  Runs,      \* code generation runs
  Edits,     \* edits by humans
  Exports,   \* exports to the issue tracker
  Nothing    \* no commit, no issue

VARIABLES
  edits,       \* every story's edit_history_ref
  generation,  \* its code_generation_status
  commit,      \* its generated_code_commit_sha, as the run that made it
  issue        \* its external_issue_key, as the export that made it

vars == <<edits, generation, commit, issue>>

GenerationStatus == {"not_generated", "generating", "generated", "failed"}

Init ==
  /\ edits = [s \in Stories |-> {}]
  /\ generation = [s \in Stories |-> "not_generated"]
  /\ commit = [s \in Stories |-> Nothing]
  /\ issue = [s \in Stories |-> Nothing]

Edit(s, e) ==
  /\ edits' = [edits EXCEPT ![s] = @ \cup {e}]
  /\ UNCHANGED <<generation, commit, issue>>

\* Generation starts or fails; an earlier commit stays.
Mark(s, g) ==
  /\ generation' = [generation EXCEPT ![s] = g]
  /\ UNCHANGED <<edits, commit, issue>>

Generated(s, r) ==
  /\ generation' = [generation EXCEPT ![s] = "generated"]
  /\ commit' = [commit EXCEPT ![s] = r]
  /\ UNCHANGED <<edits, issue>>

Exported(s, x) ==
  /\ issue' = [issue EXCEPT ![s] = x]
  /\ UNCHANGED <<edits, generation, commit>>

Next ==
  \E s \in Stories :
    \/ \E e \in Edits : Edit(s, e)
    \/ \E g \in {"generating", "failed"} : Mark(s, g)
    \/ \E r \in Runs : Generated(s, r)
    \/ \E x \in Exports : Exported(s, x)

Spec == Init /\ [][Next]_vars
=============================================================================
