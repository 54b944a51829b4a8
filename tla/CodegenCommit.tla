--------------------------- MODULE CodegenCommit ---------------------------
(***************************************************************************)
(* mcp_gateway/app/tools/codegen_tools.py: codegen.commit_files, which     *)
(* adds the generated files of a story to a GitHub branch as one commit    *)
(* with a compare-and-swap of the branch's ref, racing the commits of      *)
(* other stories, repeated requests for the same story and the pushes of   *)
(* anybody else.                                                           *)
(*                                                                         *)
(* A commit is the authors of its line of history, itself last, and the    *)
(* author of every file in its tree: all that tells two commits of this    *)
(* branch apart.  Commits are immutable and nobody sees the blobs, the     *)
(* tree and the commit posted before the ref names them, so the requests   *)
(* from the read of the ref to the POST of the commit are one step.        *)
(***************************************************************************)
EXTENDS Sequences, Integers

CONSTANTS
  Calls,         \* requests, one each; a repeated one is another call
  Refused,       \* those of them that fail validation or find no target
  Others,        \* pushes to the branch by anybody else
  Files,         \* paths in the repository
  Writes,        \* the files every call or push brings with it
  NoFile,
  MaxRefUpdateRetries,
  MaxFaults      \* bound: requests to GitHub or CouchDB that fail

ASSUME AuthorsAssumption == Calls \cap Others = {} /\ NoFile \notin Calls \cup Others
ASSUME RefusedAssumption == Refused \subseteq Calls
ASSUME WritesAssumption == Writes \in [Calls \cup Others -> SUBSET Files]
ASSUME RefRetriesAssumption == MaxRefUpdateRetries \in Nat \ {0}
ASSUME GitFaultsAssumption == MaxFaults \in Nat

VARIABLES
  tip,       \* the commit the branch's ref names
  at,        \* where every call is in codegen_commit_files
  attempt,   \* refused ref updates of the call
  posted,    \* the commit the call posted, on the tip it read
  audited,   \* the calls with a codegen_commit_files event in the audit log
  caller,    \* what the agent that made the call knows
  faults,
  began      \* history: the length of the branch when the call started

callVars == <<at, attempt, posted>>
vars == <<tip, callVars, audited, caller, faults, began>>

-----------------------------------------------------------------------------
(* The repository *)

Authors == Calls \cup Others
Commit == [line: Seq(Authors), tree: [Files -> Authors \cup {NoFile}]]
Root == [line |-> <<>>, tree |-> [f \in Files |-> NoFile]]

AuthorsOf(line) == {line[i] : i \in DOMAIN line}

Overlay(tree, a) == [f \in Files |-> IF f \in Writes[a] THEN a ELSE tree[f]]

\* The commit with parent p and p's tree under a's files.
OnTopOf(p, a) == [line |-> Append(p.line, a), tree |-> Overlay(p.tree, a)]

IsAncestor(p, c) ==
  /\ Len(p.line) <= Len(c.line)
  /\ \A i \in 1 .. Len(p.line) : p.line[i] = c.line[i]

\* Mutant: "force": true in the PATCH.
AnyUpdate(c) == TRUE

\* GitHub updates a ref without "force" only to a descendant of its commit
\* and answers 422 otherwise.
FastForward(c) == IsAncestor(tip, c)

-----------------------------------------------------------------------------
(* Steps of a call *)

Busy == {"reading", "updating", "auditing"}
Place == Busy \cup {"new", "done", "rejected", "failed"}

Goto(c, place) == at' = [at EXCEPT ![c] = place]

\* The loop is over, and its local variables with it.
Leave(c, place) ==
  /\ Goto(c, place)
  /\ attempt' = [attempt EXCEPT ![c] = 0]
  /\ posted' = [posted EXCEPT ![c] = Root]
Fault == faults < MaxFaults /\ faults' = faults + 1

Init ==
  /\ tip = Root
  /\ at = [c \in Calls |-> "new"]
  /\ attempt = [c \in Calls |-> 0]
  /\ posted = [c \in Calls |-> Root]
  /\ audited = {}
  /\ caller = [c \in Calls |-> "idle"]
  /\ faults = 0
  /\ began = [c \in Calls |-> 0]

\* The validations and the look-up of token and repository come first.
Request(c) ==
  /\ at[c] = "new"
  /\ caller' = [caller EXCEPT ![c] = "waiting"]
  /\ began' = [began EXCEPT ![c] = Len(tip.line)]
  /\ Goto(c, IF c \in Refused THEN "rejected" ELSE "reading")
  /\ UNCHANGED <<tip, attempt, posted, audited, faults>>

\* GET ref, GET commit, POST blobs, POST tree, POST commit.
PostCommit(c) ==
  /\ at[c] = "reading"
  /\ posted' = [posted EXCEPT ![c] = OnTopOf(tip, c)]
  /\ Goto(c, "updating")
  /\ UNCHANGED <<tip, attempt, audited, caller, faults, began>>

UpdateRef(c) ==
  /\ at[c] = "updating"
  /\ FastForward(posted[c])
  /\ tip' = posted[c]
  /\ Leave(c, "auditing")
  /\ UNCHANGED <<audited, caller, faults, began>>

Again(c, place) ==
  /\ Goto(c, place)
  /\ attempt' = [attempt EXCEPT ![c] = @ + 1]
  /\ UNCHANGED posted

\* Mutant: only the PATCH is retried.
PatchAgain(c) ==
  IF attempt[c] + 1 < MaxRefUpdateRetries THEN Again(c, "updating") ELSE Leave(c, "rejected")

\* Mutant: the PATCH is retried until it succeeds.
PatchForEver(c) == UNCHANGED <<attempt, at, posted>>

\* Mutant: the loop's last refusal is not raised.
NoRejection(c) ==
  IF attempt[c] + 1 < MaxRefUpdateRetries THEN Again(c, "reading") ELSE Leave(c, "auditing")

\* Mutant: one attempt too many.
OneAttemptMore(c) ==
  IF attempt[c] < MaxRefUpdateRetries THEN Again(c, "reading") ELSE Leave(c, "rejected")

\* The whole sequence starts again from a fresh tip, a bounded number of times.
AfterRefMoved(c) ==
  IF attempt[c] + 1 < MaxRefUpdateRetries THEN Again(c, "reading") ELSE Leave(c, "rejected")

RefMoved(c) ==
  /\ at[c] = "updating"
  /\ ~FastForward(posted[c])
  /\ AfterRefMoved(c)
  /\ UNCHANGED <<tip, audited, caller, faults, began>>

AppendAudit(c) ==
  /\ at[c] = "auditing"
  /\ audited' = audited \cup {c}
  /\ Leave(c, "done")
  /\ UNCHANGED <<tip, caller, faults, began>>

\* raise_for_status, a timeout and a failed audit append all leave the loop.
AfterFault(c) == Leave(c, "failed")

\* A request of the sequence fails without effect.
Fail(c) ==
  /\ at[c] \in Busy
  /\ Fault
  /\ AfterFault(c)
  /\ UNCHANGED <<tip, audited, caller, began>>

\* The PATCH or the append takes effect and its answer is lost.
LoseReply(c) ==
  /\ Fault
  /\ \/ /\ at[c] = "updating"
        /\ FastForward(posted[c])
        /\ tip' = posted[c]
        /\ UNCHANGED audited
     \/ /\ at[c] = "auditing"
        /\ audited' = audited \cup {c}
        /\ UNCHANGED tip
  /\ AfterFault(c)
  /\ UNCHANGED <<caller, began>>

-----------------------------------------------------------------------------
(* The agent and the others *)

\* The tool's result or error reaches the agent.
Answer(c) ==
  /\ caller[c] = "waiting"
  /\ at[c] \notin Busy
  /\ caller' = [caller EXCEPT ![c] = IF at[c] = "done" THEN "returned" ELSE "raised"]
  /\ UNCHANGED <<tip, callVars, audited, faults, began>>

\* The MCP client's timeout passes; the tool goes on in the gateway.
GiveUp(c) ==
  /\ caller[c] = "waiting"
  /\ caller' = [caller EXCEPT ![c] = "raised"]
  /\ UNCHANGED <<tip, callVars, audited, faults, began>>

\* Anybody else pushes a commit of theirs.
OtherPush(o) ==
  /\ o \notin AuthorsOf(tip.line)
  /\ tip' = OnTopOf(tip, o)
  /\ UNCHANGED <<callVars, audited, caller, faults, began>>

-----------------------------------------------------------------------------

CallStep(c) ==
  \/ PostCommit(c)
  \/ UpdateRef(c)
  \/ RefMoved(c)
  \/ AppendAudit(c)
  \/ Fail(c)
  \/ LoseReply(c)

Next ==
  \/ \E c \in Calls : Request(c) \/ CallStep(c) \/ Answer(c) \/ GiveUp(c)
  \/ \E o \in Others : OtherPush(o)

Spec == Init /\ [][Next]_vars

\* The gateway's thread goes on: each request is answered or times out
\* (httpx.Client(timeout=30.0)).
FairSpec == Spec /\ \A c \in Calls : WF_vars(CallStep(c))

-----------------------------------------------------------------------------
(* Properties *)

\* The branch, the calls and the audit log are well formed.
TypeOK ==
  /\ tip \in Commit
  /\ at \in [Calls -> Place]
  /\ attempt \in [Calls -> 0 .. MaxRefUpdateRetries - 1]
  /\ posted \in [Calls -> Commit]
  /\ audited \subseteq Calls
  /\ caller \in [Calls -> {"idle", "waiting", "returned", "raised"}]
  /\ faults \in 0 .. MaxFaults
  /\ began \in [Calls -> Nat]

\* The branch is a log: every request lands at most once, as one commit with
\* all its files on top of all that was there, no commit and no file of
\* another story or of anybody else is lost whatever races or fails, and a
\* call that returns names a commit on the branch.
Branch == INSTANCE BranchLog WITH
  line <- tip.line,
  tree <- tip.tree,
  reported <- {c \in Calls : caller[c] = "returned"}

ImplementsBranch == Branch!Spec

\* "branch moved concurrently N times" is true when it is said: a valid
\* request is rejected only if that many other commits landed meanwhile, so
\* somebody always gets through.
RejectionMeansMoved ==
  \A c \in Calls \ Refused :
    at[c] = "rejected" => Len(tip.line) - began[c] >= MaxRefUpdateRetries

\* The audit log has an event of a commit only if the commit is on the
\* branch, and of every commit whose caller was told of it.  (The converse
\* of the first fails: the append is the call's last step and may fail.)
AuditIsTruthful ==
  /\ audited \subseteq AuthorsOf(tip.line)
  /\ \A c \in Calls : caller[c] = "returned" => c \in audited

\* Every request ends, however often the branch moves.
CallsEnd == \A c \in Calls : at[c] \in Busy ~> at[c] \notin Busy
=============================================================================
