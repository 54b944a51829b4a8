------------------------ MODULE CodegenCommitProofs ------------------------
(***************************************************************************)
(* What codegen.commit_files guarantees for any number of concurrent       *)
(* calls, pushes, files, retries and faults.                               *)
(***************************************************************************)
EXTENDS CodegenCommit, TLAPS

-----------------------------------------------------------------------------
(* The inductive invariant *)

Landed == AuthorsOf(tip.line)

\* Where a call is tells whether its commit is on the branch and audited.
PlaceInv ==
  /\ audited \subseteq Landed
  /\ \A c \in Calls :
       /\ at[c] \in {"new", "reading", "updating", "rejected"} => c \notin Landed
       /\ at[c] \in {"auditing", "done"} => c \in Landed
       /\ at[c] = "done" => c \in audited
       /\ caller[c] = "returned" => at[c] = "done"

\* Between the POST of a commit and the PATCH, its parent is the tip the
\* branch still has or once had.
PostedInv ==
  \A c \in Calls : at[c] = "updating" =>
    LET p == posted[c]
        n == Len(posted[c].line)
    IN  /\ n \in 1 .. Len(tip.line) + 1
        /\ p.line[n] = c
        /\ \A i \in 1 .. n - 1 : p.line[i] = tip.line[i]
        /\ n = Len(tip.line) + 1 => p.tree = Overlay(tip.tree, c)

\* Every refused update has seen one more commit of somebody else.
LengthInv ==
  \A c \in Calls :
    /\ at[c] = "new" => attempt[c] = 0
    /\ at[c] = "reading" => Len(tip.line) - began[c] >= attempt[c]
    /\ at[c] = "updating" => Len(posted[c].line) - 1 - began[c] >= attempt[c]
    /\ at[c] = "rejected" /\ c \notin Refused =>
         Len(tip.line) - began[c] >= MaxRefUpdateRetries

IInv == TypeOK /\ PlaceInv /\ PostedInv /\ LengthInv

-----------------------------------------------------------------------------
(* Lemmas about commits *)

\* A commit on top of another holds what the other holds and its author.
LEMMA OnTopOfFacts ==
  ASSUME NEW p \in Commit, NEW a \in Authors
  PROVE  LET q == OnTopOf(p, a)
             n == Len(p.line)
         IN  /\ q \in Commit
             /\ Len(q.line) = n + 1
             /\ q.line[n + 1] = a
             /\ \A i \in 1 .. n : q.line[i] = p.line[i]
             /\ q.tree = Overlay(p.tree, a)
             /\ AuthorsOf(q.line) = AuthorsOf(p.line) \cup {a}
<1> DEFINE q == OnTopOf(p, a)
           n == Len(p.line)
           l == p.line
           m == q.line
<1>1. l \in Seq(Authors) /\ n \in Nat /\ p.tree \in [Files -> Authors \cup {NoFile}]
  BY DEF Commit
<1>2. m = Append(l, a) /\ q.tree = Overlay(p.tree, a)
  BY DEF OnTopOf
<1>3. /\ m \in Seq(Authors)
      /\ Len(m) = n + 1
      /\ m[n + 1] = a
      /\ \A i \in 1 .. n : m[i] = l[i]
  BY <1>1, <1>2
<1>4. q.tree \in [Files -> Authors \cup {NoFile}]
  BY <1>1, <1>2 DEF Overlay
<1>5. q \in Commit
  BY <1>1, <1>3, <1>4 DEF OnTopOf, Commit
<1>6. AuthorsOf(m) = AuthorsOf(l) \cup {a}
  <2>1. DOMAIN m = 1 .. n + 1 /\ DOMAIN l = 1 .. n
    BY <1>1, <1>3
  <2>2. ASSUME NEW x \in AuthorsOf(m)
        PROVE  x \in AuthorsOf(l) \cup {a}
    <3>1. PICK i \in 1 .. n + 1 : x = m[i]
      BY <2>1, <2>2 DEF AuthorsOf
    <3>2. CASE i = n + 1
      BY <3>1, <3>2, <1>3
    <3>3. CASE i \in 1 .. n
      BY <3>1, <3>3, <1>3, <2>1 DEF AuthorsOf
    <3> QED
      BY <3>1, <3>2, <3>3, <1>1
  <2>3. ASSUME NEW x \in AuthorsOf(l)
        PROVE  x \in AuthorsOf(m)
    <3>1. PICK i \in 1 .. n : x = l[i]
      BY <2>1, <2>3 DEF AuthorsOf
    <3>2. i \in DOMAIN m /\ m[i] = x
      BY <3>1, <1>1, <1>3, <2>1
    <3> QED
      BY <3>2 DEF AuthorsOf
  <2>4. a \in AuthorsOf(m)
    <3>1. n + 1 \in DOMAIN m
      BY <1>1, <2>1
    <3> QED
      BY <3>1, <1>3 DEF AuthorsOf
  <2> QED
    BY <2>2, <2>3, <2>4
<1> QED
  BY <1>2, <1>3, <1>5, <1>6

\* The compare-and-swap: an update GitHub accepts is of a commit whose
\* parent is the branch's tip.
LEMMA AcceptedIsOnTop ==
  ASSUME IInv, NEW c \in Calls, at[c] = "updating", FastForward(posted[c])
  PROVE  posted[c] = OnTopOf(tip, c)
<1> DEFINE p == posted[c]
           n == Len(p.line)
           k == Len(tip.line)
<1>1. p \in Commit /\ tip \in Commit
  BY DEF IInv, TypeOK
<1>2. /\ p = [line |-> p.line, tree |-> p.tree]
      /\ p.line \in Seq(Authors) /\ tip.line \in Seq(Authors)
      /\ n \in Nat /\ k \in Nat
  BY <1>1 DEF Commit
<1>3. /\ n \in 1 .. k + 1
      /\ p.line[n] = c
      /\ \A i \in 1 .. n - 1 : p.line[i] = tip.line[i]
      /\ n = k + 1 => p.tree = Overlay(tip.tree, c)
  BY DEF IInv, PostedInv
<1>4. k <= n /\ \A i \in 1 .. k : tip.line[i] = p.line[i]
  BY DEF FastForward, IsAncestor
<1>5. c \notin AuthorsOf(tip.line)
  BY DEF IInv, PlaceInv, Landed
<1>6. n = k + 1
  <2>1. SUFFICES ASSUME n = k PROVE FALSE
    BY <1>2, <1>3, <1>4
  <2>2. n \in DOMAIN tip.line /\ tip.line[n] = c
    BY <2>1, <1>2, <1>3, <1>4
  <2> QED
    BY <2>2, <1>5 DEF AuthorsOf
<1>7. p.line = Append(tip.line, c)
  <2>1. c \in Authors
    BY DEF Authors
  <2> QED
    BY <2>1, <1>2, <1>3, <1>6
<1> QED
  BY <1>2, <1>3, <1>6, <1>7 DEF OnTopOf

\* An update is refused only when the branch has grown since the call read
\* it: one commit more than the refusals before.
LEMMA RefusedMeansGrown ==
  ASSUME IInv, NEW c \in Calls, at[c] = "updating", ~FastForward(posted[c])
  PROVE  Len(tip.line) - began[c] >= attempt[c] + 1
<1> DEFINE p == posted[c]
           n == Len(p.line)
           k == Len(tip.line)
<1>1. n \in Nat /\ k \in Nat /\ began[c] \in Nat /\ attempt[c] \in Nat
  BY RefRetriesAssumption DEF IInv, TypeOK, Commit
<1>2. n \in 1 .. k + 1 /\ \A i \in 1 .. n - 1 : p.line[i] = tip.line[i]
  BY DEF IInv, PostedInv
<1>3. SUFFICES ASSUME n = k + 1 PROVE FALSE
  <2>1. n - 1 - began[c] >= attempt[c]
    BY DEF IInv, LengthInv
  <2>2. n \in 1 .. k + 1
    BY <1>2
  <2>3. ASSUME n # k + 1
        PROVE  k - began[c] >= attempt[c] + 1
    <3> HIDE DEF n, k
    <3> QED
      BY <2>1, <2>2, <2>3, <1>1
  <2> QED
    BY <2>3
<1>4. k <= n /\ \A i \in 1 .. k : tip.line[i] = p.line[i]
  BY <1>1, <1>2, <1>3
<1> QED
  BY <1>4 DEF FastForward, IsAncestor

\* The branch grows by one commit: whoever else has posted one keeps it, on a
\* tip the branch once had.
LEMMA Grows ==
  ASSUME IInv, NEW a \in Authors, tip' = OnTopOf(tip, a)
  PROVE  /\ tip' \in Commit
         /\ Landed' = Landed \cup {a}
         /\ Len(tip.line) \in Nat
         /\ Len(tip'.line) = Len(tip.line) + 1
         /\ \A d \in Calls : at[d] = "updating" =>
              LET p == posted[d]
                  n == Len(posted[d].line)
              IN  /\ n \in 1 .. Len(tip'.line) + 1
                  /\ p.line[n] = d
                  /\ \A i \in 1 .. n - 1 : p.line[i] = tip'.line[i]
                  /\ n = Len(tip'.line) + 1 => p.tree = Overlay(tip'.tree, d)
<1> DEFINE k == Len(tip.line)
           l == tip'.line
<1>1. tip \in Commit
  BY DEF IInv, TypeOK
<1>2. k \in Nat
  BY <1>1 DEF Commit
<1>3. /\ tip' \in Commit
      /\ Len(l) = k + 1
      /\ \A i \in 1 .. k : l[i] = tip.line[i]
      /\ AuthorsOf(l) = AuthorsOf(tip.line) \cup {a}
  BY <1>1, OnTopOfFacts
<1>4. ASSUME NEW d \in Calls, at[d] = "updating"
      PROVE  LET p == posted[d]
                 n == Len(posted[d].line)
             IN  /\ n \in 1 .. Len(l) + 1
                 /\ p.line[n] = d
                 /\ \A i \in 1 .. n - 1 : p.line[i] = l[i]
                 /\ n = Len(l) + 1 => p.tree = Overlay(tip'.tree, d)
  <2> DEFINE p == posted[d]
             n == Len(p.line)
  <2>1. /\ n \in 1 .. k + 1
        /\ p.line[n] = d
        /\ \A i \in 1 .. n - 1 : p.line[i] = tip.line[i]
    BY <1>4 DEF IInv, PostedInv
  <2> HIDE DEF k, l
  <2> QED
    BY <2>1, <1>2, <1>3
<1> QED
  BY <1>2, <1>3, <1>4 DEF Landed

-----------------------------------------------------------------------------
(* The invariant holds initially and is preserved *)

\* No call has begun, and the branch is as it was created.
LEMMA InitInv == Init => IInv
<1> SUFFICES ASSUME Init PROVE IInv
  OBVIOUS
<1> USE DEF Init
<1>1. Root \in Commit /\ Root.line = <<>>
  BY DEF Root, Commit
<1>2. TypeOK
  BY <1>1, RefRetriesAssumption, GitFaultsAssumption DEF TypeOK, Place
<1>3. PlaceInv
  BY <1>1 DEF PlaceInv, Landed, AuthorsOf
<1>4. PostedInv /\ LengthInv
  BY DEF PostedInv, LengthInv
<1> QED
  BY <1>2, <1>3, <1>4 DEF IInv

\* One step per action; the branch changes in UpdateRef, LoseReply and OtherPush.
LEMMA NextInv == IInv /\ [Next]_vars => IInv'
<1> SUFFICES ASSUME IInv, [Next]_vars PROVE IInv'
  OBVIOUS
<1> USE RefRetriesAssumption, GitFaultsAssumption DEF IInv
<1>0. /\ Len(tip.line) \in Nat
      /\ Root \in Commit
      /\ \A c \in Calls :
           /\ c \in Authors
           /\ Len(posted[c].line) \in Nat
           /\ began[c] \in Nat
           /\ attempt[c] \in Nat
  BY DEF TypeOK, Commit, Root, Authors
<1>1. ASSUME NEW c \in Calls, Request(c)
      PROVE  IInv'
  <2> USE <1>1 DEF Request, Goto
  <2>1. TypeOK'
    BY <1>0 DEF TypeOK, Place, Busy
  <2>2. PlaceInv'
    BY DEF PlaceInv, Landed, TypeOK
  <2>3. PostedInv'
    BY DEF PostedInv, TypeOK
  <2>4. LengthInv'
    <3>1. /\ at'[c] = IF c \in Refused THEN "rejected" ELSE "reading"
          /\ began'[c] = Len(tip.line)
          /\ attempt[c] = 0
      BY DEF TypeOK, LengthInv
    <3>2. \A d \in Calls : d # c => UNCHANGED <<at[d], began[d]>>
      BY DEF TypeOK
    <3> QED
      BY <3>1, <3>2, <1>0 DEF LengthInv
  <2> QED
    BY <2>1, <2>2, <2>3, <2>4
<1>2. ASSUME NEW c \in Calls, PostCommit(c)
      PROVE  IInv'
  <2> USE <1>2 DEF PostCommit, Goto
  <2> DEFINE q == OnTopOf(tip, c)
             k == Len(tip.line)
  <2>1. /\ q \in Commit
        /\ Len(q.line) = k + 1
        /\ q.line[k + 1] = c
        /\ \A i \in 1 .. k : q.line[i] = tip.line[i]
        /\ q.tree = Overlay(tip.tree, c)
    BY <1>0, OnTopOfFacts DEF TypeOK
  <2> HIDE DEF q
  <2>2. posted' = [posted EXCEPT ![c] = q]
    BY DEF q
  <2>3. TypeOK'
    BY <2>1, <2>2 DEF TypeOK, Place, Busy
  <2>4. PlaceInv'
    BY DEF PlaceInv, Landed, TypeOK
  <2>5. PostedInv'
    BY <2>1, <2>2, <1>0 DEF PostedInv, TypeOK
  <2>6. LengthInv'
    BY <2>1, <2>2, <1>0 DEF LengthInv, TypeOK
  <2> QED
    BY <2>3, <2>4, <2>5, <2>6
<1>3. ASSUME NEW c \in Calls, UpdateRef(c)
      PROVE  IInv'
  <2> USE <1>3 DEF UpdateRef, Leave, Goto
  <2>1. tip' = OnTopOf(tip, c)
    BY AcceptedIsOnTop
  <2>2. TypeOK'
    BY <2>1, <1>0, Grows DEF TypeOK, Place, Busy
  <2>3. PlaceInv'
    BY <2>1, <1>0, Grows DEF PlaceInv, TypeOK
  <2>4. PostedInv'
    <3>1. at'[c] = "auditing"
      BY DEF TypeOK
    <3>2. \A d \in Calls : d # c => UNCHANGED <<at[d], posted[d]>>
      BY DEF TypeOK
    <3> QED
      BY <3>1, <3>2, <2>1, <1>0, Grows DEF PostedInv
  <2>5. LengthInv'
    <3>1. Len(tip'.line) = Len(tip.line) + 1
      BY <2>1, <1>0, Grows
    <3>2. at' = [at EXCEPT ![c] = "auditing"] /\ UNCHANGED began
      OBVIOUS
    <3>3. \A d \in Calls : d # c => UNCHANGED <<at[d], attempt[d], posted[d]>>
      BY DEF TypeOK
    <3>4. at'[c] = "auditing"
      BY <3>2 DEF TypeOK
    <3> QED
      BY <3>1, <3>2, <3>3, <3>4, <1>0 DEF LengthInv
  <2> QED
    BY <2>2, <2>3, <2>4, <2>5
<1>4. ASSUME NEW c \in Calls, RefMoved(c)
      PROVE  IInv'
  <2> USE <1>4 DEF RefMoved, AfterRefMoved, Again, Leave, Goto
  <2>1. Len(tip.line) - began[c] >= attempt[c] + 1
    BY RefusedMeansGrown
  <2>2. CASE attempt[c] + 1 < MaxRefUpdateRetries
    <3> USE <2>2
    <3>1. /\ at' = [at EXCEPT ![c] = "reading"]
          /\ attempt' = [attempt EXCEPT ![c] = attempt[c] + 1]
          /\ UNCHANGED <<tip, posted, audited, caller, faults, began>>
      OBVIOUS
    <3>2. attempt[c] + 1 \in 0 .. MaxRefUpdateRetries - 1
      BY <1>0
    <3>3. TypeOK'
      BY <3>1, <3>2 DEF TypeOK, Place, Busy
    <3>4. PlaceInv' /\ PostedInv'
      BY <3>1 DEF PlaceInv, PostedInv, Landed, TypeOK
    <3>5. LengthInv'
      <4>1. at'[c] = "reading" /\ attempt'[c] = attempt[c] + 1
        BY <3>1 DEF TypeOK
      <4>2. \A d \in Calls : d # c => UNCHANGED <<at[d], attempt[d]>>
        BY <3>1 DEF TypeOK
      <4> QED
        BY <4>1, <4>2, <2>1, <3>1 DEF LengthInv
    <3> QED
      BY <3>3, <3>4, <3>5
  <2>3. CASE ~(attempt[c] + 1 < MaxRefUpdateRetries)
    <3> USE <2>3
    <3>1. /\ at' = [at EXCEPT ![c] = "rejected"]
          /\ attempt' = [attempt EXCEPT ![c] = 0]
          /\ posted' = [posted EXCEPT ![c] = Root]
          /\ UNCHANGED <<tip, audited, caller, faults, began>>
      OBVIOUS
    <3>2. TypeOK'
      BY <3>1, <1>0 DEF TypeOK, Place, Busy
    <3>3. PlaceInv' /\ PostedInv'
      BY <3>1 DEF PlaceInv, PostedInv, Landed, TypeOK
    <3>4. LengthInv'
      <4>1. at'[c] = "rejected"
        BY <3>1 DEF TypeOK
      <4>2. \A d \in Calls : d # c => UNCHANGED <<at[d], attempt[d], posted[d]>>
        BY <3>1 DEF TypeOK
      <4>3. attempt[c] = MaxRefUpdateRetries - 1
        BY <1>0 DEF TypeOK
      <4>4. Len(tip.line) - began[c] >= MaxRefUpdateRetries
        BY <2>1, <4>3, <1>0
      <4> QED
        BY <4>1, <4>2, <4>4, <3>1 DEF LengthInv
    <3> QED
      BY <3>2, <3>3, <3>4
  <2> QED
    BY <2>2, <2>3
<1>5. ASSUME NEW c \in Calls, AppendAudit(c)
      PROVE  IInv'
  <2> USE <1>5 DEF AppendAudit, Leave, Goto
  <2>1. TypeOK'
    BY <1>0 DEF TypeOK, Place, Busy
  <2>2. PlaceInv'
    BY DEF PlaceInv, Landed, TypeOK
  <2>3. PostedInv' /\ LengthInv'
    BY DEF PostedInv, LengthInv, TypeOK
  <2> QED
    BY <2>1, <2>2, <2>3
<1>6. ASSUME NEW c \in Calls, Fail(c)
      PROVE  IInv'
  <2> USE <1>6 DEF Fail, AfterFault, Fault, Leave, Goto
  <2>1. TypeOK'
    BY <1>0 DEF TypeOK, Place, Busy
  <2>2. PlaceInv'
    BY DEF PlaceInv, Landed, TypeOK, Busy
  <2>3. PostedInv' /\ LengthInv'
    BY DEF PostedInv, LengthInv, TypeOK
  <2> QED
    BY <2>1, <2>2, <2>3
<1>7. ASSUME NEW c \in Calls, LoseReply(c)
      PROVE  IInv'
  <2> USE <1>7 DEF LoseReply, AfterFault, Fault, Leave, Goto
  <2>1. CASE at[c] = "updating"
    <3>1. tip' = OnTopOf(tip, c) /\ audited' = audited
      BY <2>1, AcceptedIsOnTop
    <3>2. TypeOK'
      BY <3>1, <1>0, Grows DEF TypeOK, Place, Busy
    <3>3. PlaceInv'
      BY <3>1, <2>1, <1>0, Grows DEF PlaceInv, TypeOK
    <3>4. PostedInv'
      BY <3>1, <1>0, Grows DEF PostedInv, TypeOK
    <3>5. LengthInv'
      <4>1. Len(tip'.line) = Len(tip.line) + 1
        BY <3>1, <1>0, Grows
      <4>2. \A d \in Calls : d # c => UNCHANGED <<at[d], attempt[d], posted[d]>>
        BY DEF TypeOK
      <4>3. at'[c] = "failed" /\ UNCHANGED began
        BY DEF TypeOK
      <4> QED
        BY SMTT(30), <4>1, <4>2, <4>3, <1>0 DEF LengthInv
    <3> QED
      BY <3>2, <3>3, <3>4, <3>5
  <2>2. CASE at[c] = "auditing"
    <3>1. tip' = tip /\ audited' = audited \cup {c}
      BY <2>2
    <3>2. TypeOK'
      BY <3>1, <1>0 DEF TypeOK, Place, Busy
    <3>3. PlaceInv'
      BY <3>1, <2>2 DEF PlaceInv, Landed, TypeOK
    <3>4. PostedInv' /\ LengthInv'
      BY ZenonT(60), <3>1 DEF PostedInv, LengthInv, TypeOK
    <3> QED
      BY <3>2, <3>3, <3>4
  <2> QED
    BY <2>1, <2>2
<1>8. ASSUME NEW c \in Calls, Answer(c) \/ GiveUp(c)
      PROVE  IInv'
  <2> USE <1>8 DEF Answer, GiveUp, callVars
  <2>1. TypeOK'
    BY DEF TypeOK
  <2>2. PlaceInv'
    BY DEF PlaceInv, Landed, TypeOK
  <2>3. PostedInv'
    BY DEF PostedInv
  <2>4. LengthInv'
    BY DEF LengthInv
  <2> QED
    BY <2>1, <2>2, <2>3, <2>4
<1>9. ASSUME NEW o \in Others, OtherPush(o)
      PROVE  IInv'
  <2> USE <1>9 DEF OtherPush, callVars
  <2>1. o \in Authors /\ o \notin Calls
    BY AuthorsAssumption DEF Authors
  <2>2. TypeOK'
    BY <2>1, Grows DEF TypeOK
  <2>3. PlaceInv'
    BY <2>1, Grows DEF PlaceInv
  <2>4. PostedInv'
    BY <2>1, Grows DEF PostedInv
  <2>5. LengthInv'
    BY SMTT(30), <2>1, <1>0, Grows DEF LengthInv, TypeOK
  <2> QED
    BY <2>2, <2>3, <2>4, <2>5
<1>10. CASE UNCHANGED vars
  BY <1>10 DEF vars, callVars, TypeOK, PlaceInv, Landed, PostedInv, LengthInv
<1> QED
  BY <1>1, <1>2, <1>3, <1>4, <1>5, <1>6, <1>7, <1>8, <1>9, <1>10 DEF Next, CallStep

-----------------------------------------------------------------------------
(* Theorems *)

\* The inductive invariant holds in every reachable state.
THEOREM Invariance == Spec => []IInv
<1> QED
  BY InitInv, NextInv, PTL DEF Spec

\* The branch, the calls and the audit log stay well formed; no call makes
\* more than MaxRefUpdateRetries attempts.
THEOREM TypeCorrect == Spec => []TypeOK
<1>1. IInv => TypeOK
  BY DEF IInv
<1> QED
  BY <1>1, Invariance, PTL

\* A valid request is rejected only after that many commits of others landed.
THEOREM Rejections == Spec => []RejectionMeansMoved
<1>1. IInv => RejectionMeansMoved
  BY DEF IInv, LengthInv, RejectionMeansMoved
<1> QED
  BY <1>1, Invariance, PTL

\* Audit events are of commits on the branch; reported commits are audited.
THEOREM AuditTrail == Spec => []AuditIsTruthful
<1>1. IInv => AuditIsTruthful
  BY DEF IInv, PlaceInv, Landed, AuditIsTruthful
<1> QED
  BY <1>1, Invariance, PTL

\* The compare-and-swap with its retries implements the log: every step lands
\* one author's commit on top of the branch, reports a commit that is there,
\* or shows no change.
THEOREM Refinement == Spec => ImplementsBranch
<1> DEFINE reported == {c \in Calls : caller[c] = "returned"}
<1>1. Init => Branch!Init
  BY DEF Init, Branch!Init, Root
<1>2. IInv /\ [Next]_vars => [Branch!Next]_(Branch!vars)
  <2> SUFFICES ASSUME IInv, [Next]_vars
               PROVE  Branch!Next \/ UNCHANGED Branch!vars
    OBVIOUS
  <2>1. ASSUME NEW a \in Authors, a \notin Landed, tip' = OnTopOf(tip, a),
               UNCHANGED caller
        PROVE  Branch!Next
    <3>1. a \notin Branch!AuthorsOf(tip.line)
      BY <2>1 DEF Landed, AuthorsOf, Branch!AuthorsOf
    <3>2. tip'.line = Append(tip.line, a) /\ tip'.tree = Overlay(tip.tree, a)
      BY <2>1 DEF OnTopOf
    <3>3. Branch!Land(a)
      BY <2>1, <3>1, <3>2 DEF Branch!Land, Overlay, Branch!Overlay
    <3> QED
      BY <2>1, <3>3 DEF Branch!Next, Authors, Branch!Authors
  <2>2. ASSUME UNCHANGED <<tip, caller>>
        PROVE  UNCHANGED Branch!vars
    BY <2>2 DEF Branch!vars
  <2>3. ASSUME NEW c \in Calls, UpdateRef(c) \/ LoseReply(c)
        PROVE  Branch!Next \/ UNCHANGED <<tip, caller>>
    <3>1. CASE at[c] = "updating"
      <4>1. c \in Authors /\ c \notin Landed
        BY <3>1 DEF Authors, IInv, PlaceInv
      <4>2. FastForward(posted[c]) /\ tip' = posted[c] /\ UNCHANGED caller
        BY <2>3, <3>1 DEF UpdateRef, LoseReply
      <4> QED
        BY <3>1, <4>1, <4>2, <2>1, AcceptedIsOnTop
    <3>2. CASE at[c] # "updating"
      BY <2>3, <3>2 DEF UpdateRef, LoseReply
    <3> QED
      BY <3>1, <3>2
  <2>4. ASSUME NEW c \in Calls, Answer(c)
        PROVE  Branch!Next \/ UNCHANGED Branch!vars
    <3>1. tip' = tip
      BY <2>4 DEF Answer
    <3>2. CASE at[c] = "done"
      <4>1. reported' = reported \cup {c}
        BY <2>4, <3>2 DEF Answer, IInv, TypeOK
      <4>2. c \in Branch!AuthorsOf(tip.line)
        BY <3>2 DEF IInv, PlaceInv, Landed, AuthorsOf, Branch!AuthorsOf
      <4>3. Branch!Report(c)
        BY <3>1, <4>1, <4>2 DEF Branch!Report
      <4> QED
        BY <4>3 DEF Branch!Next
    <3>3. CASE at[c] # "done"
      <4>1. reported' = reported
        BY <2>4, <3>3 DEF Answer, IInv, TypeOK
      <4> QED
        BY <3>1, <4>1 DEF Branch!vars
    <3> QED
      BY <3>2, <3>3
  <2>5. ASSUME NEW c \in Calls, Request(c) \/ GiveUp(c)
        PROVE  UNCHANGED Branch!vars
    <3>1. tip' = tip /\ caller'[c] # "returned" /\ caller[c] # "returned"
      BY <2>5 DEF Request, GiveUp, IInv, PlaceInv, TypeOK
    <3>2. \A d \in Calls : d # c => caller'[d] = caller[d]
      BY <2>5 DEF Request, GiveUp, IInv, TypeOK
    <3>3. reported' = reported
      BY <3>1, <3>2
    <3> QED
      BY <3>1, <3>3 DEF Branch!vars
  <2>6. ASSUME NEW c \in Calls, CallStep(c)
        PROVE  Branch!Next \/ UNCHANGED <<tip, caller>>
    BY <2>3, <2>6 DEF CallStep, PostCommit, RefMoved, AppendAudit, Fail
  <2>7. ASSUME NEW o \in Others, OtherPush(o)
        PROVE  Branch!Next
    BY <2>1, <2>7 DEF OtherPush, Authors, Landed
  <2> QED
    BY <2>2, <2>4, <2>5, <2>6, <2>7 DEF Next, vars
<1> QED
  BY <1>1, <1>2, Invariance, PTL DEF Spec, ImplementsBranch, Branch!Spec
-----------------------------------------------------------------------------
(* The retries are bounded *)

\* The steps a request has left at most: a commit and an update of the ref in
\* each attempt, and the audit event.
Left(c) ==
  CASE at[c] = "reading"  -> 2 * (MaxRefUpdateRetries - attempt[c]) + 1
    [] at[c] = "updating" -> 2 * (MaxRefUpdateRetries - attempt[c])
    [] at[c] = "auditing" -> 1
    [] OTHER              -> 0

\* A step of a request brings it nearer to its end.
LEMMA StepsCount ==
  ASSUME TypeOK, NEW c \in Calls, CallStep(c)
  PROVE  /\ Left(c)' < Left(c)
         /\ \A d \in Calls : d # c => at'[d] = at[d] /\ attempt'[d] = attempt[d]
<1> DEFINE M == MaxRefUpdateRetries
<1>1. /\ M \in Nat \ {0} /\ attempt[c] \in 0 .. M - 1
      /\ at \in [Calls -> Place] /\ attempt \in [Calls -> 0 .. M - 1]
  BY RefRetriesAssumption DEF TypeOK
<1>2. ASSUME NEW place, Goto(c, place)
      PROVE  at'[c] = place /\ \A d \in Calls : d # c => at'[d] = at[d]
  BY <1>1, <1>2 DEF Goto
<1>3. ASSUME at[c] \in Busy,
             \/ \E place \in {"done", "rejected", "failed"} : Leave(c, place)
             \/ at[c] = "updating" /\ Leave(c, "auditing")
      PROVE  /\ Left(c)' < Left(c)
             /\ \A d \in Calls : d # c => at'[d] = at[d] /\ attempt'[d] = attempt[d]
  <2>1. PICK place \in {"done", "rejected", "failed", "auditing"} :
          Leave(c, place) /\ (place = "auditing" => at[c] = "updating")
    BY <1>3
  <2>2. /\ at'[c] = place /\ attempt'[c] = 0
        /\ \A d \in Calls : d # c => at'[d] = at[d] /\ attempt'[d] = attempt[d]
    BY <1>1, <1>2, <2>1 DEF Leave
  <2> QED
    BY <1>1, <1>3, <2>1, <2>2 DEF Left, Busy
<1>4. CASE PostCommit(c)
  <2>1. at[c] = "reading" /\ at'[c] = "updating" /\ attempt' = attempt
    BY <1>2, <1>4 DEF PostCommit
  <2> QED
    BY <1>1, <1>2, <1>4, <2>1 DEF PostCommit, Left
<1>5. CASE RefMoved(c) /\ attempt[c] + 1 < M
  <2>1. /\ at[c] = "updating" /\ at'[c] = "reading" /\ attempt'[c] = attempt[c] + 1
        /\ \A d \in Calls : d # c => at'[d] = at[d] /\ attempt'[d] = attempt[d]
    BY <1>1, <1>2, <1>5 DEF RefMoved, AfterRefMoved, Again
  <2> QED
    BY <1>1, <2>1 DEF Left
<1>6. CASE RefMoved(c) /\ ~(attempt[c] + 1 < M)
  BY <1>3, <1>6 DEF RefMoved, AfterRefMoved, Busy
<1>7. CASE UpdateRef(c) \/ AppendAudit(c) \/ Fail(c) \/ LoseReply(c)
  BY <1>3, <1>7 DEF UpdateRef, AppendAudit, Fail, LoseReply, AfterFault, Busy
<1> QED
  BY <1>4, <1>5, <1>6, <1>7 DEF CallStep

\* However fast the branch moves, a request is over after two steps for every
\* attempt and one more: every step it takes is nearer to its end, and no other
\* request, no push and no caller that gives up takes it further away.
THEOREM RetriesAreBounded ==
  Spec => /\ [](\A c \in Calls : Left(c) \in 0 .. 2 * MaxRefUpdateRetries + 1)
          /\ [][\A c \in Calls :
                  at[c] \in Busy /\ (CallStep(c) \/ Left(c)' # Left(c)) => Left(c)' < Left(c)]_vars
<1> DEFINE Bound == \A c \in Calls : Left(c) \in 0 .. 2 * MaxRefUpdateRetries + 1
           Falls == \A c \in Calls :
             at[c] \in Busy /\ (CallStep(c) \/ Left(c)' # Left(c)) => Left(c)' < Left(c)
<1>1. TypeOK => Bound
  <2> SUFFICES ASSUME TypeOK, NEW c \in Calls
               PROVE  Left(c) \in 0 .. 2 * MaxRefUpdateRetries + 1
    OBVIOUS
  <2>1. MaxRefUpdateRetries \in Nat \ {0} /\ attempt[c] \in 0 .. MaxRefUpdateRetries - 1
    BY RefRetriesAssumption DEF TypeOK
  <2> QED
    BY <2>1 DEF Left
<1>2. TypeOK /\ [Next]_vars => [Falls]_vars
  <2> SUFFICES ASSUME TypeOK, Next, NEW c \in Calls,
                      at[c] \in Busy, CallStep(c) \/ Left(c)' # Left(c)
               PROVE  Left(c)' < Left(c)
    OBVIOUS
  <2>1. ASSUME at'[c] = at[c], attempt'[c] = attempt[c] PROVE Left(c)' = Left(c)
    BY <2>1 DEF Left
  <2>2. ASSUME NEW d \in Calls, Request(d) PROVE at'[c] = at[c] /\ attempt'[c] = attempt[c]
    BY <2>2 DEF Request, Goto, TypeOK, Busy
  <2>3. ASSUME NEW d \in Calls, Answer(d) \/ GiveUp(d)
        PROVE  at'[c] = at[c] /\ attempt'[c] = attempt[c]
    BY <2>3 DEF Answer, GiveUp, callVars
  <2>4. ASSUME NEW o \in Others, OtherPush(o)
        PROVE  at'[c] = at[c] /\ attempt'[c] = attempt[c]
    BY <2>4 DEF OtherPush, callVars
  <2>5. ASSUME NEW d \in Calls, CallStep(d), d # c
        PROVE  at'[c] = at[c] /\ attempt'[c] = attempt[c]
    BY <2>5, StepsCount
  <2> QED
    BY <2>1, <2>2, <2>3, <2>4, <2>5, StepsCount DEF Next
<1> QED
  BY <1>1, <1>2, TypeCorrect, PTL DEF Spec
=============================================================================
