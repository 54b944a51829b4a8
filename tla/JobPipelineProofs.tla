-------------------------- MODULE JobPipelineProofs --------------------------
(***************************************************************************)
(* What JobPipeline guarantees for any mix of kinds of jobs and any number *)
(* of exceptions, crashes and losses of Redis.                             *)
(***************************************************************************)
EXTENDS JobPipeline, FiniteSetTheorems, SequenceTheorems, TLAPS

-----------------------------------------------------------------------------
(* The inductive invariant *)

Has(s, op) == \E i \in DOMAIN s : s[i] = op

\* Only the last stage of a chain finishes the job, after its checkpoint.
FinishesLast(g, s) ==
  /\ Has(s, "finish") => g = Chain[Len(Chain)]
  /\ \A i, j \in DOMAIN s : s[i] = "completed" /\ s[j] = "finish" => i < j

\* Every result is written after a check, and every other one after a check of
\* its own; so is code after it was generated.
Guarded(s) ==
  \A k \in DOMAIN s : s[k] = "output" => \E j \in 1 .. k - 1 : s[j] = "check"

Bars(op) == op = "output" \/ (op = "llm" /\ kind = "code")

Spaced(s) ==
  \A i, k \in DOMAIN s : i < k /\ Bars(s[i]) /\ s[k] = "output" =>
    \E j \in i + 1 .. k - 1 : s[j] = "check"

\* Where a stage is tells what it has recorded.
StageInv(g) ==
  /\ place[g] # "waiting" => \E i \in DOMAIN Chain : Chain[i] = g
  /\ place[g] \in {"waiting", "queued"} => ledger[g] = Unrecorded
  /\ place[g] = "live" =>
       /\ ~Has(todo, "completed") => ledger[g] = "completed"
       /\ FinishesLast(g, todo)
       /\ Spaced(todo)
  /\ place[g] = "killFinishing" => ledger[g] = "killed"
  /\ place[g] = "failFinishing" => ledger[g] = "failed"

\* A job that failed or was killed has one raised stage that says so.
OutcomeInv ==
  /\ outcome \in {"failed", "killed"} =>
       \E i \in DOMAIN Chain : place[Chain[i]] = "raised" /\ ledger[Chain[i]] = outcome
  /\ outcome = "completed" => ledger[Chain[Len(Chain)]] \in {"completed", "failed"}

\* Without a loss of Redis, the flag of a kill that has begun is there.
KillInv ==
  outages = 0 =>
    /\ redisUp
    /\ admin # "idle" => flags # {}
    /\ ~ignored

\* What was done under a flag bars the stage from a result until its next check.
LateInv ==
  /\ late # <<>> => redisUp /\ flags # {}
  /\ \A i, j \in DOMAIN late : Bars(late[i]) /\ late[j] = "output" => j <= i
  /\ (\E i \in DOMAIN late : Bars(late[i])) =>
       \A g \in Agents : place[g] = "live" => Guarded(todo)

IInv ==
  /\ TypeOK
  /\ StagesInOrder
  /\ \A g \in Agents : StageInv(g)
  /\ OutcomeInv /\ KillInv /\ LateInv

-----------------------------------------------------------------------------
(* The scripts *)

\* Sequences that can stand one after the other: no result without a check.
Safe(s) == s \in Seq(Op) /\ Guarded(s) /\ Spaced(s)

\* A sequence that ends with the checkpoint, and may then finish the job.
Closing(s) ==
  /\ Safe(s) /\ Has(s, "completed")
  /\ \A i, j \in DOMAIN s : s[i] = "completed" /\ s[j] = "finish" => i < j

\* The indices of two sequences that follow each other.
LEMMA Concat ==
  ASSUME NEW s \in Seq(Op), NEW t \in Seq(Op)
  PROVE  /\ s \o t \in Seq(Op)
         /\ Len(s) \in Nat /\ Len(t) \in Nat
         /\ DOMAIN s = 1 .. Len(s) /\ DOMAIN t = 1 .. Len(t)
         /\ DOMAIN (s \o t) = 1 .. Len(s) + Len(t)
         /\ \A i \in 1 .. Len(s) : (s \o t)[i] = s[i]
         /\ \A i \in 1 .. Len(t) : (s \o t)[Len(s) + i] = t[i]
         /\ \A i \in 1 .. Len(s) + Len(t) : i > Len(s) => i - Len(s) \in 1 .. Len(t)
                                                        /\ (s \o t)[i] = t[i - Len(s)]
<1>1. s \o t \in Seq(Op) /\ Len(s) \in Nat /\ Len(t) \in Nat
  BY ConcatProperties, LenProperties
<1>2. /\ DOMAIN s = 1 .. Len(s) /\ DOMAIN t = 1 .. Len(t)
      /\ DOMAIN (s \o t) = 1 .. Len(s) + Len(t)
  BY <1>1, ConcatProperties, LenProperties
<1>3. \A i \in 1 .. Len(s) + Len(t) :
        (s \o t)[i] = IF i <= Len(s) THEN s[i] ELSE t[i - Len(s)]
  BY ConcatProperties
<1>4. \A i \in 1 .. Len(s) : (s \o t)[i] = s[i]
  BY <1>1, <1>3
<1>5. \A i \in 1 .. Len(s) + Len(t) : i > Len(s) => i - Len(s) \in 1 .. Len(t)
                                                 /\ (s \o t)[i] = t[i - Len(s)]
  BY <1>1, <1>3
<1>6. \A i \in 1 .. Len(t) : (s \o t)[Len(s) + i] = t[i]
  <2> SUFFICES ASSUME NEW i \in 1 .. Len(t) PROVE (s \o t)[Len(s) + i] = t[i]
    OBVIOUS
  <2>1. Len(s) + i \in 1 .. Len(s) + Len(t) /\ Len(s) + i > Len(s) /\ Len(s) + i - Len(s) = i
    BY <1>1
  <2> QED
    BY <1>5, <2>1
<1> QED
  BY <1>1, <1>2, <1>4, <1>5, <1>6

\* One safe sequence after another is safe.
LEMMA SafeConcat ==
  ASSUME NEW s, NEW t, Safe(s), Safe(t)
  PROVE  Safe(s \o t)
<1> DEFINE c == s \o t
           n == Len(s)
           m == Len(t)
<1>1. s \in Seq(Op) /\ t \in Seq(Op)
  BY DEF Safe
<1>2. /\ c \in Seq(Op) /\ n \in Nat /\ m \in Nat
      /\ DOMAIN s = 1 .. n /\ DOMAIN t = 1 .. m /\ DOMAIN c = 1 .. n + m
      /\ \A i \in 1 .. n : c[i] = s[i]
      /\ \A i \in 1 .. m : c[n + i] = t[i]
      /\ \A i \in 1 .. n + m : i > n => i - n \in 1 .. m /\ c[i] = t[i - n]
  BY <1>1, Concat
<1> HIDE DEF c, n, m
\* An output of t has a check in t before it.
<1>3. ASSUME NEW k \in 1 .. n + m, k > n, c[k] = "output"
      PROVE  \E j \in n + 1 .. k - 1 : c[j] = "check"
  <2>1. k - n \in 1 .. m /\ t[k - n] = "output"
    BY <1>2, <1>3
  <2>2. PICK j \in 1 .. (k - n) - 1 : t[j] = "check"
    BY <1>2, <2>1 DEF Safe, Guarded
  <2>3. j \in 1 .. m /\ n + j \in n + 1 .. k - 1
    BY <1>2, <2>1, <2>2
  <2>4. c[n + j] = "check"
    BY <1>2, <2>2, <2>3
  <2> QED
    BY <2>3, <2>4
<1>4. ASSUME NEW k \in DOMAIN c, c[k] = "output"
      PROVE  \E j \in 1 .. k - 1 : c[j] = "check"
  <2>1. CASE k > n
    BY <1>2, <1>3, <1>4, <2>1
  <2>2. CASE ~(k > n)
    <3>1. k \in 1 .. n /\ s[k] = "output"
      BY <1>2, <1>4, <2>2
    <3>2. PICK j \in 1 .. k - 1 : s[j] = "check"
      BY <1>2, <3>1 DEF Safe, Guarded
    <3> QED
      BY <1>2, <3>1, <3>2
  <2> QED
    BY <2>1, <2>2
<1>5. ASSUME NEW i \in DOMAIN c, NEW k \in DOMAIN c, i < k, Bars(c[i]), c[k] = "output"
      PROVE  \E j \in i + 1 .. k - 1 : c[j] = "check"
  <2>1. CASE i > n
    <3> DEFINE a == i - n
               b == k - n
    <3>1. i \in 1 .. n + m /\ k \in 1 .. n + m /\ k > n
      BY <1>2, <1>5, <2>1
    <3>2. a \in 1 .. m /\ b \in 1 .. m /\ c[i] = t[a] /\ c[k] = t[b]
      BY <1>2, <2>1, <3>1
    <3>3. a < b /\ i = n + a /\ k = n + b
      BY <1>2, <1>5, <3>1
    <3> HIDE DEF a, b
    <3>4. PICK j \in a + 1 .. b - 1 : t[j] = "check"
      BY <1>2, <1>5, <3>2, <3>3 DEF Safe, Spaced
    <3>5. j \in 1 .. m /\ n + j \in i + 1 .. k - 1
      BY <1>2, <3>2, <3>3, <3>4
    <3>6. c[n + j] = "check"
      BY <1>2, <3>4, <3>5
    <3> QED
      BY <3>5, <3>6
  <2>2. CASE ~(i > n) /\ k > n
    <3>1. PICK j \in n + 1 .. k - 1 : c[j] = "check"
      BY <1>2, <1>3, <1>5, <2>2
    <3> QED
      BY <1>2, <2>2, <3>1
  <2>3. CASE ~(k > n)
    <3>1. i \in 1 .. n /\ k \in 1 .. n /\ Bars(s[i]) /\ s[k] = "output"
      BY <1>2, <1>5, <2>3
    <3>2. PICK j \in i + 1 .. k - 1 : s[j] = "check"
      BY <1>2, <1>5, <3>1 DEF Safe, Spaced
    <3> QED
      BY <1>2, <3>1, <3>2
  <2> QED
    BY <2>1, <2>2, <2>3
<1> QED
  BY <1>2, <1>4, <1>5 DEF Safe, Guarded, Spaced, c

\* A closing sequence stays one with something before it that finishes nothing.
LEMMA ClosingConcat ==
  ASSUME NEW s, NEW t, Safe(s), Closing(t), ~Has(s, "finish")
  PROVE  Closing(s \o t)
<1> DEFINE c == s \o t
           n == Len(s)
           m == Len(t)
<1>1. s \in Seq(Op) /\ t \in Seq(Op)
  BY DEF Safe, Closing
<1>2. /\ n \in Nat /\ m \in Nat
      /\ DOMAIN s = 1 .. n /\ DOMAIN t = 1 .. m /\ DOMAIN c = 1 .. n + m
      /\ \A i \in 1 .. n : c[i] = s[i]
      /\ \A i \in 1 .. m : c[n + i] = t[i]
      /\ \A i \in 1 .. n + m : i > n => i - n \in 1 .. m /\ c[i] = t[i - n]
  BY <1>1, Concat
<1>3. Safe(c)
  BY SafeConcat DEF Closing
<1> HIDE DEF c, n, m
<1>4. Has(c, "completed")
  <2>1. PICK i \in 1 .. m : t[i] = "completed"
    BY <1>2 DEF Closing, Has
  <2>2. n + i \in 1 .. n + m /\ c[n + i] = "completed"
    BY <1>2, <2>1
  <2> QED
    BY <1>2, <2>2 DEF Has
<1>5. ASSUME NEW i \in DOMAIN c, NEW j \in DOMAIN c, c[i] = "completed", c[j] = "finish"
      PROVE  i < j
  <2>1. j > n
    BY <1>2, <1>5 DEF Has
  <2>2. CASE i > n
    <3>1. i - n \in 1 .. m /\ j - n \in 1 .. m /\ t[i - n] = "completed" /\ t[j - n] = "finish"
      BY <1>2, <1>5, <2>1, <2>2
    <3>2. i - n < j - n
      BY <1>2, <3>1 DEF Closing
    <3> QED
      BY <1>2, <3>2
  <2>3. CASE ~(i > n)
    BY <1>2, <2>1, <2>3
  <2> QED
    BY <2>2, <2>3
<1> QED
  BY <1>3, <1>4, <1>5 DEF Closing, c

\* The parts the scripts are made of.
LEMMA Parts ==
  /\ Safe(<<"check">>) /\ Safe(<<"read">>) /\ Safe(<<"check", "running">>)
  /\ kind # "code" => Safe(Unit)
  /\ Closing(Done)
<1>1. Safe(<<"check">>) /\ Safe(<<"read">>)
  BY DEF Safe, Guarded, Spaced, Op
<1>2. Safe(<<"check", "running">>)
  BY DEF Safe, Guarded, Spaced, Op
<1>3. kind # "code" => Safe(Unit)
  BY DEF Safe, Guarded, Spaced, Op, Unit, Bars
<1>4. Closing(Done)
  BY DEF Closing, Has, Safe, Guarded, Spaced, Op, Done
<1> QED
  BY <1>1, <1>2, <1>3, <1>4

\* None of them but the last finishes the job.
LEMMA PartsDoNotFinish ==
  /\ ~Has(<<"check">>, "finish") /\ ~Has(<<"read">>, "finish")
  /\ ~Has(<<"check", "running">>, "finish") /\ ~Has(Unit, "finish")
BY DEF Has, Unit

\* The chain of a job.
LEMMA ChainFacts ==
  ASSUME kind \in Kinds
  PROVE  /\ Len(Chain) \in Nat \ {0} /\ DOMAIN Chain = 1 .. Len(Chain)
         /\ \A i \in DOMAIN Chain : Chain[i] \in Agents
         /\ \A i, j \in DOMAIN Chain : Chain[i] = Chain[j] => i = j
         /\ kind = "analysis" =>
              /\ Chain[Len(Chain)] = "recommendation"
              /\ \A i \in DOMAIN Chain :
                   Chain[i] \in {"ingestion_chunking", "cobol_structural", "recommendation"}
         /\ kind = "epics" =>
              \A i \in DOMAIN Chain : Chain[i] = "epic_story_writer" /\ i = Len(Chain)
         /\ kind = "code" => \A i \in DOMAIN Chain : Chain[i] = "codegen" /\ i = Len(Chain)
         /\ kind \in {"analysis", "epics", "code"}
<1>1. kind \in {"analysis", "epics", "code"}
  BY KindsAssumption
<1>2. CASE kind = "analysis"
  BY <1>2 DEF Chain, Agents
<1>3. CASE kind = "epics"
  BY <1>3 DEF Chain, Agents
<1>4. CASE kind = "code"
  BY <1>4 DEF Chain, Agents
<1> QED
  BY <1>1, <1>2, <1>3, <1>4

\* Every stage of a chain checks before every result, ends with its checkpoint,
\* and only the last finishes the job.
LEMMA ScriptFacts ==
  ASSUME kind \in Kinds, NEW g, \E i \in DOMAIN Chain : Chain[i] = g, NEW s \in Scripts(g)
  PROVE  /\ s \in Seq(Op) /\ Guarded(s) /\ Spaced(s)
         /\ Has(s, "completed") /\ FinishesLast(g, s)
<1> SUFFICES Closing(s) /\ (Has(s, "finish") => g = Chain[Len(Chain)])
  BY DEF Closing, Safe, FinishesLast
<1>1. CASE kind = "analysis"
  <2>1. /\ g \in {"ingestion_chunking", "cobol_structural", "recommendation"}
        /\ Chain[Len(Chain)] = "recommendation"
    BY <1>1, ChainFacts
  <2>2. CASE g = "ingestion_chunking"
    <3>1. s = IngestionScript
      BY <2>2 DEF Scripts
    <3>2. Safe(IngestionScript)
      BY DEF IngestionScript, Safe, Guarded, Spaced, Op
    <3>3. Has(IngestionScript, "completed") /\ ~Has(IngestionScript, "finish")
      BY DEF IngestionScript, Has
    <3> QED
      BY <3>1, <3>2, <3>3 DEF Closing, Has
  <2>3. CASE g = "cobol_structural"
    <3>1. s = StructuralScript
      BY <2>3 DEF Scripts
    <3>2. Safe(StructuralScript)
      BY <1>1 DEF StructuralScript, Safe, Guarded, Spaced, Bars, Op
    <3>3. Has(StructuralScript, "completed") /\ ~Has(StructuralScript, "finish")
      BY DEF StructuralScript, Has
    <3> QED
      BY <3>1, <3>2, <3>3 DEF Closing, Has
  <2>4. CASE g = "recommendation"
    <3>1. s = <<"read">> \o (Unit \o Done)
      BY <2>4, ConcatAssociative DEF Scripts, RecommendationScript
    <3> QED
      BY <1>1, <2>1, <2>4, <3>1, Parts, PartsDoNotFinish, ClosingConcat
  <2> QED
    BY <2>1, <2>2, <2>3, <2>4
<1>2. CASE kind = "epics"
  <2>1. g = "epic_story_writer" /\ Chain[Len(Chain)] = g
    BY <1>2, ChainFacts
  <2>2. PICK summary \in SummaryScripts : s = EpicStoryScript(summary)
    BY <2>1 DEF Scripts
  <2>3. Safe(summary) /\ ~Has(summary, "finish")
    BY <1>2, Parts, PartsDoNotFinish DEF SummaryScripts
  <2>4. s = <<"check", "running">> \o (summary \o (Unit \o (Unit \o Done)))
    <3> DEFINE before == <<"check", "running">>
    <3>1. /\ before \in Seq(Op) /\ summary \in Seq(Op) /\ Unit \in Seq(Op) /\ Done \in Seq(Op)
          /\ before \o summary \in Seq(Op) /\ (before \o summary) \o Unit \in Seq(Op)
          /\ Unit \o Done \in Seq(Op)
      BY <1>2, <2>3, Parts, ConcatProperties DEF Safe, Closing
    <3>2. s = (((before \o summary) \o Unit) \o Unit) \o Done
      BY <2>2 DEF EpicStoryScript
    <3> DEFINE tail == Unit \o Done
               a == before \o summary
    <3>3. \A x, y, z \in Seq(Op) : (x \o y) \o z = x \o (y \o z)
      BY ConcatAssociative
    <3>4. Unit \o tail \in Seq(Op)
      BY <3>1, ConcatProperties
    <3>5. s = (a \o Unit) \o tail
      BY ZenonT(60), <3>1, <3>2, <3>3
    <3>6. s = a \o (Unit \o tail)
      BY ZenonT(60), <3>1, <3>3, <3>5
    <3>7. (before \o summary) \o (Unit \o tail) = before \o (summary \o (Unit \o tail))
      <4>1. before \in Seq(Op) /\ summary \in Seq(Op)
        BY <3>1
      <4> DEFINE z == Unit \o tail
      <4>2. z \in Seq(Op)
        BY <3>4
      <4> HIDE DEF before, tail, z
      <4>3. (before \o summary) \o z = before \o (summary \o z)
        BY <3>3, <4>1, <4>2
      <4> QED
        BY <4>3 DEF z
    <3> QED
      BY <3>6, <3>7
  <2>5. Closing(Unit \o Done) /\ Closing(Unit \o (Unit \o Done))
    BY <1>2, Parts, PartsDoNotFinish, ClosingConcat
  <2>6. Closing(summary \o (Unit \o (Unit \o Done)))
    BY <2>3, <2>5, ClosingConcat
  <2> QED
    BY <2>1, <2>4, <2>6, Parts, PartsDoNotFinish, ClosingConcat
<1>3. CASE kind = "code"
  <2> DEFINE body == <<"check", "running", "write", "check", "llm", "check", "output", "audit",
                       "write">>
  <2>1. g = "codegen" /\ Chain[Len(Chain)] = g
    BY <1>3, ChainFacts
  <2>2. s = body \o Done
    BY <2>1 DEF Scripts, CodegenScript
  <2>3. Safe(body)
    <3>1. body \in Seq(Op) /\ DOMAIN body = 1 .. 9
      BY DEF Op
    <3>2. \A k \in 1 .. 9 : body[k] = "output" => k = 7
      OBVIOUS
    <3>3. body[1] = "check" /\ body[6] = "check" /\ body[7] = "output"
      OBVIOUS
    <3> HIDE DEF body
    <3>4. Guarded(body)
      BY <3>1, <3>2, <3>3 DEF Guarded
    <3>5. ASSUME NEW i \in 1 .. 9, i < 7, Bars(body[i])
          PROVE  6 \in i + 1 .. 7 - 1
      <4>1. i # 6
        BY <3>3, <3>5 DEF Bars
      <4> QED
        BY <3>5, <4>1
    <3>6. Spaced(body)
      BY <3>1, <3>2, <3>3, <3>5 DEF Spaced
    <3> QED
      BY <3>1, <3>4, <3>6 DEF Safe
  <2>4. ~Has(body, "finish")
    BY DEF Has
  <2> HIDE DEF body
  <2> QED
    BY <2>1, <2>2, <2>3, <2>4, Parts, ClosingConcat
<1> QED
  BY <1>1, <1>2, <1>3, ChainFacts

-----------------------------------------------------------------------------
(* What the steps of one stage leave as it is *)

Active(g) == place[g] \notin {"waiting", "returned"}

\* At most one stage of a job is under way.
LEMMA OneActive ==
  ASSUME IInv, NEW g \in Agents, Active(g), NEW h \in Agents, Active(h)
  PROVE  g = h
<1>1. PICK i \in DOMAIN Chain : Chain[i] = g
  BY DEF IInv, StageInv, Active
<1>2. PICK j \in DOMAIN Chain : Chain[j] = h
  BY DEF IInv, StageInv, Active
<1>3. i \in Nat /\ j \in Nat
  BY ChainFacts DEF IInv, TypeOK
<1>4. ~(i < j) /\ ~(j < i)
  BY <1>1, <1>2 DEF IInv, StagesInOrder, Active
<1> QED
  BY <1>1, <1>2, <1>3, <1>4

\* While a stage is under way and has not raised, the job has not failed.
LEMMA NotOver ==
  ASSUME IInv, NEW g \in Agents, Active(g), place[g] # "raised"
  PROVE  outcome \notin {"failed", "killed"}
<1> SUFFICES ASSUME outcome \in {"failed", "killed"} PROVE FALSE
  OBVIOUS
<1>1. PICK i \in DOMAIN Chain : place[Chain[i]] = "raised"
  BY DEF IInv, OutcomeInv
<1>2. Chain[i] \in Agents /\ Active(Chain[i])
  BY <1>1, ChainFacts DEF IInv, TypeOK, Active
<1> QED
  BY <1>1, <1>2, OneActive

Kept(g) == \A h \in Agents : h # g => place'[h] = place[h] /\ ledger'[h] = ledger[h]

\* A step of the stage under way leaves the order and the other stages alone.
LEMMA OthersStay ==
  ASSUME IInv, kind' = kind, NEW g \in Agents, Active(g), Kept(g),
         place'[g] \notin {"waiting", "queued"}
  PROVE  StagesInOrder' /\ \A h \in Agents : h # g => StageInv(h)'
<1>1. Chain' = Chain
  BY DEF Chain
<1>2. \A i \in DOMAIN Chain : Chain[i] \in Agents
  BY ChainFacts DEF IInv, TypeOK
<1>3. ASSUME NEW i \in DOMAIN Chain, NEW j \in DOMAIN Chain, i < j,
             place'[Chain[j]] # "waiting"
      PROVE  place'[Chain[i]] = "returned" /\ ledger'[Chain[i]] = "completed"
  <2>1. place[Chain[j]] # "waiting"
    BY <1>2, <1>3 DEF Active, Kept
  <2>2. place[Chain[i]] = "returned" /\ ledger[Chain[i]] = "completed"
    BY <1>3, <2>1 DEF IInv, StagesInOrder
  <2>3. Chain[i] # g
    BY <2>2 DEF Active
  <2> QED
    BY <1>2, <2>2, <2>3 DEF Kept
<1>4. StagesInOrder'
  BY <1>1, <1>3 DEF StagesInOrder
<1>5. ASSUME NEW h \in Agents, h # g PROVE StageInv(h)'
  <2>1. place'[h] = place[h] /\ ledger'[h] = ledger[h] /\ StageInv(h)
    BY <1>5 DEF Kept, IInv
  <2>2. place[h] # "live"
    BY <1>5, OneActive DEF Active
  <2> QED
    BY <1>1, <2>1, <2>2 DEF StageInv
<1> QED
  BY <1>4, <1>5

\* Nor does it lose what explains the job's status.
LEMMA OutcomeStays ==
  ASSUME IInv, kind' = kind, NEW g \in Agents, Active(g), place[g] # "raised", Kept(g),
         \/ ledger'[g] = ledger[g]
         \/ ledger[g] \in {Unrecorded, "running"}
         \/ ledger[g] = "completed" /\ ledger'[g] = "failed",
         \/ outcome' = outcome
         \/ outcome' = "running"
         \/ outcome' = "completed" /\ g = Chain[Len(Chain)] /\ ledger'[g] = "completed"
         \/ outcome' \in {"failed", "killed"} /\ place'[g] = "raised" /\ ledger'[g] = outcome'
  PROVE  OutcomeInv'
<1>1. Chain' = Chain
  BY DEF Chain
<1>2. /\ Chain[Len(Chain)] \in Agents
      /\ \E i \in DOMAIN Chain : Chain[i] = g
  BY ChainFacts DEF IInv, TypeOK, StageInv, Active
<1>3. outcome \notin {"failed", "killed"}
  BY NotOver
<1>4. ASSUME outcome' = outcome, outcome = "completed"
      PROVE  ledger'[Chain[Len(Chain)]] \in {"completed", "failed"}
  BY <1>2, <1>4 DEF IInv, OutcomeInv, Kept, Unrecorded
<1>5. ASSUME outcome' \in {"failed", "killed"}
      PROVE  \E i \in DOMAIN Chain : place'[Chain[i]] = "raised" /\ ledger'[Chain[i]] = outcome'
  BY <1>2, <1>3, <1>5
<1>6. ASSUME outcome' = "completed"
      PROVE  ledger'[Chain[Len(Chain)]] \in {"completed", "failed"}
  BY <1>4, <1>6
<1> QED
  BY <1>1, <1>5, <1>6 DEF OutcomeInv

\* While Redis, the request and the histories stay as they are, so does what is
\* known of them, if no stage comes to a result.
LEMMA HistoryStays ==
  ASSUME IInv, UNCHANGED <<kind, redis, request, outages, late, ignored>>,
         (\E i \in DOMAIN late : Bars(late[i])) =>
           \A g \in Agents : place'[g] = "live" => Guarded(todo')
  PROVE  KillInv' /\ LateInv'
<1>1. \A op : Bars(op)' <=> Bars(op)
  BY DEF Bars
<1>2. KillInv'
  BY DEF IInv, KillInv, redis, request
<1>3. LateInv'
  BY <1>1 DEF IInv, LateInv, Bars, Guarded, redis
<1> QED
  BY <1>2, <1>3

\* What a record of a status does.
LEMMA RecordFacts ==
  ASSUME TypeOK, NEW g \in Agents, NEW s \in TaskStatus, Ledger!Record(g, s)
  PROVE  /\ ledger' \in [Agents -> TaskStatus \cup {Unrecorded}]
         /\ ledger'[g] = s /\ \A h \in Agents : h # g => ledger'[h] = ledger[h]
         /\ outcome' \in JobStatus \cup {Absent}
         /\ outcome' = outcome \/ outcome' = "running"
         /\ killRequested' = killRequested
         /\ ledger[g] \in {Unrecorded, "running"} \/ (ledger[g] = "completed" /\ s = "failed")
BY DEF TypeOK, Ledger!Record, Ledger!MayFollow, Ledger!Unrecorded, Ledger!Absent,
   Ledger!TaskStatus, TaskStatus, Unrecorded, JobStatus, Absent

\* What the end of a job does.
LEMMA FinishFacts ==
  ASSUME TypeOK, NEW s \in JobStatus, Ledger!Finish(s)
  PROVE  /\ outcome' = s /\ outcome' \in JobStatus \cup {Absent}
         /\ ledger' = ledger /\ killRequested' = killRequested
BY DEF Ledger!Finish

\* What is left of a script when its first operation is done.
LEMMA TailFacts ==
  ASSUME NEW s \in Seq(Op), s # <<>>
  PROVE  /\ Tail(s) \in Seq(Op) /\ Head(s) \in Op
         /\ \A op : Has(s, op) /\ Head(s) # op => Has(Tail(s), op)
         /\ \A g : FinishesLast(g, s) =>
              /\ FinishesLast(g, Tail(s))
              /\ Head(s) = "finish" => ~Has(Tail(s), "completed") /\ g = Chain[Len(Chain)]
         /\ Spaced(s) => Spaced(Tail(s)) /\ (Bars(Head(s)) => Guarded(Tail(s)))
         /\ Guarded(s) /\ Head(s) # "check" => Guarded(Tail(s)) /\ Head(s) # "output"
<1> DEFINE t == Tail(s)
           n == Len(s)
<1>1. /\ n \in Nat \ {0} /\ DOMAIN s = 1 .. n
      /\ t \in Seq(Op) /\ DOMAIN t = 1 .. n - 1
      /\ \A i \in 1 .. n - 1 : t[i] = s[i + 1]
      /\ Head(s) = s[1] /\ Head(s) \in Op
  <2>1. n \in Nat /\ n # 0 /\ DOMAIN s = 1 .. n
    BY LenProperties, EmptySeq
  <2>2. t \in Seq(Op) /\ Len(t) = n - 1 /\ \A i \in 1 .. Len(t) : t[i] = s[i + 1]
    BY HeadTailProperties
  <2>3. DOMAIN t = 1 .. Len(t)
    BY <2>2, LenProperties
  <2>4. Head(s) = s[1] /\ Head(s) \in Op
    BY <2>1, HeadTailProperties
  <2> QED
    BY <2>1, <2>2, <2>3, <2>4
<1> HIDE DEF t, n
<1>2. \A i \in 1 .. n : i # 1 => i - 1 \in 1 .. n - 1 /\ t[i - 1] = s[i]
  BY <1>1
<1>3. \A i \in 1 .. n - 1 : i + 1 \in 1 .. n
  BY <1>1
<1>4. ASSUME NEW op, Has(s, op), Head(s) # op PROVE Has(t, op)
  BY <1>1, <1>2, <1>4 DEF Has
<1>5. ASSUME NEW g, FinishesLast(g, s)
      PROVE  /\ FinishesLast(g, t)
             /\ Head(s) = "finish" => ~Has(t, "completed") /\ g = Chain[Len(Chain)]
  <2>1. Has(t, "finish") => g = Chain[Len(Chain)]
    BY <1>1, <1>3, <1>5 DEF FinishesLast, Has
  <2>2. ASSUME NEW i \in DOMAIN t, NEW j \in DOMAIN t, t[i] = "completed", t[j] = "finish"
        PROVE  i < j
    <3>1. s[i + 1] = "completed" /\ s[j + 1] = "finish" /\ i + 1 \in 1 .. n /\ j + 1 \in 1 .. n
      BY <1>1, <1>3, <2>2
    <3>2. i + 1 < j + 1
      BY <1>1, <1>5, <3>1 DEF FinishesLast
    <3> QED
      BY <1>1, <3>2
  <2>3. ASSUME Head(s) = "finish" PROVE ~Has(t, "completed") /\ g = Chain[Len(Chain)]
    <3>1. 1 \in DOMAIN s /\ s[1] = "finish"
      BY <1>1, <2>3
    <3>2. ASSUME NEW i \in DOMAIN t, t[i] = "completed" PROVE FALSE
      <4>1. i + 1 \in DOMAIN s /\ s[i + 1] = "completed" /\ ~(i + 1 < 1)
        BY <1>1, <1>3, <3>2
      <4> QED
        BY <1>5, <3>1, <4>1 DEF FinishesLast
    <3> QED
      BY <1>5, <3>1, <3>2 DEF FinishesLast, Has
  <2> QED
    BY <2>1, <2>2, <2>3 DEF FinishesLast
<1>6. ASSUME Spaced(s), NEW i \in DOMAIN s, NEW k \in DOMAIN t, i <= k, Bars(s[i]), t[k] = "output"
      PROVE  \E j \in i .. k - 1 : t[j] = "check"
  <2>1. k + 1 \in DOMAIN s /\ s[k + 1] = "output" /\ i < k + 1
    BY <1>1, <1>3, <1>6
  <2>2. PICK j \in i + 1 .. (k + 1) - 1 : s[j] = "check"
    BY <1>6, <2>1 DEF Spaced
  <2>3. j \in 1 .. n /\ j # 1 /\ j - 1 \in i .. k - 1
    BY <1>1, <1>6, <2>2
  <2> QED
    BY <1>2, <2>2, <2>3
<1>7. ASSUME Spaced(s) PROVE Spaced(t)
  <2> SUFFICES ASSUME NEW i \in DOMAIN t, NEW k \in DOMAIN t, i < k, Bars(t[i]), t[k] = "output"
               PROVE  \E j \in i + 1 .. k - 1 : t[j] = "check"
    BY DEF Spaced
  <2>1. i + 1 \in DOMAIN s /\ Bars(s[i + 1]) /\ i + 1 <= k
    BY <1>1, <1>3
  <2> QED
    BY <1>6, <1>7, <2>1
<1>8. ASSUME Spaced(s), Bars(Head(s)) PROVE Guarded(t)
  <2> SUFFICES ASSUME NEW k \in DOMAIN t, t[k] = "output"
               PROVE  \E j \in 1 .. k - 1 : t[j] = "check"
    BY DEF Guarded
  <2>1. 1 \in DOMAIN s /\ 1 <= k /\ Bars(s[1])
    BY <1>1, <1>8
  <2> QED
    BY <1>6, <1>8, <2>1
<1>9. ASSUME Guarded(s), Head(s) # "check" PROVE Guarded(t) /\ Head(s) # "output"
  <2>1. Head(s) # "output"
    BY <1>1, <1>9 DEF Guarded
  <2>2. ASSUME NEW k \in DOMAIN t, t[k] = "output"
        PROVE  \E j \in 1 .. k - 1 : t[j] = "check"
    <3>1. k + 1 \in DOMAIN s /\ s[k + 1] = "output"
      BY <1>1, <1>3, <2>2
    <3>2. PICK j \in 1 .. (k + 1) - 1 : s[j] = "check"
      BY <1>9, <3>1 DEF Guarded
    <3>3. j \in 1 .. n /\ j # 1 /\ j - 1 \in 1 .. k - 1
      BY <1>1, <1>9, <2>2, <3>2
    <3> QED
      BY <1>2, <3>2, <3>3
  <2> QED
    BY <2>1, <2>2 DEF Guarded
<1> QED
  BY <1>1, <1>4, <1>5, <1>7, <1>8, <1>9 DEF t

-----------------------------------------------------------------------------
(* Every step keeps the invariant *)

\* A stage goes to its next place.
LEMMA MoveFacts ==
  ASSUME TypeOK, NEW g \in Agents, NEW to \in Place, Move(g, to)
  PROVE  /\ place' \in [Agents -> Place] /\ place'[g] = to
         /\ \A h \in Agents : h # g => place'[h] = place[h]
BY DEF TypeOK, Move

\* A step of the stage under way that records what it should.
LEMMA StageKeeps ==
  ASSUME IInv, TypeOK', kind' = kind, NEW g \in Agents, Active(g), place[g] # "raised",
         Kept(g), place'[g] \notin {"waiting", "queued"}, StageInv(g)', KillInv', LateInv',
         \/ ledger'[g] = ledger[g]
         \/ ledger[g] \in {Unrecorded, "running"}
         \/ ledger[g] = "completed" /\ ledger'[g] = "failed",
         \/ outcome' = outcome
         \/ outcome' = "running"
         \/ outcome' = "completed" /\ g = Chain[Len(Chain)] /\ ledger'[g] = "completed"
         \/ outcome' \in {"failed", "killed"} /\ place'[g] = "raised" /\ ledger'[g] = outcome'
  PROVE  IInv'
<1>1. StagesInOrder' /\ \A h \in Agents : h # g => StageInv(h)'
  BY OthersStay
<1>2. OutcomeInv'
  BY OutcomeStays
<1> QED
  BY <1>1, <1>2 DEF IInv

\* A worker takes the message of a stage.
LEMMA StartKeeps ==
  ASSUME IInv, NEW g \in Agents, Start(g)
  PROVE  IInv'
<1> USE DEF IInv
<1>1. /\ place[g] = "queued" /\ place'[g] = "live" /\ place' \in [Agents -> Place]
      /\ \A h \in Agents : h # g => place'[h] = place[h]
      /\ \E i \in DOMAIN Chain : Chain[i] = g
      /\ todo' \in Scripts(g)
      /\ UNCHANGED <<kind, document, redis, request, faults, outages, history>>
  BY MoveFacts DEF Start, Place, StageInv
<1>2. /\ todo' \in Seq(Op) /\ Guarded(todo') /\ Spaced(todo') /\ Has(todo', "completed")
      /\ FinishesLast(g, todo')
  BY <1>1, ScriptFacts DEF TypeOK
<1>3. TypeOK'
  BY <1>1, <1>2 DEF TypeOK, document, redis, request, history
<1>4. Chain' = Chain
  BY <1>1 DEF Chain
<1>5. StageInv(g)'
  BY <1>1, <1>2, <1>4 DEF StageInv, Has, FinishesLast, Spaced, Bars
<1>6. KillInv' /\ LateInv'
  BY <1>1, <1>2, HistoryStays DEF history
<1> QED
  BY <1>1, <1>3, <1>5, <1>6, StageKeeps DEF Active, Kept, document

\* A check passes only where no flag is, or Redis is away.
LEMMA PassKeeps ==
  ASSUME IInv, NEW g \in Agents, PassCheck(g)
  PROVE  IInv'
<1> USE DEF IInv
<1>1. /\ place[g] = "live" /\ todo \in Seq(Op) /\ todo # <<>> /\ Head(todo) = "check"
      /\ ~KillSeen /\ todo' = Tail(todo) /\ ignored' = (ignored \/ admin = "done")
      /\ UNCHANGED <<kind, place, document, redis, request, faults, outages, abandoned, late>>
  BY DEF PassCheck, Doing, TypeOK
<1>2. /\ todo' \in Seq(Op) /\ Spaced(todo') /\ FinishesLast(g, todo')
      /\ Has(todo, "completed") => Has(todo', "completed")
  BY <1>1, TailFacts DEF StageInv
<1>3. TypeOK'
  BY <1>1, <1>2 DEF TypeOK, document, redis, request
<1>4. Chain' = Chain
  BY <1>1 DEF Chain
<1>5. StageInv(g)'
  <2>1. /\ \E i \in DOMAIN Chain : Chain[i] = g
        /\ ~Has(todo, "completed") => ledger[g] = "completed"
    BY <1>1 DEF StageInv
  <2>2. FinishesLast(g, todo)' /\ Spaced(todo)'
    BY SMTT(30), <1>1, <1>2, <1>4 DEF FinishesLast, Has, Spaced, Bars
  <2>3. ~Has(todo, "completed")' => ledger'[g] = "completed"
    BY <1>1, <1>2, <2>1 DEF document, Has
  <2> QED
    BY <1>1, <1>4, <2>1, <2>2, <2>3 DEF StageInv
<1>6. outages = 0 => flags = {} /\ admin = "idle"
  BY <1>1 DEF KillInv, KillSeen
<1>7. KillInv'
  BY <1>1, <1>6 DEF KillInv, redis, request
<1>8. late = <<>>
  BY <1>1 DEF LateInv, KillSeen
<1>9. LateInv'
  BY <1>1, <1>8 DEF LateInv
<1> QED
  BY <1>1, <1>3, <1>5, <1>7, <1>9, StageKeeps DEF Active, Kept, document

\* A stage that leaves its body: it is killed, it raises, or its worker is lost;
\* and the steps of its handler.
LEMMA LeaveKeeps ==
  ASSUME IInv, NEW g \in Agents, place[g] \in {"live"} \cup Handling,
         todo' = <<>> \/ todo' = todo,
         NEW to \in {"killing", "killFinishing", "failing", "failFinishing", "raised", "lost"},
         Move(g, to),
         UNCHANGED <<kind, redis, request, outages, late, ignored>>,
         faults' \in 0 .. MaxFaults, abandoned' \in BOOLEAN,
         \/ UNCHANGED document
         \/ \E s \in TaskStatus : Ledger!Record(g, s)
         \/ Ledger!Finish("completed") /\ g = Chain[Len(Chain)] /\ ledger[g] = "completed"
         \/ \E s \in {"failed", "killed"} : Ledger!Finish(s) /\ to = "raised" /\ ledger[g] = s,
         to = "killFinishing" => Ledger!Record(g, "killed"),
         to = "failFinishing" => Ledger!Record(g, "failed")
  PROVE  IInv'
<1> USE DEF IInv
<1>1. place' \in [Agents -> Place] /\ place'[g] = to
      /\ \A h \in Agents : h # g => place'[h] = place[h]
  BY MoveFacts DEF Place
<1> DEFINE Records ==
             /\ ledger' \in [Agents -> TaskStatus \cup {Unrecorded}]
             /\ outcome' \in JobStatus \cup {Absent} /\ killRequested' \in BOOLEAN
             /\ \A h \in Agents : h # g => ledger'[h] = ledger[h]
             /\ \/ ledger'[g] = ledger[g]
                \/ ledger[g] \in {Unrecorded, "running"}
                \/ ledger[g] = "completed" /\ ledger'[g] = "failed"
             /\ \/ outcome' = outcome
                \/ outcome' = "running"
                \/ outcome' = "completed" /\ g = Chain[Len(Chain)] /\ ledger'[g] = "completed"
                \/ outcome' \in {"failed", "killed"} /\ place'[g] = "raised"
                   /\ ledger'[g] = outcome'
<1>2. Records
  <2>1. CASE UNCHANGED document
    BY <2>1 DEF document, TypeOK
  <2>2. ASSUME NEW s \in TaskStatus, Ledger!Record(g, s) PROVE Records
    BY <2>2, RecordFacts DEF TypeOK
  <2>3. CASE Ledger!Finish("completed") /\ g = Chain[Len(Chain)] /\ ledger[g] = "completed"
    BY <2>3, FinishFacts DEF TypeOK, JobStatus
  <2>4. ASSUME NEW s \in {"failed", "killed"}, Ledger!Finish(s), to = "raised", ledger[g] = s
        PROVE  Records
    BY <1>1, <2>4, FinishFacts DEF TypeOK, JobStatus
  <2> QED
    BY <2>1, <2>2, <2>3, <2>4
<1>3. TypeOK'
  <2>1. <<>> \in Seq(Op)
    BY EmptySeq
  <2> QED
    BY <1>1, <1>2, <2>1 DEF TypeOK, redis, request
<1>4. Active(g) /\ place[g] # "raised" /\ \E i \in DOMAIN Chain : Chain[i] = g
  BY DEF Active, Handling, StageInv
<1>5. Chain' = Chain
  BY DEF Chain
<1>6. StageInv(g)'
  <2>1. to = "killFinishing" => ledger'[g] = "killed"
    BY RecordFacts DEF TaskStatus
  <2>2. to = "failFinishing" => ledger'[g] = "failed"
    BY RecordFacts DEF TaskStatus
  <2> QED
    BY <1>1, <1>4, <1>5, <2>1, <2>2 DEF StageInv
<1>7. \A h \in Agents : place'[h] # "live"
  BY <1>1, <1>4, OneActive DEF Active
<1>8. KillInv' /\ LateInv'
  BY <1>7, HistoryStays
<1> QED
  BY <1>1, <1>2, <1>3, <1>4, <1>6, <1>8, StageKeeps DEF Kept

\* A check finds a kill, or does not get an answer.
LEMMA FailCheckKeeps ==
  ASSUME IInv, NEW g \in Agents, FailCheck(g)
  PROVE  IInv'
<1>1. faults' \in 0 .. MaxFaults
  BY BoundsAssumption DEF FailCheck, Fault, IInv, TypeOK
<1>2. abandoned' \in BOOLEAN
  BY DEF FailCheck, IInv, TypeOK, history
<1> QED
  BY <1>1, <1>2, LeaveKeeps DEF FailCheck, Doing, history, document

\* An operation raises, with or without its effect.
LEMMA RaiseKeeps ==
  ASSUME IInv, NEW g \in Agents, Raise(g)
  PROVE  IInv'
<1> DEFINE to == IF Handles(g) THEN "failing" ELSE "raised"
<1>1. faults' \in 0 .. MaxFaults
  BY BoundsAssumption DEF Raise, Fault, IInv, TypeOK
<1>2. abandoned' \in BOOLEAN
  BY DEF Raise, Handles
<1>3. place[g] = "live" /\ todo \in Seq(Op) /\ todo # <<>>
  BY DEF Raise, Doing, IInv, TypeOK
<1>4. to \in {"failing", "raised"} /\ Move(g, to)
  BY DEF Raise
<1>5. \/ UNCHANGED document
      \/ \E s \in TaskStatus : Ledger!Record(g, s)
      \/ Ledger!Finish("completed") /\ g = Chain[Len(Chain)] /\ ledger[g] = "completed"
  <2>1. CASE UNCHANGED document
    BY <2>1
  <2>2. CASE Effect(g, Head(todo)) /\ Head(todo) \in {"running", "completed"}
    BY <2>2 DEF Effect, TaskStatus
  <2>3. CASE Effect(g, Head(todo)) /\ Head(todo) = "finish"
    <3>1. FinishesLast(g, todo) /\ (~Has(todo, "completed") => ledger[g] = "completed")
      BY <1>3 DEF IInv, StageInv
    <3>2. ~Has(Tail(todo), "completed") /\ g = Chain[Len(Chain)]
      BY <1>3, <2>3, <3>1, TailFacts
    <3>3. ~Has(todo, "completed")
      BY <1>3, <2>3, <3>2, TailFacts
    <3>4. Ledger!Finish("completed")
      BY <2>3 DEF Effect
    <3> QED
      BY <3>1, <3>2, <3>3, <3>4
  <2>4. CASE Effect(g, Head(todo)) /\ Head(todo) \notin {"running", "completed", "finish"}
    BY <2>4 DEF Effect
  <2> QED
    BY <2>1, <2>2, <2>3, <2>4 DEF Raise
<1> HIDE DEF to
<1> QED
  BY <1>1, <1>2, <1>3, <1>4, <1>5, LeaveKeeps DEF Raise

\* The handlers record the status of the task, then of the job.
LEMMA HandleKeeps ==
  ASSUME IInv, NEW g \in Agents, Handle(g)
  PROVE  IInv'
<1>1. /\ faults' \in 0 .. MaxFaults /\ abandoned' \in BOOLEAN
      /\ UNCHANGED <<kind, todo, redis, request, outages, late, ignored>>
  BY DEF Handle, RecordHandled, FinishHandled, history, IInv, TypeOK
<1>2. ASSUME NEW s \in {"killed", "failed"},
             FinishHandled(g, IF s = "killed" THEN "killFinishing" ELSE "failFinishing", s)
      PROVE  IInv'
  <2>1. ledger[g] = s /\ Ledger!Finish(s) /\ Move(g, "raised") /\ place[g] \in Handling
    BY <1>2 DEF FinishHandled, OutcomeOf, IInv, StageInv, Handling
  <2> QED
    BY <1>1, <2>1, LeaveKeeps
<1>3. ASSUME RecordHandled(g, "killing", "killFinishing", "killed") PROVE IInv'
  <2>1. Ledger!Record(g, "killed") /\ Move(g, "killFinishing") /\ place[g] \in Handling
        /\ "killed" \in TaskStatus
    BY <1>3 DEF RecordHandled, Handling, TaskStatus
  <2> QED
    BY <1>1, <2>1, LeaveKeeps
<1>4. ASSUME RecordHandled(g, "failing", "failFinishing", "failed") PROVE IInv'
  <2>1. Ledger!Record(g, "failed") /\ Move(g, "failFinishing") /\ place[g] \in Handling
        /\ "failed" \in TaskStatus
    BY <1>4 DEF RecordHandled, Handling, TaskStatus
  <2> QED
    BY <1>1, <2>1, LeaveKeeps
<1> QED
  BY <1>2, <1>3, <1>4 DEF Handle

\* A handler's call raises, with or without its effect.
LEMMA RaiseInHandlerKeeps ==
  ASSUME IInv, NEW g \in Agents, RaiseInHandler(g)
  PROVE  IInv'
<1>1. faults' \in 0 .. MaxFaults /\ abandoned' \in BOOLEAN
  BY BoundsAssumption DEF RaiseInHandler, Fault, Abandon, IInv, TypeOK
<1>2. \/ UNCHANGED document
      \/ \E s \in TaskStatus : Ledger!Record(g, s)
      \/ \E s \in {"failed", "killed"} : Ledger!Finish(s) /\ ledger[g] = s
  BY DEF RaiseInHandler, HandlerEffect, Handling, TaskStatus, IInv, StageInv
<1> QED
  BY <1>1, <1>2, LeaveKeeps DEF RaiseInHandler, Abandon

\* A worker is lost.
LEMMA CrashKeeps ==
  ASSUME IInv, NEW g \in Agents, Crash(g)
  PROVE  IInv'
<1>1. faults' \in 0 .. MaxFaults /\ abandoned' \in BOOLEAN
  BY BoundsAssumption DEF Crash, Fault, Abandon, IInv, TypeOK
<1> QED
  BY <1>1, LeaveKeeps DEF Crash, Abandon

\* An operation takes effect.  One that bars the stage from a result leaves a
\* script with a check before the next one.
LEMMA PerformKeeps ==
  ASSUME IInv, NEW g \in Agents, Perform(g)
  PROVE  IInv'
<1> USE DEF IInv
<1> DEFINE op == Head(todo)
<1>1. /\ place[g] = "live" /\ todo \in Seq(Op) /\ todo # <<>> /\ op \in Op \ {"check"}
      /\ Effect(g, op) /\ todo' = Tail(todo) /\ Late(op)
      /\ UNCHANGED <<kind, place, redis, request, faults, outages>>
  BY DEF Perform, Doing, TypeOK
<1>2. /\ todo' \in Seq(Op) /\ Spaced(todo') /\ FinishesLast(g, todo')
      /\ op # "completed" /\ Has(todo, "completed") => Has(todo', "completed")
      /\ op = "finish" => ~Has(todo', "completed") /\ g = Chain[Len(Chain)]
      /\ Bars(op) => Guarded(todo')
      /\ Guarded(todo) => Guarded(todo') /\ op # "output"
  BY <1>1, TailFacts DEF StageInv
<1>3. ~Has(todo, "completed") => ledger[g] = "completed"
  BY <1>1 DEF StageInv
<1>4. \E i \in DOMAIN Chain : Chain[i] = g
  BY <1>1 DEF StageInv
<1> HIDE DEF op
<1> DEFINE Records ==
             /\ ledger' \in [Agents -> TaskStatus \cup {Unrecorded}]
             /\ outcome' \in JobStatus \cup {Absent} /\ killRequested' \in BOOLEAN
             /\ \A h \in Agents : h # g => ledger'[h] = ledger[h]
             /\ \/ ledger'[g] = ledger[g]
                \/ ledger[g] \in {Unrecorded, "running"}
                \/ ledger[g] = "completed" /\ ledger'[g] = "failed"
             /\ \/ outcome' = outcome
                \/ outcome' = "running"
                \/ outcome' = "completed" /\ g = Chain[Len(Chain)] /\ ledger'[g] = "completed"
             /\ ~Has(todo', "completed") => ledger'[g] = "completed"
<1>5. Records
  <2>1. CASE op = "running"
    <3>1. Ledger!Record(g, "running") /\ "running" \in TaskStatus
      BY <1>1, <2>1 DEF Effect, TaskStatus
    <3>2. Has(todo', "completed")
      <4>1. ledger[g] # "completed"
        BY <3>1 DEF Ledger!Record, Ledger!MayFollow, Ledger!Unrecorded
      <4> QED
        BY <1>2, <1>3, <2>1, <4>1
    <3> QED
      BY <3>1, <3>2, RecordFacts DEF TypeOK
  <2>2. CASE op = "completed"
    <3>1. Ledger!Record(g, "completed") /\ "completed" \in TaskStatus
      BY <1>1, <2>2 DEF Effect, TaskStatus
    <3> QED
      BY <3>1, RecordFacts DEF TypeOK
  <2>3. CASE op = "finish"
    <3>1. Ledger!Finish("completed") /\ "completed" \in JobStatus
      BY <1>1, <2>3 DEF Effect, JobStatus
    <3>2. g = Chain[Len(Chain)] /\ ledger[g] = "completed"
      BY <1>2, <1>3, <2>3
    <3> QED
      BY <3>1, <3>2, FinishFacts DEF TypeOK
  <2>4. CASE op \notin {"running", "completed", "finish"}
    <3>1. UNCHANGED document
      BY <1>1, <2>4 DEF Effect
    <3> QED
      BY <1>2, <1>3, <2>4, <3>1 DEF document, TypeOK
  <2> QED
    BY <2>1, <2>2, <2>3, <2>4
<1>6. /\ late \in Seq(Op \ {"check"}) /\ late' \in Seq(Op \ {"check"})
      /\ abandoned' = abandoned /\ ignored' = ignored
      /\ \/ late' = late
         \/ redisUp /\ flags # {} /\ late' = Append(late, op)
  <2>1. late \in Seq(Op \ {"check"})
    BY DEF TypeOK
  <2>2. Append(late, op) \in Seq(Op \ {"check"})
    BY <1>1, <2>1, AppendProperties
  <2> QED
    BY <1>1, <2>1, <2>2 DEF Late
<1>7. TypeOK'
  BY <1>1, <1>2, <1>5, <1>6 DEF TypeOK, redis, request
<1>8. Chain' = Chain /\ kind' = kind /\ \A x : Bars(x)' <=> Bars(x)
  BY <1>1 DEF Chain, Bars
<1>9. StageInv(g)'
  <2> HIDE DEF Records
  <2>1. FinishesLast(g, todo)' /\ Spaced(todo)'
    <3>1. FinishesLast(g, todo') /\ Spaced(todo') /\ Chain' = Chain /\ kind' = kind
      BY <1>2, <1>8
    <3>2. FinishesLast(g, todo)'
      BY <3>1 DEF FinishesLast, Has
    <3>3. Spaced(todo)'
      BY <3>1 DEF Spaced, Bars
    <3> QED
      BY <3>2, <3>3
  <2>2. ~Has(todo, "completed")' => ledger'[g] = "completed"
    BY <1>5 DEF Has, Records
  <2> QED
    BY <1>1, <1>4, <1>8, <2>1, <2>2 DEF StageInv
<1>10. KillInv'
  BY <1>1, <1>6 DEF KillInv, redis, request
<1>11. LateInv'
  <2>1. CASE late' = late
    <3>1. (\E i \in DOMAIN late : Bars(late[i])) => Guarded(todo')
      BY <1>1, <1>2 DEF LateInv
    <3> QED
      BY <1>1, <1>6, <2>1, <3>1, HistoryStays
  <2>2. CASE redisUp /\ flags # {} /\ late' = Append(late, op)
    <3> DEFINE n == Len(late)
    <3>1. /\ n \in Nat /\ DOMAIN late = 1 .. n /\ DOMAIN late' = 1 .. n + 1
          /\ late'[n + 1] = op /\ \A i \in 1 .. n : late'[i] = late[i]
      BY <1>6, <2>2, AppendProperties, LenProperties
    <3> HIDE DEF n
    <3>2. ASSUME NEW i \in DOMAIN late', NEW j \in DOMAIN late',
                 Bars(late'[i]), late'[j] = "output"
          PROVE  j <= i
      <4>1. CASE i = n + 1
        BY <3>1, <4>1
      <4>2. CASE i \in 1 .. n /\ j \in 1 .. n
        <5>1. Bars(late[i]) /\ late[j] = "output"
          BY <3>1, <3>2, <4>2
        <5> QED
          BY <3>1, <4>2, <5>1 DEF LateInv
      <4>3. CASE i \in 1 .. n /\ j = n + 1
        <5>1. i \in DOMAIN late /\ Bars(late[i]) /\ op = "output"
          BY <3>1, <3>2, <4>3
        <5>2. Guarded(todo)
          BY <1>1, <5>1 DEF LateInv
        <5> QED
          BY <1>2, <5>1, <5>2
      <4> QED
        BY <3>1, <4>1, <4>2, <4>3
    <3>3. ASSUME NEW i \in DOMAIN late', Bars(late'[i]) PROVE Guarded(todo')
      <4>1. CASE i = n + 1
        BY <1>2, <3>1, <3>3, <4>1
      <4>2. CASE i \in 1 .. n
        <5>1. i \in DOMAIN late /\ Bars(late[i])
          BY <3>1, <3>3, <4>2
        <5>2. Guarded(todo)
          BY <1>1, <5>1 DEF LateInv
        <5> QED
          BY <1>2, <5>2
      <4> QED
        BY <3>1, <4>1, <4>2
    <3>4. redisUp' /\ flags' # {}
      BY <1>1, <2>2 DEF redis
    <3>5. (\A i, j \in DOMAIN late : Bars(late[i]) /\ late[j] = "output" => j <= i)'
      BY <1>8, <3>2
    <3>6. ((\E i \in DOMAIN late : Bars(late[i])) =>
             \A h \in Agents : place[h] = "live" => Guarded(todo))'
      BY <1>8, <3>3 DEF Guarded
    <3> QED
      BY <3>4, <3>5, <3>6 DEF LateInv
  <2> QED
    BY <1>6, <2>1, <2>2
<1> QED
  BY <1>1, <1>5, <1>7, <1>9, <1>10, <1>11, StageKeeps DEF Active, Kept

\* The job is not there to be finished.
LEMMA SkipFinishKeeps ==
  ASSUME IInv, NEW g \in Agents, SkipFinish(g)
  PROVE  IInv'
<1> USE DEF IInv
<1>1. /\ place[g] = "live" /\ todo \in Seq(Op) /\ todo # <<>> /\ Head(todo) = "finish"
      /\ todo' = Tail(todo) /\ faults' = faults + 1 /\ faults < MaxFaults /\ abandoned' = TRUE
      /\ UNCHANGED <<kind, place, document, redis, request, outages, late, ignored>>
  BY DEF SkipFinish, Doing, Fault, Abandon, TypeOK
<1>2. /\ todo' \in Seq(Op) /\ Spaced(todo') /\ FinishesLast(g, todo')
      /\ Has(todo, "completed") => Has(todo', "completed")
      /\ Guarded(todo) => Guarded(todo')
  BY <1>1, TailFacts DEF StageInv
<1>3. TypeOK'
  <2>1. faults' \in 0 .. MaxFaults
    BY <1>1, BoundsAssumption DEF TypeOK
  <2>2. <<abandoned, ignored>>' \in BOOLEAN \X BOOLEAN
    BY <1>1 DEF TypeOK
  <2> QED
    BY <1>1, <1>2, <2>1, <2>2 DEF TypeOK, document, redis, request
<1>4. Chain' = Chain
  BY <1>1 DEF Chain
<1>5. StageInv(g)'
  <2>1. /\ \E i \in DOMAIN Chain : Chain[i] = g
        /\ ~Has(todo, "completed") => ledger[g] = "completed"
    BY <1>1 DEF StageInv
  <2>2. FinishesLast(g, todo)' /\ Spaced(todo)'
    BY SMTT(30), <1>1, <1>2, <1>4 DEF FinishesLast, Has, Spaced, Bars
  <2>3. ~Has(todo, "completed")' => ledger'[g] = "completed"
    BY <1>1, <1>2, <2>1 DEF document, Has
  <2> QED
    BY <1>1, <1>4, <2>1, <2>2, <2>3 DEF StageInv
<1>6. (\E i \in DOMAIN late : Bars(late[i])) => Guarded(todo')
  BY <1>1, <1>2 DEF LateInv
<1>7. KillInv' /\ LateInv'
  BY <1>1, <1>6, HistoryStays
<1> QED
  BY <1>1, <1>3, <1>5, <1>7, StageKeeps DEF Active, Kept, document

\* Where stages only move, and none to a body, the invariant rests on the order
\* and on what places say of the document.
LEMMA PlacesKeep ==
  ASSUME IInv, TypeOK', StagesInOrder', UNCHANGED <<kind, todo, ledger, outcome>>,
         \A g \in Agents :
           \/ place'[g] = place[g]
           \/ place[g] = "waiting" /\ place'[g] = "queued" /\ \E i \in DOMAIN Chain : Chain[i] = g
           \/ place[g] = "queued" /\ place'[g] = "lost"
           \/ place[g] = "live" /\ place'[g] = "returned",
         KillInv',
         \/ late' = <<>>
         \/ late' = late /\ (late # <<>> => redisUp' /\ flags' # {})
  PROVE  IInv'
<1> USE DEF IInv
<1>1. Chain' = Chain /\ kind' = kind /\ todo' = todo
      /\ ledger' = ledger /\ outcome' = outcome
  BY DEF Chain
<1>2. ASSUME NEW g \in Agents PROVE StageInv(g)'
  <2>1. FinishesLast(g, todo)' <=> FinishesLast(g, todo)
    BY <1>1 DEF FinishesLast, Has
  <2>2. Spaced(todo)' <=> Spaced(todo)
    BY <1>1 DEF Spaced, Bars
  <2>3. Has(todo, "completed")' <=> Has(todo, "completed")
    BY <1>1 DEF Has
  <2>4. StageInv(g)
    OBVIOUS
  <2>5. CASE place'[g] = place[g]
    BY <1>1, <2>1, <2>2, <2>3, <2>4, <2>5 DEF StageInv
  <2>6. CASE place[g] = "waiting" /\ place'[g] = "queued" /\ \E i \in DOMAIN Chain : Chain[i] = g
    BY <1>1, <2>4, <2>6 DEF StageInv
  <2>7. CASE place'[g] \in {"lost", "returned"} /\ place[g] \in {"queued", "live"}
    BY <1>1, <2>4, <2>7 DEF StageInv
  <2> QED
    BY <2>5, <2>6, <2>7
<1>3. OutcomeInv'
  <2>1. ASSUME outcome \in {"failed", "killed"}
        PROVE  \E i \in DOMAIN Chain : place'[Chain[i]] = "raised" /\ ledger[Chain[i]] = outcome
    <3>1. PICK i \in DOMAIN Chain : place[Chain[i]] = "raised" /\ ledger[Chain[i]] = outcome
      BY <2>1 DEF OutcomeInv
    <3>2. Chain[i] \in Agents
      BY ChainFacts DEF TypeOK
    <3>3. place'[Chain[i]] = "raised"
      BY <3>1, <3>2
    <3> QED
      BY <3>1, <3>3
  <2> QED
    BY <1>1, <2>1 DEF OutcomeInv
<1>4. CASE late' = <<>>
  <2>1. LateInv'
    BY <1>4 DEF LateInv
  <2> QED
    BY <1>2, <1>3, <2>1
<1>5. CASE late' = late /\ (late # <<>> => redisUp' /\ flags' # {})
  <2>1. ASSUME NEW g \in Agents, place'[g] = "live" PROVE place[g] = "live"
    BY <2>1
  <2>2. (\A i, j \in DOMAIN late : Bars(late[i]) /\ late[j] = "output" => j <= i)'
    BY <1>1, <1>5 DEF LateInv, Bars
  <2>3. ((\E i \in DOMAIN late : Bars(late[i])) =>
           \A g \in Agents : place[g] = "live" => Guarded(todo))'
    BY <1>1, <1>5, <2>1 DEF LateInv, Bars, Guarded
  <2>4. (late # <<>> => redisUp /\ flags # {})'
    BY <1>5
  <2>5. LateInv'
    BY <2>2, <2>3, <2>4 DEF LateInv
  <2> QED
    BY <1>2, <1>3, <2>5
<1> QED
  BY <1>4, <1>5

\* A task returns: its checkpoint is in the document, and the next stage, which
\* nobody has sent before, follows it.
LEMMA ReturnKeeps ==
  ASSUME IInv, NEW g \in Agents, Return(g)
  PROVE  IInv'
<1> USE DEF IInv
<1>1. /\ place[g] = "live" /\ todo = <<>> /\ redisUp
      /\ UNCHANGED <<kind, todo, document, redis, request, faults, outages, history>>
  BY DEF Return
<1>2. PICK i \in DOMAIN Chain :
        /\ Chain[i] = g
        /\ place' = [place EXCEPT ![g] = "returned",
                       ![Chain[IF i < Len(Chain) THEN i + 1 ELSE i]] =
                          IF i < Len(Chain) THEN "queued" ELSE "returned"]
  BY DEF Return
<1> DEFINE n == Len(Chain)
<1>3. /\ n \in Nat /\ DOMAIN Chain = 1 .. n /\ i \in 1 .. n
      /\ \A k \in 1 .. n : Chain[k] \in Agents
      /\ \A j, k \in 1 .. n : Chain[j] = Chain[k] => j = k
  BY <1>2, ChainFacts DEF TypeOK
<1>4. place \in [Agents -> Place] /\ ledger[g] = "completed" /\ Chain' = Chain
  BY <1>1 DEF TypeOK, StageInv, Has, Chain
<1>5. ASSUME i < n
      PROVE  Chain[i + 1] \in Agents /\ Chain[i + 1] # g /\ place[Chain[i + 1]] = "waiting"
  <2>1. i + 1 \in 1 .. n /\ i < i + 1 /\ i \in 1 .. n
    BY <1>3, <1>5
  <2>2. Chain[i + 1] \in Agents /\ Chain[i + 1] # g
    BY <1>2, <1>3, <2>1
  <2>3. place[Chain[i]] # "returned"
    BY <1>1, <1>2
  <2> QED
    BY <1>3, <2>1, <2>2, <2>3 DEF StagesInOrder
<1> DEFINE next == Chain[i + 1]
<1>6. /\ place' \in [Agents -> Place] /\ place'[g] = "returned"
      /\ \A h \in Agents : h # g /\ ~(i < n /\ h = next) => place'[h] = place[h]
      /\ i < n => place'[next] = "queued"
  <2>1. CASE i < n
    <3>1. place' = [place EXCEPT ![g] = "returned", ![next] = "queued"]
      BY <1>2, <2>1
    <3> HIDE DEF next, n
    <3>2. next \in Agents /\ next # g
      BY <1>5, <2>1 DEF next
    <3> QED
      BY <1>4, <2>1, <3>1, <3>2 DEF Place
  <2>2. CASE ~(i < n)
    <3>1. place' = [place EXCEPT ![g] = "returned", ![g] = "returned"]
      BY <1>2, <2>2
    <3> QED
      BY <1>4, <2>2, <3>1 DEF Place
  <2> QED
    BY <2>1, <2>2
<1>7. TypeOK'
  BY <1>1, <1>6 DEF TypeOK, document, redis, request, history
<1>8. StagesInOrder'
  <2> HIDE DEF n, next
  <2>1. ASSUME NEW a \in 1 .. n, NEW b \in 1 .. n, a < b, place'[Chain[b]] # "waiting"
        PROVE  place'[Chain[a]] = "returned" /\ ledger[Chain[a]] = "completed"
    <3>1. CASE place[Chain[b]] # "waiting"
      <4>1. place[Chain[a]] = "returned" /\ ledger[Chain[a]] = "completed"
        BY <1>3, <2>1, <3>1 DEF StagesInOrder
      <4>2. Chain[a] \in Agents /\ ~(i < n /\ Chain[a] = next)
        BY <1>3, <1>5, <4>1 DEF next
      <4> QED
        BY <1>6, <4>1, <4>2
    <3>2. CASE place[Chain[b]] = "waiting"
      <4>1. Chain[b] \in Agents /\ Chain[b] # g
        BY <1>1, <1>3, <3>2
      <4>2. i < n /\ Chain[b] = Chain[i + 1]
        BY <1>6, <2>1, <3>2, <4>1 DEF next
      <4>3. b = i + 1
        BY <1>3, <4>2
      <4>4. CASE a = i
        BY <1>2, <1>4, <1>6, <4>4
      <4>5. CASE a # i
        <5>1. a < i
          BY <1>3, <2>1, <4>3, <4>5
        <5>2. place[Chain[a]] = "returned" /\ ledger[Chain[a]] = "completed"
          BY <1>1, <1>2, <1>3, <5>1 DEF StagesInOrder
        <5>3. Chain[a] \in Agents /\ ~(i < n /\ Chain[a] = next)
          BY <1>3, <1>5, <5>2 DEF next
        <5> QED
          BY <1>6, <5>2, <5>3
      <4> QED
        BY <4>4, <4>5
    <3> QED
      BY <3>1, <3>2
  <2>2. ledger' = ledger
    BY <1>1 DEF document
  <2> QED
    BY <1>3, <1>4, <2>1, <2>2 DEF StagesInOrder, n
<1>9. ASSUME NEW h \in Agents
      PROVE  \/ place'[h] = place[h]
             \/ place[h] = "waiting" /\ place'[h] = "queued" /\ \E j \in DOMAIN Chain : Chain[j] = h
             \/ place[h] = "live" /\ place'[h] = "returned"
  <2>1. CASE h = g
    BY <1>1, <1>6, <2>1
  <2>2. CASE i < n /\ h = next
    <3>1. i + 1 \in DOMAIN Chain /\ Chain[i + 1] = h
      BY <1>3, <2>2
    <3> QED
      BY <1>5, <1>6, <2>2, <3>1
  <2>3. CASE h # g /\ ~(i < n /\ h = next)
    BY <1>6, <2>3
  <2> QED
    BY <2>1, <2>2, <2>3
<1>10. KillInv' /\ (late # <<>> => redisUp' /\ flags' # {}) /\ UNCHANGED late
  BY <1>1 DEF KillInv, LateInv, redis, request, history
<1> QED
  BY <1>1, <1>7, <1>8, <1>9, <1>10, PlacesKeep DEF document

\* The API sends the first stage; none of the others has been.
LEMMA TriggerKeeps ==
  ASSUME IInv, Trigger
  PROVE  IInv'
<1> USE DEF IInv
<1> DEFINE g == Chain[1]
<1>1. /\ place[g] = "waiting" /\ Move(g, "queued")
      /\ UNCHANGED <<kind, todo, document, redis, request, faults, outages, history>>
  BY DEF Trigger
<1>2. /\ 1 \in DOMAIN Chain /\ Chain[1] \in Agents
      /\ \A i \in DOMAIN Chain : i \in Nat /\ i >= 1 /\ Chain[i] \in Agents
  <2>1. /\ Len(Chain) \in Nat \ {0} /\ DOMAIN Chain = 1 .. Len(Chain)
        /\ \A i \in DOMAIN Chain : Chain[i] \in Agents
    BY ChainFacts DEF TypeOK
  <2>2. 1 \in 1 .. Len(Chain) /\ \A i \in 1 .. Len(Chain) : i \in Nat /\ i >= 1
    BY <2>1
  <2> QED
    BY <2>1, <2>2
<1>3. \A i \in DOMAIN Chain : 1 < i => place[Chain[i]] = "waiting"
  BY <1>1, <1>2 DEF StagesInOrder
<1>4. \A i, j \in DOMAIN Chain : Chain[i] = Chain[j] => i = j
  BY ChainFacts DEF TypeOK
<1>5. /\ place' \in [Agents -> Place] /\ place'[g] = "queued"
      /\ \A h \in Agents : h # g => place'[h] = place[h]
  BY <1>1, <1>2, MoveFacts DEF Place
<1>6. TypeOK'
  BY <1>1, <1>5 DEF TypeOK, document, redis, request, history
<1>7. StagesInOrder'
  <2>1. \A j \in DOMAIN Chain : 1 < j => place'[Chain[j]] = "waiting"
    BY <1>2, <1>3, <1>4, <1>5
  <2>2. \A i, j \in DOMAIN Chain : i < j => 1 < j
    BY <1>2
  <2>3. Chain' = Chain
    BY <1>1 DEF Chain
  <2> QED
    BY <2>1, <2>2, <2>3 DEF StagesInOrder
<1>8. KillInv' /\ (late # <<>> => redisUp' /\ flags' # {}) /\ UNCHANGED late
  BY <1>1 DEF KillInv, LateInv, redis, request, history
<1> QED
  BY <1>1, <1>2, <1>5, <1>6, <1>7, <1>8, PlacesKeep DEF document

\* A message that is lost leaves the order of the stages as it was.
LEMMA LostKeepsOrder ==
  ASSUME IInv, UNCHANGED <<kind, ledger>>,
         \A g \in Agents : place'[g] = place[g] \/ (place[g] = "queued" /\ place'[g] = "lost")
  PROVE  StagesInOrder'
<1>1. Chain' = Chain /\ \A i \in DOMAIN Chain : Chain[i] \in Agents
  BY ChainFacts DEF IInv, TypeOK, Chain
<1> SUFFICES ASSUME NEW i \in DOMAIN Chain, NEW j \in DOMAIN Chain, i < j,
                    place'[Chain[j]] # "waiting"
             PROVE  place'[Chain[i]] = "returned" /\ ledger[Chain[i]] = "completed"
  BY <1>1 DEF StagesInOrder
<1>2. place[Chain[j]] # "waiting"
  BY <1>1
<1>3. place[Chain[i]] = "returned" /\ ledger[Chain[i]] = "completed"
  BY <1>2 DEF IInv, StagesInOrder
<1> QED
  BY <1>1, <1>3

\* The request sets its flag before anything else.
LEMMA KillFlagKeeps ==
  ASSUME IInv, NEW s \in Scopes, KillFlag(s)
  PROVE  IInv'
<1> USE DEF IInv
<1>1. /\ admin' = "flagged" /\ scope' = s /\ flags' = flags \cup {s} /\ redisUp' = redisUp
      /\ UNCHANGED <<kind, place, todo, document, faults, outages, history>>
  BY DEF KillFlag, stages
<1>2. TypeOK'
  BY <1>1 DEF TypeOK, document, history
<1>3. StagesInOrder'
  BY <1>1, LostKeepsOrder DEF document
<1>4. KillInv' /\ (late # <<>> => redisUp' /\ flags' # {}) /\ UNCHANGED late
  BY <1>1 DEF KillInv, LateInv, history
<1> QED
  BY <1>1, <1>2, <1>3, <1>4, PlacesKeep DEF document

\* What follows in the request changes the document, no stage and no flag.
LEMMA RequestKeeps ==
  ASSUME IInv, KillMark \/ KillAudit \/ KillRaises
  PROVE  IInv'
<1> USE DEF IInv
<1>1. /\ admin \in {"flagged", "marked", "purging"}
      /\ admin' \in {"marked", "purging", "done", "raised"} /\ scope' = scope
      /\ UNCHANGED <<kind, place, todo, ledger, outcome, redis, outages, history>>
  <2>1. CASE KillMark
    BY <2>1 DEF KillMark, Ledger!RequestKill, document, stages
  <2>2. CASE KillAudit
    BY <2>2 DEF KillAudit, document, stages
  <2>3. CASE KillRaises
    BY <2>3 DEF KillRaises, document, stages
  <2> QED
    BY <2>1, <2>2, <2>3
<1>2. killRequested' \in BOOLEAN
  BY DEF TypeOK, KillMark, KillAudit, KillRaises, Ledger!RequestKill, document
<1>3. faults' \in 0 .. MaxFaults
  BY BoundsAssumption DEF TypeOK, KillMark, KillAudit, KillRaises, Fault
<1>4. TypeOK'
  BY <1>1, <1>2, <1>3 DEF TypeOK, redis, history
<1>5. StagesInOrder'
  BY <1>1, LostKeepsOrder
<1>6. KillInv' /\ (late # <<>> => redisUp' /\ flags' # {}) /\ UNCHANGED late
  BY <1>1 DEF KillInv, LateInv, redis, history
<1> QED
  BY <1>1, <1>4, <1>5, <1>6, PlacesKeep

\* The purge loses the messages in the queues, of whatever job.
LEMMA PurgeKeeps ==
  ASSUME IInv, Purge
  PROVE  IInv'
<1> USE DEF IInv
<1>1. /\ admin = "purging" /\ admin' = "done"
      /\ place' = [g \in Agents |-> IF place[g] = "queued" THEN "lost" ELSE place[g]]
      /\ abandoned' \in BOOLEAN
      /\ UNCHANGED <<kind, todo, document, redis, scope, faults, outages, late, ignored>>
  BY DEF Purge, TypeOK
<1>2. \A g \in Agents : place'[g] = place[g] \/ (place[g] = "queued" /\ place'[g] = "lost")
  BY <1>1
<1>3. place' \in [Agents -> Place]
  BY <1>1 DEF TypeOK, Place
<1>4. TypeOK'
  BY <1>1, <1>3 DEF TypeOK, document, redis
<1>5. StagesInOrder'
  BY <1>1, <1>2, LostKeepsOrder DEF document
<1>6. KillInv' /\ (late # <<>> => redisUp' /\ flags' # {}) /\ UNCHANGED late
  BY <1>1 DEF KillInv, LateInv, redis
<1> QED
  BY <1>1, <1>2, <1>4, <1>5, <1>6, PlacesKeep DEF document

\* Redis goes away with what it had not written, flags and messages.
LEMMA RedisLostKeeps ==
  ASSUME IInv, RedisLost
  PROVE  IInv'
<1> USE DEF IInv
<1>1. /\ outages < MaxOutages /\ outages' = outages + 1 /\ redisUp' = FALSE
      /\ flags' \in SUBSET flags /\ late' = <<>>
      /\ abandoned' \in BOOLEAN
      /\ UNCHANGED <<kind, todo, document, request, faults, ignored>>
  BY DEF RedisLost, TypeOK
<1>2. /\ place' \in [Agents -> Place]
      /\ \A g \in Agents : place'[g] = place[g] \/ (place[g] = "queued" /\ place'[g] = "lost")
  <2>1. CASE place' = place
    BY <2>1 DEF TypeOK
  <2>2. ASSUME NEW g \in Agents, place[g] = "queued", Move(g, "lost")
        PROVE  /\ place' \in [Agents -> Place]
               /\ \A h \in Agents : h # g => place'[h] = place[h]
               /\ place'[g] = "lost"
    BY <2>2, MoveFacts DEF Place
  <2> QED
    BY <2>1, <2>2 DEF RedisLost
<1>3. outages' \in 0 .. MaxOutages /\ outages' # 0
  BY <1>1, BoundsAssumption DEF TypeOK
<1>4. <<>> \in Seq(Op \ {"check"})
  BY EmptySeq
<1>5. TypeOK'
  BY <1>1, <1>2, <1>3, <1>4 DEF TypeOK, document, request
<1>6. StagesInOrder'
  BY <1>1, <1>2, LostKeepsOrder DEF document
<1>7. KillInv'
  BY <1>3 DEF KillInv
<1>8. LateInv'
  BY <1>1 DEF LateInv
<1> QED
  BY <1>1, <1>2, <1>5, <1>6, <1>7, <1>8, PlacesKeep DEF document

-----------------------------------------------------------------------------
(* The theorems *)

\* No stage has been sent, nothing is recorded and no kill is asked for.
LEMMA InitInv == Init => IInv
<1> SUFFICES ASSUME Init PROVE IInv
  OBVIOUS
<1>1. /\ kind \in Kinds /\ place = [g \in Agents |-> "waiting"] /\ todo = <<>>
      /\ ledger = [g \in Agents |-> Unrecorded] /\ outcome = Absent /\ killRequested = FALSE
      /\ flags = {} /\ redisUp = TRUE /\ admin = "idle" /\ scope = "all"
      /\ faults = 0 /\ outages = 0 /\ abandoned = FALSE /\ late = <<>> /\ ignored = FALSE
  BY DEF Init, Ledger!Init, Ledger!Unrecorded, Ledger!Absent, Unrecorded, Absent
<1>2. <<>> \in Seq(Op) /\ <<>> \in Seq(Op \ {"check"})
  BY EmptySeq
<1>3. 0 \in 0 .. MaxFaults /\ 0 \in 0 .. MaxOutages
  BY BoundsAssumption
<1>4. TypeOK
  BY <1>1, <1>2, <1>3 DEF TypeOK, Place, Scopes
<1>5. \A i \in DOMAIN Chain : place[Chain[i]] = "waiting"
  BY <1>1, ChainFacts
<1>6. StagesInOrder
  BY <1>5 DEF StagesInOrder
<1>7. \A g \in Agents : StageInv(g)
  BY <1>1 DEF StageInv
<1>8. OutcomeInv /\ KillInv /\ LateInv
  BY <1>1 DEF OutcomeInv, KillInv, LateInv, Absent
<1> QED
  BY <1>4, <1>6, <1>7, <1>8 DEF IInv

\* A step that changes nothing.
LEMMA StutterInv == IInv /\ UNCHANGED vars => IInv'
<1> SUFFICES ASSUME IInv, UNCHANGED vars PROVE IInv'
  OBVIOUS
<1>1. /\ UNCHANGED <<kind, place, todo, document, redis, request, faults, outages, history>>
  BY DEF vars, stages
<1>2. TypeOK'
  BY <1>1 DEF IInv, TypeOK, document, redis, request, history
<1>3. StagesInOrder'
  BY <1>1, LostKeepsOrder DEF document
<1>4. KillInv' /\ (late # <<>> => redisUp' /\ flags' # {}) /\ UNCHANGED late
  BY <1>1 DEF IInv, KillInv, LateInv, redis, request, history
<1> QED
  BY <1>1, <1>2, <1>3, <1>4, PlacesKeep DEF document

\* The invariant is inductive: one step per action.
LEMMA NextInv == IInv /\ [Next]_vars => IInv'
<1> SUFFICES ASSUME IInv, [Next]_vars PROVE IInv'
  OBVIOUS
<1>1. CASE Trigger
  BY <1>1, TriggerKeeps
<1>2. ASSUME NEW g \in Agents, StageStep(g) PROVE IInv'
  BY <1>2, StartKeeps, PassKeeps, FailCheckKeeps, PerformKeeps, ReturnKeeps, HandleKeeps
     DEF StageStep
<1>3. ASSUME NEW g \in Agents, StageFault(g) PROVE IInv'
  BY <1>3, SkipFinishKeeps, RaiseKeeps, RaiseInHandlerKeeps, CrashKeeps DEF StageFault
<1>4. CASE Kill
  BY <1>4, KillFlagKeeps, RequestKeeps, PurgeKeeps DEF Kill
<1>5. CASE RedisLost
  BY <1>5, RedisLostKeeps
<1>6. CASE RedisBack
  <2>1. /\ redisUp' = TRUE /\ flags' = flags
        /\ UNCHANGED <<kind, place, todo, document, request, faults, outages, history>>
    BY <1>6 DEF RedisBack, stages
  <2>2. TypeOK'
    BY <2>1 DEF IInv, TypeOK, document, request, history
  <2>3. StagesInOrder'
    BY <2>1, LostKeepsOrder DEF document
  <2>4. KillInv' /\ (late # <<>> => redisUp' /\ flags' # {}) /\ UNCHANGED late
    BY <2>1 DEF IInv, KillInv, LateInv, request, history
  <2> QED
    BY <2>1, <2>2, <2>3, <2>4, PlacesKeep DEF document
<1>7. CASE UNCHANGED vars
  BY <1>7, StutterInv
<1> QED
  BY <1>1, <1>2, <1>3, <1>4, <1>5, <1>6, <1>7 DEF Next

\* The inductive invariant holds in every run of every kind of job.
THEOREM Invariance == Spec => []IInv
BY InitInv, NextInv, PTL DEF Spec

\* Stages, document, request and histories are always well formed.
THEOREM TypeCorrect == Spec => []TypeOK
<1>1. IInv => TypeOK
  BY DEF IInv
<1> QED
  BY <1>1, Invariance, PTL

\* build_pipeline's chain runs its stages in order: one is sent only after every
\* stage before it returned with its completed checkpoint in the document.
THEOREM Order == Spec => []StagesInOrder
<1>1. IInv => StagesInOrder
  BY DEF IInv
<1> QED
  BY <1>1, Invariance, PTL

\* Whatever is raised, crashes or is killed, the tasks' statuses explain the
\* job's: one stage failed or was killed and none after it ran, or all completed.
THEOREM Outcome == Spec => []OutcomeExplained
<1>1. IInv => OutcomeExplained
  <2> SUFFICES ASSUME IInv PROVE OutcomeExplained
    OBVIOUS
  <2> USE DEF IInv
  <2> DEFINE n == Len(Chain)
  <2>1. /\ n \in Nat \ {0} /\ DOMAIN Chain = 1 .. n
        /\ \A i \in 1 .. n : Chain[i] \in Agents
    BY ChainFacts DEF TypeOK
  <2> HIDE DEF n
  <2>2. ASSUME NEW i \in 1 .. n, place[Chain[i]] # "waiting", NEW j \in 1 .. i - 1
        PROVE  ledger[Chain[j]] = "completed"
    <3>1. j \in 1 .. n /\ j < i
      BY <2>1
    <3> QED
      BY <2>1, <2>2, <3>1 DEF StagesInOrder
  <2>3. ASSUME outcome \in {"killed", "failed"}
        PROVE  \E i \in DOMAIN Chain : EndedBy(i, outcome)
    <3>1. PICK i \in 1 .. n : place[Chain[i]] = "raised" /\ ledger[Chain[i]] = outcome
      BY <2>1, <2>3 DEF OutcomeInv
    <3>2. ASSUME NEW j \in i + 1 .. n
          PROVE  ledger[Chain[j]] = Unrecorded /\ place[Chain[j]] = "waiting"
      <4>1. j \in 1 .. n /\ i < j
        BY <2>1
      <4>2. place[Chain[j]] = "waiting"
        BY <2>1, <3>1, <4>1 DEF StagesInOrder
      <4> QED
        BY <2>1, <4>1, <4>2 DEF StageInv
    <3> QED
      BY <2>1, <2>2, <3>1, <3>2 DEF EndedBy, n
  <2>4. ASSUME outcome = "completed"
        PROVE  EndedBy(n, "completed") \/ EndedBy(n, "failed")
    <3>1. n \in 1 .. n /\ ledger[Chain[n]] \in {"completed", "failed"}
      BY <2>1, <2>4 DEF OutcomeInv, n
    <3>2. place[Chain[n]] # "waiting"
      BY <2>1, <3>1 DEF StageInv, Unrecorded
    <3>3. \A j \in n + 1 .. n : FALSE
      BY <2>1
    <3> QED
      BY <2>2, <3>1, <3>2, <3>3 DEF EndedBy, n
  <2> QED
    BY <2>3, <2>4 DEF OutcomeExplained, n
<1> QED
  BY <1>1, Invariance, PTL

\* A kill that was acknowledged is obeyed by every check, whatever its scope, as
\* long as Redis keeps its flag.
THEOREM Obeyed == Spec => []KillObeyed
<1>1. IInv => KillObeyed
  BY DEF IInv, KillInv, KillObeyed
<1> QED
  BY <1>1, Invariance, PTL

\* Under a flag a job writes at most one more result, and commits no code that
\* was generated under it.
THEOREM Confinement == Spec => []KillConfines
<1>1. IInv => KillConfines
  <2> SUFFICES ASSUME IInv PROVE KillConfines
    OBVIOUS
  <2>1. \A i, j \in DOMAIN late : Bars(late[i]) /\ late[j] = "output" => j <= i
    BY DEF IInv, LateInv
  <2>2. DOMAIN late \subseteq Nat
    BY LenProperties DEF IInv, TypeOK
  <2>3. Cardinality(LateAt("output")) <= 1
    <3>1. \A i, j \in LateAt("output") : i = j
      BY <2>1, <2>2 DEF LateAt, Bars
    <3>2. CASE LateAt("output") = {}
      BY <3>2, FS_EmptySet
    <3>3. ASSUME NEW i \in LateAt("output") PROVE Cardinality(LateAt("output")) = 1
      <4>1. LateAt("output") = {i}
        BY <3>1
      <4> QED
        BY <4>1, FS_Singleton
    <3> QED
      BY <3>2, <3>3
  <2>4. ASSUME kind = "code", NEW i \in LateAt("llm"), NEW j \in LateAt("output")
        PROVE  j < i
    <3>1. i \in DOMAIN late /\ j \in DOMAIN late /\ late[i] = "llm" /\ late[j] = "output"
      BY DEF LateAt
    <3>2. j <= i /\ j # i
      BY <2>1, <2>4, <3>1 DEF Bars
    <3> QED
      BY <2>2, <3>1, <3>2
  <2> QED
    BY <2>3, <2>4 DEF KillConfines
<1> QED
  BY <1>1, Invariance, PTL

-----------------------------------------------------------------------------
(* The job_run document *)

\* What a stage does to the document: nothing, or one record of its own status,
\* or the end of the job.
LEMMA StageDocument ==
  ASSUME NEW g \in Agents, StageStep(g) \/ StageFault(g)
  PROVE  \/ UNCHANGED document
         \/ /\ place[g] \in {"live"} \cup Handling
            /\ \/ \E s \in TaskStatus : Ledger!Record(g, s)
               \/ \E s \in JobStatus \ {"running"} : Ledger!Finish(s)
<1> DEFINE Written == \/ \E s \in TaskStatus : Ledger!Record(g, s)
                      \/ \E s \in JobStatus \ {"running"} : Ledger!Finish(s)
<1>1. ASSUME NEW op, Effect(g, op) PROVE UNCHANGED document \/ Written
  BY <1>1 DEF Effect, TaskStatus, JobStatus
<1>2. CASE Start(g) \/ PassCheck(g) \/ FailCheck(g) \/ Return(g) \/ SkipFinish(g) \/ Crash(g)
  BY <1>2 DEF Start, PassCheck, FailCheck, Return, SkipFinish, Crash
<1>3. CASE Perform(g)
  BY <1>1, <1>3 DEF Perform, Doing
<1>4. CASE Raise(g)
  BY <1>1, <1>4 DEF Raise, Doing
<1>5. CASE Handle(g)
  BY <1>5 DEF Handle, RecordHandled, FinishHandled, OutcomeOf, Handling, TaskStatus, JobStatus
<1>6. CASE RaiseInHandler(g)
  BY <1>6 DEF RaiseInHandler, HandlerEffect, TaskStatus, JobStatus
<1> QED
  BY <1>2, <1>3, <1>4, <1>5, <1>6 DEF StageStep, StageFault

\* All that stages and the kill request do to the document are steps of the
\* ledger, which checkpoint.py was shown to keep.
THEOREM Document == Spec => Ledger!Spec
<1>1. Init => Ledger!Init
  BY DEF Init
<1>2. [Next]_vars => [Ledger!Next]_(Ledger!vars)
  <2> SUFFICES ASSUME [Next]_vars PROVE [Ledger!Next]_(Ledger!vars)
    OBVIOUS
  <2>1. UNCHANGED document => UNCHANGED Ledger!vars
    BY DEF document, Ledger!vars
  <2>2. ASSUME NEW g \in Agents, StageStep(g) \/ StageFault(g)
        PROVE  Ledger!Next \/ UNCHANGED document
    BY <2>2, StageDocument DEF Ledger!Next, Ledger!TaskStatus, TaskStatus, Ledger!JobStatus,
       JobStatus
  <2>3. CASE Kill
    BY <2>1, <2>3 DEF Kill, KillFlag, KillMark, KillAudit, Purge, KillRaises, Ledger!Next
  <2>4. CASE Trigger \/ RedisLost \/ RedisBack
    BY <2>1, <2>4 DEF Trigger, RedisLost, RedisBack
  <2>5. CASE UNCHANGED vars
    BY <2>1, <2>5 DEF vars
  <2> QED
    BY <2>1, <2>2, <2>3, <2>4, <2>5 DEF Next
<1> QED
  BY <1>1, <1>2, PTL DEF Spec, Ledger!Spec

UnderWay == {"queued", "live"} \cup Handling

\* A job that failed or was killed is over: no stage of it is in a queue or at
\* work, and nothing is recorded of its tasks or of itself any more.
THEOREM Finality ==
  Spec => /\ [](outcome \in {"failed", "killed"} => \A g \in Agents : place[g] \notin UnderWay)
          /\ [][(outcome \in {"failed", "killed"}) => UNCHANGED <<ledger, outcome>>]_vars
<1> DEFINE Quiet == outcome \in {"failed", "killed"} => \A g \in Agents : place[g] \notin UnderWay
           Final == (outcome \in {"failed", "killed"}) => UNCHANGED <<ledger, outcome>>
<1>1. IInv => Quiet
  <2> SUFFICES ASSUME IInv, outcome \in {"failed", "killed"},
                      NEW g \in Agents, place[g] \in UnderWay
               PROVE  FALSE
    OBVIOUS
  <2>1. Active(g) /\ place[g] # "raised"
    BY DEF UnderWay, Handling, Active
  <2> QED
    BY <2>1, NotOver
<1>2. IInv /\ [Next]_vars => [Final]_vars
  <2> SUFFICES ASSUME IInv, Next, outcome \in {"failed", "killed"}
               PROVE  UNCHANGED <<ledger, outcome>>
    BY DEF vars
  <2>1. ASSUME NEW g \in Agents, StageStep(g) \/ StageFault(g)
        PROVE  UNCHANGED <<ledger, outcome>>
    <3>1. place[g] \notin {"live"} \cup Handling
      BY <1>1 DEF UnderWay
    <3>2. UNCHANGED document
      BY <2>1, <3>1, StageDocument
    <3> QED
      BY <3>2 DEF document
  <2>2. CASE Kill
    BY <2>2 DEF Kill, KillFlag, KillMark, KillAudit, Purge, KillRaises, Ledger!RequestKill,
       document
  <2>3. CASE Trigger \/ RedisLost \/ RedisBack
    BY <2>3 DEF Trigger, RedisLost, RedisBack, document
  <2> QED
    BY <2>1, <2>2, <2>3 DEF Next
<1> HIDE DEF Quiet, Final
<1>3. Spec => []Quiet /\ [][Final]_vars
  BY <1>1, <1>2, Invariance, PTL DEF Spec
<1> QED
  BY <1>3 DEF Quiet, Final

-----------------------------------------------------------------------------
(* Jobs do not stop *)

Last == Chain[Len(Chain)]
Over == Ended \/ abandoned

\* A stage that is not under way any more has sent the next one, has ended the
\* job, or nobody will; the last stage will, as long as it has "finish" to do.
Settled(g) ==
  /\ place[g] = "raised" => Over
  /\ place[g] = "lost" => abandoned
  /\ place[g] = "returned" /\ g = Last => Over
  /\ place[g] = "live" /\ g = Last /\ ~Has(todo, "finish") => Over

HandedOn ==
  \A i \in DOMAIN Chain :
    place[Chain[i]] = "returned" /\ i < Len(Chain) => place[Chain[i + 1]] # "waiting"

CarryInv == (\A g \in Agents : Settled(g)) /\ HandedOn

\* What comes last does not hide what comes before it, nor the other way round.
LEMMA HasConcat ==
  ASSUME NEW s \in Seq(Op), NEW t \in Seq(Op), NEW op, Has(t, op)
  PROVE  Has(s \o t, op)
<1>1. PICK i \in 1 .. Len(t) : t[i] = op
  BY Concat DEF Has
<1>2. Len(s) + i \in DOMAIN (s \o t) /\ (s \o t)[Len(s) + i] = op
  <2>1. /\ Len(s) \in Nat /\ Len(t) \in Nat
        /\ DOMAIN (s \o t) = 1 .. Len(s) + Len(t)
        /\ \A j \in 1 .. Len(t) : (s \o t)[Len(s) + j] = t[j]
    BY Concat
  <2> QED
    BY <1>1, <2>1
<1> QED
  BY <1>2 DEF Has

\* The last stage's script finishes the job.
LEMMA LastFinishes ==
  ASSUME kind \in Kinds, NEW s \in Scripts(Last)
  PROVE  Has(s, "finish")
<1>1. Has(Done, "finish") /\ Done \in Seq(Op)
  BY DEF Done, Has, Op
<1>2. CASE kind = "analysis"
  <2>1. s = <<"read">> \o Unit \o Done
    BY <1>2, ChainFacts DEF Last, Scripts, RecommendationScript
  <2>2. <<"read">> \o Unit \in Seq(Op)
    BY ConcatProperties DEF Unit, Op
  <2> QED
    BY <1>1, <2>1, <2>2, HasConcat
<1>3. CASE kind = "epics"
  <2>1. PICK summary \in SummaryScripts : s = EpicStoryScript(summary)
    <3>1. Last = "epic_story_writer"
      BY <1>3, ChainFacts DEF Last
    <3> QED
      BY <3>1 DEF Scripts
  <2>2. Unit \in Seq(Op) /\ summary \in Seq(Op) /\ <<"check", "running">> \in Seq(Op)
    BY <1>3, Parts DEF Safe, SummaryScripts
  <2>3. <<"check", "running">> \o summary \o Unit \o Unit \in Seq(Op)
    <3>1. \A x, y \in Seq(Op) : x \o y \in Seq(Op)
      BY ConcatProperties
    <3>2. <<"check", "running">> \o summary \in Seq(Op)
      BY <2>2, <3>1
    <3>3. <<"check", "running">> \o summary \o Unit \in Seq(Op)
      BY <2>2, <3>1, <3>2
    <3> QED
      BY <2>2, <3>1, <3>3
  <2> QED
    BY <1>1, <2>1, <2>3, HasConcat DEF EpicStoryScript
<1>4. CASE kind = "code"
  <2> DEFINE body == <<"check", "running", "write", "check", "llm", "check", "output", "audit",
                       "write">>
  <2>1. s = body \o Done
    <3>1. Last = "codegen"
      BY <1>4, ChainFacts DEF Last
    <3> QED
      BY <3>1 DEF Scripts, CodegenScript
  <2>2. body \in Seq(Op)
    BY DEF Op
  <2> HIDE DEF body
  <2> QED
    BY <1>1, <2>1, <2>2, HasConcat
<1> QED
  BY <1>2, <1>3, <1>4, ChainFacts

\* What is over stays over.
LEMMA OverStays ==
  ASSUME TypeOK, [Next]_vars
  PROVE  (Over => Over') /\ (abandoned => abandoned')
<1>1. abandoned => abandoned'
  <2>1. ASSUME NEW g \in Agents, StageStep(g) PROVE abandoned' = abandoned
    BY <2>1 DEF StageStep, Start, PassCheck, FailCheck, Perform, Late, Return, Handle,
       RecordHandled, FinishHandled, history
  <2>2. ASSUME NEW g \in Agents, StageFault(g) PROVE abandoned => abandoned'
    BY <2>2 DEF StageFault, SkipFinish, Raise, RaiseInHandler, Crash, Abandon
  <2>3. CASE Kill \/ Trigger \/ RedisLost \/ RedisBack
    BY <2>3 DEF Kill, KillFlag, KillMark, KillAudit, Purge, KillRaises, Trigger, RedisLost,
       RedisBack, history
  <2>4. CASE UNCHANGED vars
    BY <2>4 DEF vars, history
  <2> QED
    BY <2>1, <2>2, <2>3, <2>4 DEF Next
<1>2. Ended => Ended'
  <2>1. ASSUME NEW g \in Agents, StageStep(g) \/ StageFault(g), Ended PROVE Ended'
    <3>1. CASE UNCHANGED document
      BY <2>1, <3>1 DEF document, Ended
    <3>2. ASSUME NEW s \in TaskStatus, Ledger!Record(g, s) PROVE Ended'
      BY <2>1, <3>2 DEF Ledger!Record, Ended, Ledger!Absent, Absent
    <3>3. ASSUME NEW s \in JobStatus \ {"running"}, Ledger!Finish(s) PROVE Ended'
      BY <3>3 DEF Ledger!Finish, Ended, JobStatus
    <3> QED
      BY <2>1, <3>1, <3>2, <3>3, StageDocument
  <2>2. Kill \/ Trigger \/ RedisLost \/ RedisBack => outcome' = outcome
    BY DEF Kill, KillFlag, KillMark, KillAudit, Purge, KillRaises, Trigger, RedisLost,
       RedisBack, document, Ledger!RequestKill
  <2>3. UNCHANGED vars => outcome' = outcome
    BY DEF vars, document
  <2> QED
    BY <2>1, <2>2, <2>3 DEF Next, Ended
<1> QED
  BY <1>1, <1>2 DEF Over

\* Stages that do not work: one is sent, or its message is lost.
LEMMA PlacesCarry ==
  ASSUME IInv, CarryInv, [Next]_vars, UNCHANGED <<kind, todo>>,
         \A g \in Agents :
           \/ place'[g] = place[g]
           \/ place[g] = "waiting" /\ place'[g] = "queued"
           \/ place[g] = "queued" /\ place'[g] = "lost" /\ abandoned'
  PROVE  CarryInv'
<1>1. (Over => Over') /\ (abandoned => abandoned') /\ Chain' = Chain /\ Last' = Last
  BY OverStays DEF IInv, Chain, Last
<1>2. ASSUME NEW g \in Agents PROVE Settled(g)'
  <2>1. Has(todo, "finish")' <=> Has(todo, "finish")
    BY DEF Has
  <2> QED
    BY <1>1, <2>1 DEF CarryInv, Settled
<1>3. HandedOn'
  <2>1. \A i \in DOMAIN Chain : Chain[i] \in Agents
    BY ChainFacts DEF IInv, TypeOK
  <2>2. \A i \in DOMAIN Chain : i < Len(Chain) => i + 1 \in DOMAIN Chain
    BY ChainFacts DEF IInv, TypeOK
  <2> QED
    BY <1>1, <2>1, <2>2 DEF CarryInv, HandedOn
<1> QED
  BY <1>2, <1>3 DEF CarryInv

\* The stage under way goes on, ends the job or leaves it to nobody.
LEMMA StageCarries ==
  ASSUME IInv, CarryInv, [Next]_vars, kind' = kind,
         NEW g \in Agents, Active(g), \A h \in Agents : h # g => place'[h] = place[h],
         place'[g] \notin {"waiting", "returned"}, Settled(g)'
  PROVE  CarryInv'
<1>1. (Over => Over') /\ (abandoned => abandoned') /\ Chain' = Chain /\ Last' = Last
  BY OverStays DEF IInv, Chain, Last
<1>2. ASSUME NEW h \in Agents, h # g PROVE Settled(h)'
  <2>1. place[h] # "live"
    BY <1>2, OneActive DEF Active
  <2> QED
    BY <1>1, <1>2, <2>1 DEF CarryInv, Settled
<1>3. HandedOn'
  <2>1. \A i \in DOMAIN Chain : Chain[i] \in Agents
    BY ChainFacts DEF IInv, TypeOK
  <2>2. \A i \in DOMAIN Chain : i < Len(Chain) => i + 1 \in DOMAIN Chain
    BY ChainFacts DEF IInv, TypeOK
  <2> QED
    BY <1>1, <2>1, <2>2 DEF CarryInv, HandedOn
<1> QED
  BY <1>2, <1>3 DEF CarryInv

\* A worker that takes the last stage has its end to write.
LEMMA StartCarries ==
  ASSUME IInv, CarryInv, [Next]_vars, NEW g \in Agents, Start(g)
  PROVE  CarryInv'
<1>1. /\ place[g] = "queued" /\ place'[g] = "live" /\ todo' \in Scripts(g) /\ kind' = kind
      /\ \A h \in Agents : h # g => place'[h] = place[h]
  BY MoveFacts DEF Start, Place, IInv
<1>2. g = Last => Has(todo', "finish")
  BY <1>1, LastFinishes DEF IInv, TypeOK
<1>3. Last' = Last
  BY <1>1 DEF Last, Chain
<1>4. Settled(g)'
  BY <1>1, <1>2, <1>3 DEF Settled, Has
<1> QED
  BY <1>1, <1>4, StageCarries DEF Active

\* A check that passes and an operation that takes effect leave "finish" to do,
\* unless that was the operation.
LEMMA WorkCarries ==
  ASSUME IInv, CarryInv, [Next]_vars, NEW g \in Agents,
         PassCheck(g) \/ Perform(g) \/ SkipFinish(g)
  PROVE  CarryInv'
<1>1. /\ place[g] = "live" /\ place' = place /\ kind' = kind
      /\ todo \in Seq(Op) /\ todo # <<>> /\ todo' = Tail(todo)
      /\ \/ Head(todo) # "finish"
         \/ Ledger!Finish("completed")
         \/ abandoned'
  BY DEF PassCheck, Perform, SkipFinish, Doing, Effect, Abandon, IInv, TypeOK
<1>2. Last' = Last /\ (Over => Over')
  BY <1>1, OverStays DEF Last, Chain, IInv
<1>3. Ledger!Finish("completed") => Ended'
  BY DEF Ledger!Finish, Ended
<1>4. ASSUME g = Last, ~Has(Tail(todo), "finish") PROVE Over'
  <2>1. CASE Has(todo, "finish")
    <3>1. Head(todo) = "finish"
      BY <1>1, <1>4, <2>1, TailFacts
    <3> QED
      BY <1>1, <1>3, <3>1 DEF Over
  <2>2. CASE ~Has(todo, "finish")
    BY <1>1, <1>2, <1>4, <2>2 DEF CarryInv, Settled
  <2> QED
    BY <2>1, <2>2
<1>5. Settled(g)'
  BY <1>1, <1>2, <1>4 DEF Settled, Has
<1> QED
  BY <1>1, <1>5, StageCarries DEF Active

\* A stage that stops working goes to its handler, has ended the job, or nobody
\* is left who would.
LEMMA LeaveCarries ==
  ASSUME IInv, CarryInv, [Next]_vars, NEW g \in Agents,
         FailCheck(g) \/ Raise(g) \/ Handle(g) \/ RaiseInHandler(g) \/ Crash(g)
  PROVE  CarryInv'
<1>1. PICK to \in Handling \cup {"raised", "lost"} :
        /\ Move(g, to)
        /\ to = "raised" => Ended' \/ abandoned'
        /\ to = "lost" => abandoned'
  <2>1. CASE FailCheck(g)
    BY <2>1 DEF FailCheck, Handling
  <2>2. CASE Raise(g)
    <3>1. CASE Handles(g)
      <4>1. Move(g, "failing")
        BY <2>2, <3>1 DEF Raise
      <4> QED
        BY <4>1 DEF Handling
    <3>2. CASE ~Handles(g)
      <4>1. Move(g, "raised") /\ abandoned'
        BY <2>2, <3>2 DEF Raise
      <4> QED
        BY <4>1
    <3> QED
      BY <3>1, <3>2
  <2>3. CASE Handle(g)
    BY <2>3 DEF Handle, RecordHandled, FinishHandled, OutcomeOf, Handling, Ledger!Finish, Ended
  <2>4. CASE RaiseInHandler(g) \/ Crash(g)
    BY <2>4 DEF RaiseInHandler, Crash, Abandon
  <2> QED
    BY <2>1, <2>2, <2>3, <2>4
<1>2. to \in Place /\ to \notin {"waiting", "returned", "live"}
  BY DEF Handling, Place
<1>3. place'[g] = to /\ \A h \in Agents : h # g => place'[h] = place[h]
  BY <1>1, <1>2, MoveFacts DEF IInv
<1>4. kind' = kind /\ Active(g)
  BY DEF FailCheck, Raise, Handle, RecordHandled, FinishHandled, RaiseInHandler, Crash, Doing,
     Handling, Active
<1>5. Settled(g)'
  BY <1>1, <1>2, <1>3 DEF Settled, Over
<1> QED
  BY <1>2, <1>3, <1>4, <1>5, StageCarries

\* A stage returns when it has nothing to do: the next one is sent, and the last
\* one has ended the job.
LEMMA ReturnCarries ==
  ASSUME IInv, CarryInv, [Next]_vars, NEW g \in Agents, Return(g)
  PROVE  CarryInv'
<1> DEFINE n == Len(Chain)
<1>1. /\ place \in [Agents -> Place] /\ place[g] = "live" /\ ~Has(todo, "finish")
      /\ kind' = kind /\ Chain' = Chain /\ Last' = Last /\ (Over => Over')
      /\ (abandoned => abandoned') /\ todo' = todo
  BY OverStays DEF Return, Has, Last, Chain, IInv, TypeOK
<1>2. PICK i \in DOMAIN Chain :
        /\ Chain[i] = g
        /\ place' = [place EXCEPT ![g] = "returned",
                       ![Chain[IF i < Len(Chain) THEN i + 1 ELSE i]] =
                          IF i < Len(Chain) THEN "queued" ELSE "returned"]
  BY DEF Return
<1>3. /\ n \in Nat \ {0} /\ DOMAIN Chain = 1 .. n /\ i \in 1 .. n
      /\ \A k \in 1 .. n : Chain[k] \in Agents
      /\ \A j, k \in 1 .. n : Chain[j] = Chain[k] => j = k
  BY <1>2, ChainFacts DEF IInv, TypeOK
<1> DEFINE next == Chain[i + 1]
<1>4. i < n => i + 1 \in 1 .. n /\ next \in Agents /\ next # g
  BY <1>2, <1>3
<1>5. /\ place'[g] = "returned"
      /\ \A h \in Agents : h # g /\ ~(i < n /\ h = next) => place'[h] = place[h]
      /\ i < n => place'[next] = "queued"
  <2>1. CASE i < n
    <3>1. place' = [place EXCEPT ![g] = "returned", ![next] = "queued"]
      BY <1>2, <2>1
    <3>2. next \in Agents /\ next # g
      BY <1>4, <2>1
    <3> HIDE DEF next, n
    <3> QED
      BY <1>1, <2>1, <3>1, <3>2
  <2>2. CASE ~(i < n)
    <3>1. place' = [place EXCEPT ![g] = "returned", ![g] = "returned"]
      BY <1>2, <2>2
    <3> QED
      BY <1>1, <2>2, <3>1
  <2> QED
    BY <2>1, <2>2
<1>6. g = Last => Over'
  BY <1>1 DEF CarryInv, Settled
<1>7. ASSUME NEW h \in Agents PROVE Settled(h)'
  <2>1. CASE h = g
    BY <1>1, <1>5, <1>6, <2>1 DEF Settled
  <2>2. CASE i < n /\ h = next
    BY <1>5, <2>2 DEF Settled
  <2>3. CASE h # g /\ ~(i < n /\ h = next)
    <3>1. place[h] # "live"
      BY <1>1, <2>3, OneActive DEF Active
    <3> QED
      BY <1>1, <1>5, <2>3, <3>1 DEF CarryInv, Settled
  <2> QED
    BY <2>1, <2>2, <2>3
<1>8. HandedOn'
  <2> HIDE DEF n, next
  <2>1. ASSUME NEW j \in 1 .. n, place'[Chain[j]] = "returned", j < n
        PROVE  place'[Chain[j + 1]] # "waiting"
    <3>1. j + 1 \in 1 .. n /\ Chain[j] \in Agents /\ Chain[j + 1] \in Agents
      BY <1>3, <2>1
    <3>2. CASE j = i
      BY <1>5, <2>1, <3>2 DEF next
    <3>3. CASE j # i
      <4>1. Chain[j] # g
        BY <1>2, <1>3, <3>3
      <4>2. place[Chain[j]] = "returned"
        BY <1>5, <2>1, <3>1, <4>1
      <4>3. place[Chain[j + 1]] # "waiting"
        BY <1>3, <2>1, <4>2 DEF CarryInv, HandedOn, n
      <4> QED
        BY <1>5, <3>1, <4>3
    <3> QED
      BY <3>2, <3>3
  <2> QED
    BY <1>1, <1>3, <2>1 DEF HandedOn, n
<1> QED
  BY <1>7, <1>8 DEF CarryInv

\* Messages are sent and lost; a loss leaves the job to nobody.
LEMMA MessagesMove ==
  ASSUME IInv, Trigger \/ Kill \/ RedisLost \/ RedisBack \/ UNCHANGED vars, NEW g \in Agents
  PROVE  \/ place'[g] = place[g]
         \/ place[g] = "waiting" /\ place'[g] = "queued"
         \/ place[g] = "queued" /\ place'[g] = "lost" /\ abandoned'
<1> USE DEF IInv, TypeOK
<1>1. CASE Trigger
  <2>1. Chain[1] \in Agents
    BY ChainFacts
  <2> QED
    BY <1>1, <2>1 DEF Trigger, Move
<1>2. CASE Purge
  BY <1>2 DEF Purge
<1>3. CASE RedisLost
  BY <1>3 DEF RedisLost, Move
<1>4. CASE RedisBack \/ UNCHANGED vars \/ (Kill /\ ~Purge)
  BY <1>4 DEF RedisBack, vars, stages, Kill, KillFlag, KillMark, KillAudit, KillRaises
<1> QED
  BY <1>1, <1>2, <1>3, <1>4

\* So no job is dropped between two stages.
LEMMA MessagesCarry ==
  ASSUME IInv, CarryInv, [Next]_vars, Trigger \/ Kill \/ RedisLost \/ RedisBack \/ UNCHANGED vars
  PROVE  CarryInv'
<1>1. UNCHANGED <<kind, todo>>
  BY DEF Trigger, Kill, KillFlag, KillMark, KillAudit, Purge, KillRaises, RedisLost, RedisBack,
     vars, stages
<1> QED
  BY <1>1, MessagesMove, PlacesCarry

\* As long as a job that was sent has not ended, and no message or worker was
\* lost, no exception unhandled and no final write skipped, one of its stages is
\* under way: stages, handlers and hand-overs drop no job.  It is what JobEnds
\* leaves to the workers to do.
THEOREM Carried ==
  Spec => [](place[Chain[1]] # "waiting" /\ ~Ended /\ ~abandoned =>
               \E g \in Agents : place[g] \in UnderWay)
<1> DEFINE OneUnderWay == place[Chain[1]] # "waiting" /\ ~Ended /\ ~abandoned =>
                            \E g \in Agents : place[g] \in UnderWay
<1>1. Init => CarryInv
  <2> SUFFICES ASSUME Init PROVE CarryInv
    OBVIOUS
  <2>1. /\ \A g \in Agents : place[g] = "waiting"
        /\ \A i \in DOMAIN Chain : Chain[i] \in Agents
    BY ChainFacts DEF Init
  <2> QED
    BY <2>1 DEF CarryInv, Settled, HandedOn
<1>2. IInv /\ CarryInv /\ [Next]_vars => CarryInv'
  <2> SUFFICES ASSUME IInv, CarryInv, [Next]_vars PROVE CarryInv'
    OBVIOUS
  <2>1. ASSUME NEW g \in Agents, StageStep(g) PROVE CarryInv'
    BY <2>1, StartCarries, WorkCarries, LeaveCarries, ReturnCarries DEF StageStep
  <2>2. ASSUME NEW g \in Agents, StageFault(g) PROVE CarryInv'
    BY <2>2, WorkCarries, LeaveCarries DEF StageFault
  <2> QED
    BY <2>1, <2>2, MessagesCarry DEF Next
<1>3. IInv /\ CarryInv => OneUnderWay
  <2> SUFFICES ASSUME IInv, CarryInv, place[Chain[1]] # "waiting", ~Ended, ~abandoned,
                      \A g \in Agents : place[g] \notin UnderWay
               PROVE  FALSE
    OBVIOUS
  <2> DEFINE n == Len(Chain)
  <2>1. /\ n \in Nat \ {0} /\ DOMAIN Chain = 1 .. n
        /\ \A i \in 1 .. n : Chain[i] \in Agents
    BY ChainFacts DEF IInv, TypeOK
  <2>2. \A i \in 1 .. n : place[Chain[i]] \in {"waiting", "returned"}
    BY <2>1 DEF CarryInv, Settled, Over, UnderWay, Handling, IInv, TypeOK, Place
  <2>3. n \in 1 .. n /\ 1 \in 1 .. n
    BY <2>1
  <2>4. place[Chain[n]] = "waiting"
    BY <2>1, <2>2, <2>3 DEF CarryInv, Settled, Over, Last
  <2> HIDE DEF n
  <2>5. n # 1
    BY <2>4
  \* Every stage has handed on, so the last one was sent after all.
  <2>6. \A i \in 1 .. n : i < n /\ place[Chain[i]] # "waiting" => place[Chain[i + 1]] # "waiting"
    BY <2>1, <2>2 DEF CarryInv, HandedOn, n
  <2>7. n = 1 \/ n = 3
    <3>1. kind = "analysis" => Len(Chain) = 3
      BY DEF Chain
    <3>2. kind = "epics" => Len(Chain) = 1
      BY DEF Chain
    <3>3. kind = "code" => Len(Chain) = 1
      BY DEF Chain
    <3> QED
      BY <3>1, <3>2, <3>3, ChainFacts DEF IInv, TypeOK, n
  <2>8. n = 3
    BY <2>5, <2>7
  <2>9. place[Chain[2]] # "waiting"
    <3>1. 1 \in 1 .. n /\ 1 < n /\ 1 + 1 = 2
      BY <2>8
    <3> QED
      BY <2>6, <3>1
  <2>10. place[Chain[3]] # "waiting"
    <3>1. 2 \in 1 .. n /\ 2 < n /\ 2 + 1 = 3
      BY <2>8
    <3> QED
      BY <2>6, <2>9, <3>1
  <2> QED
    BY <2>4, <2>8, <2>10
<1> HIDE DEF OneUnderWay
<1>4. Spec => []OneUnderWay
  BY <1>1, <1>2, <1>3, Invariance, PTL DEF Spec
<1> QED
  BY <1>4 DEF OneUnderWay

-----------------------------------------------------------------------------
(* Stages come to an end *)

Rank(at) ==
  CASE at = "waiting"                            -> 0
    [] at = "queued"                             -> 1
    [] at = "live"                               -> 2
    [] at \in {"killing", "failing"}             -> 3
    [] at \in {"killFinishing", "failFinishing"} -> 4
    [] OTHER                                     -> 5

\* A stage goes to a later place, or does the next thing of its script ...
Nearer(g) ==
  \/ Rank(place'[g]) > Rank(place[g])
  \/ place[g] = "live" /\ place'[g] = "live" /\ Len(todo') < Len(todo)

\* ... or is left alone.
Still(g) == place'[g] = place[g] /\ (place[g] = "live" => todo' = todo)

\* What a stage does takes it nearer to its end.
LEMMA StageAdvances ==
  ASSUME IInv, NEW g \in Agents, StageStep(g) \/ StageFault(g)
  PROVE  Nearer(g)
<1> USE DEF IInv
<1>1. TypeOK
  OBVIOUS
<1>2. \A to \in Place : Move(g, to) => place'[g] = to
  BY <1>1, MoveFacts
<1>3. CASE Start(g)
  BY <1>2, <1>3 DEF Start, Place, Rank, Nearer
<1>4. CASE PassCheck(g) \/ Perform(g) \/ SkipFinish(g)
  <2>1. /\ place[g] = "live" /\ place' = place
        /\ todo \in Seq(Op) /\ todo # <<>> /\ todo' = Tail(todo)
    BY <1>1, <1>4 DEF PassCheck, Perform, SkipFinish, Doing, TypeOK
  <2>2. Len(todo') = Len(todo) - 1 /\ Len(todo) \in Nat
    BY <2>1, HeadTailProperties, LenProperties
  <2> QED
    BY <2>1, <2>2 DEF Nearer
<1>5. CASE FailCheck(g)
  BY <1>2, <1>5 DEF FailCheck, Doing, Place, Rank, Nearer
<1>6. CASE Return(g)
  <2>1. PICK i \in DOMAIN Chain :
          /\ Chain[i] = g
          /\ place' = [place EXCEPT ![g] = "returned",
                         ![Chain[IF i < Len(Chain) THEN i + 1 ELSE i]] =
                            IF i < Len(Chain) THEN "queued" ELSE "returned"]
    BY <1>6 DEF Return
  <2>2. i < Len(Chain) => i + 1 \in DOMAIN Chain /\ Chain[i + 1] # g
    BY <1>1, <2>1, ChainFacts DEF TypeOK
  <2>3. place'[g] = "returned" /\ place[g] = "live"
    BY <1>1, <1>6, <2>1, <2>2 DEF Return, TypeOK
  <2> QED
    BY <2>3 DEF Rank, Nearer
<1>7. CASE Handle(g)
  BY <1>2, <1>7 DEF Handle, RecordHandled, FinishHandled, Place, Rank, Nearer
<1>8. CASE Raise(g)
  BY <1>2, <1>8 DEF Raise, Doing, Place, Rank, Nearer
<1>9. CASE RaiseInHandler(g) \/ Crash(g)
  BY <1>2, <1>9 DEF RaiseInHandler, Crash, Handling, Place, Rank, Nearer
<1> QED
  BY <1>3, <1>4, <1>5, <1>6, <1>7, <1>8, <1>9 DEF StageStep, StageFault

\* What another stage does leaves it alone, or sends it its message.
LEMMA OthersWait ==
  ASSUME IInv, NEW g \in Agents, NEW h \in Agents, g # h, StageStep(h) \/ StageFault(h)
  PROVE  Nearer(g) \/ Still(g)
<1> USE DEF IInv
<1>1. TypeOK /\ Active(h)
  BY DEF StageStep, StageFault, Start, PassCheck, FailCheck, Perform, Return, Handle,
     RecordHandled, FinishHandled, SkipFinish, Raise, RaiseInHandler, Crash, Doing, Handling,
     Active
<1>2. place[g] # "live"
  BY <1>1, OneActive DEF Active
<1>3. \A to \in Place : Move(h, to) => place'[g] = place[g]
  BY <1>1, MoveFacts
<1>4. CASE Return(h)
  <2>1. PICK i \in DOMAIN Chain :
          /\ Chain[i] = h
          /\ place' = [place EXCEPT ![h] = "returned",
                         ![Chain[IF i < Len(Chain) THEN i + 1 ELSE i]] =
                            IF i < Len(Chain) THEN "queued" ELSE "returned"]
    BY <1>4 DEF Return
  <2>2. place'[g] = place[g] \/ (i < Len(Chain) /\ g = Chain[i + 1] /\ place'[g] = "queued")
    BY <1>1, <2>1 DEF TypeOK
  <2>3. ASSUME i < Len(Chain), g = Chain[i + 1] PROVE place[g] = "waiting"
    <3>1. i \in Nat /\ i + 1 \in DOMAIN Chain /\ i < i + 1
      BY <1>1, <2>1, <2>3, ChainFacts DEF TypeOK
    <3>2. place[h] # "returned"
      BY <1>1 DEF Active
    <3> QED
      BY <2>1, <2>3, <3>1, <3>2 DEF StagesInOrder
  <2> QED
    BY <1>2, <2>2, <2>3 DEF Still, Nearer, Rank
<1>5. CASE ~Return(h)
  <2>1. place'[g] = place[g]
    <3>1. CASE Start(h) \/ PassCheck(h) \/ FailCheck(h) \/ Perform(h) \/ Handle(h)
      BY <1>3, <3>1 DEF Start, PassCheck, FailCheck, Perform, Handle, RecordHandled,
         FinishHandled, Place
    <3>2. CASE StageFault(h)
      BY <1>3, <3>2 DEF StageFault, SkipFinish, Raise, RaiseInHandler, Crash, Place
    <3> QED
      BY <1>5, <3>1, <3>2 DEF StageStep
  <2> QED
    BY <1>2, <2>1 DEF Still
<1> QED
  BY <1>4, <1>5

\* Every step of a stage, faults and handlers included, takes it to a later place
\* or shortens what it has to do, and nobody ever takes it back: not the other
\* stages, not a kill request, not a purge or a Redis that comes and goes.  So a
\* stage takes only so many steps, and a job ends when they are taken.
THEOREM StagesAdvance ==
  Spec => [][\A g \in Agents : /\ Nearer(g) \/ Still(g)
                               /\ StageStep(g) \/ StageFault(g) => Nearer(g)]_vars
<1> DEFINE Advance == \A g \in Agents : /\ Nearer(g) \/ Still(g)
                                        /\ StageStep(g) \/ StageFault(g) => Nearer(g)
<1>1. IInv /\ [Next]_vars => [Advance]_vars
  <2> SUFFICES ASSUME IInv, Next, NEW g \in Agents
               PROVE  Nearer(g) \/ Still(g)
    BY StageAdvances
  <2>1. ASSUME NEW h \in Agents, StageStep(h) \/ StageFault(h)
        PROVE  Nearer(g) \/ Still(g)
    BY <2>1, StageAdvances, OthersWait
  <2>2. CASE Trigger \/ Kill \/ RedisLost \/ RedisBack
    <3>1. todo' = todo
      BY <2>2 DEF Trigger, Kill, KillFlag, KillMark, KillAudit, Purge, KillRaises, RedisLost,
         RedisBack, stages
    <3>2. \/ place'[g] = place[g]
          \/ place[g] = "waiting" /\ place'[g] = "queued"
          \/ place[g] = "queued" /\ place'[g] = "lost"
      BY <2>2, MessagesMove
    <3> QED
      BY <3>1, <3>2 DEF Nearer, Still, Rank
  <2> QED
    BY <2>1, <2>2 DEF Next
<1> QED
  BY <1>1, Invariance, PTL DEF Spec

=============================================================================
