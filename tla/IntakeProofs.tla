---------------------------- MODULE IntakeProofs ----------------------------
(***************************************************************************)
(* What Intake guarantees for every set of uploads, pulls and listings,    *)
(* files of any text, and any number of deliveries; and, since the task    *)
(* cuts texts with Chunking's operators, that Analysis' chunks cover them. *)
(***************************************************************************)
EXTENDS Intake, SequenceTheorems, WellFoundedInduction, TLAPS

-----------------------------------------------------------------------------
(* The inductive invariant *)

Chunk == [start_line: Nat, end_line: Nat]

TaskState ==
  [at: {"waiting", "source", "find", "put", "written", "completed", "failed"},
   cut: Seq(Chunk), rev: Nat]

Types == TypeOK /\ task \in [Tasks -> TaskState]

Recorded(r) == r \in batches /\ (r \in Pulls => r \in audited)

\* Where a request is tells what was done for it.
RequestsInv ==
  \A r \in Requests :
    /\ request[r].at \in {"new", "fetched", "pulled"} => request[r].next = 1
    /\ request[r].at = "fetched" => r \notin Uploads
    /\ request[r].at = "pulled" => r \in Pulls /\ r \in audited
    /\ request[r].at = "triggering" => r \notin Listings
    /\ request[r].at = "accepted" /\ r \in Listings => r \in audited
    /\ request[r].at \in {"triggering", "accepted"} /\ r \notin Listings =>
         Recorded(r) /\ \A i \in 1 .. request[r].next - 1 : <<r, i>> \in jobs
    /\ request[r].at = "accepted" /\ r \notin Listings => request[r].next = FileCount[r] + 1

JobsInv ==
  /\ \A f \in jobs : Recorded(f[1])
  /\ \A t \in Tasks : task[t].at # "waiting" => FileOf(t) \in jobs
  /\ \A f \in Files : sources[f] # Nobody => f \in jobs

\* Only the task that wrote the source_file document ever cuts and writes chunks;
\* those it has cut cover the text up to where they reach, and the one document
\* under their id is the chunk before the one it is at.
Owning == {"find", "put", "written", "completed"}

CutToEnd(text, cut) ==
  IF ChunkingRequired(text) THEN Covers(text, cut) /\ Reached(cut) = text.lines ELSE cut = <<>>

TaskInv(t) ==
  LET cut == task[t].cut
      doc == chunks[FileOf(t)]
  IN /\ task[t].at \in Owning => sources[FileOf(t)] = t
     /\ task[t].at \in {"waiting", "source", "failed"} => cut = <<>>
     /\ task[t].at \in {"find", "put"} =>
          /\ ChunkingRequired(TextOf(t)) /\ Covers(TextOf(t), cut) /\ cut # <<>>
          /\ doc = Upto(cut, Len(cut) - 1)
     /\ task[t].at = "put" => task[t].rev = doc.rev
     /\ task[t].at \in {"written", "completed"} =>
          CutToEnd(TextOf(t), cut) /\ doc = Upto(cut, Len(cut))

ChunksInv ==
  /\ \A f \in Files : sources[f] = Nobody => chunks[f] = NoChunk
  /\ \A t \in Tasks : TaskInv(t)

IInv == Types /\ RequestsInv /\ JobsInv /\ ChunksInv

-----------------------------------------------------------------------------
(* Cutting a text *)

\* What has a bound has a greatest element.
LEMMA Greatest ==
  ASSUME NEW S, S \subseteq Nat, S # {}, NEW bound \in Nat, \A x \in S : x <= bound
  PROVE  Max(S) \in S /\ \A y \in S : y <= Max(S)
<1> DEFINE T == {n \in Nat : \A x \in S : x <= n}
<1>1. T \subseteq Nat /\ bound \in T
  OBVIOUS
<1> HIDE DEF T
<1>2. PICK n \in T : \A m \in T : ~(<<m, n>> \in OpToRel(<, Nat))
  BY <1>1, NatLessThanWellFounded, WFMin, Zenon
<1>3. n \in Nat /\ (\A x \in S : x <= n) /\ \A m \in T : ~(m < n)
  BY <1>1, <1>2 DEF OpToRel, T
<1>4. n \in S
  <2> SUFFICES ASSUME n \notin S PROVE FALSE
    OBVIOUS
  <2>1. \A x \in S : x \in Nat /\ x <= n - 1
    BY <1>3
  <2>2. n - 1 \in Nat
    <3>1. PICK x \in S : x \in Nat /\ x <= n - 1
      BY <2>1
    <3> QED
      BY <1>3, <3>1
  <2>3. n - 1 \in T /\ n - 1 < n
    BY <1>3, <2>1, <2>2 DEF T
  <2> QED
    BY <1>3, <2>3
<1>5. \E x \in S : \A y \in S : x >= y
  BY <1>3, <1>4
<1> QED
  BY <1>5 DEF Max

\* The greater and the lesser of two numbers.
LEMMA OfTwo ==
  ASSUME NEW a \in Int, NEW b \in Int
  PROVE  /\ Max({a, b}) = IF a >= b THEN a ELSE b
         /\ Min({a, b}) = IF a <= b THEN a ELSE b
<1>1. Max({a, b}) \in {a, b} /\ \A y \in {a, b} : Max({a, b}) >= y
  <2>1. \E x \in {a, b} : \A y \in {a, b} : x >= y
    OBVIOUS
  <2> QED
    BY <2>1 DEF Max
<1>2. Min({a, b}) \in {a, b} /\ \A y \in {a, b} : Min({a, b}) <= y
  <2>1. \E x \in {a, b} : \A y \in {a, b} : x <= y
    OBVIOUS
  <2> QED
    BY <2>1 DEF Min
<1> QED
  BY <1>1, <1>2

\* A chunk ends within the budget and the text, and in the middle of a paragraph
\* only if none starts within the budget.
LEMMA EndFacts ==
  ASSUME NEW text, IsText(text), NEW start \in Nat, start < text.lines
  PROVE  LET end == EndOf(text, start) IN
         /\ end \in Nat /\ end - start \in 1 .. LineBudget /\ end <= text.lines
         /\ \/ end \in text.headers \cup {text.lines}
            \/ \A h \in text.headers : h <= start \/ h > start + LineBudget
<1> DEFINE target == TargetEnd(text, start)
           candidates == {b \in Boundaries(text) : start < b /\ b <= target}
           end == EndOf(text, start)
<1>1. text.lines \in Nat /\ LineBudget \in Nat \ {0} /\ text.headers \subseteq Nat
  BY ChunkingAssumption DEF IsText
<1>2. target = IF start + LineBudget <= text.lines THEN start + LineBudget ELSE text.lines
  <2>1. start + LineBudget \in Int /\ text.lines \in Int
    BY <1>1
  <2> QED
    BY <2>1, OfTwo DEF TargetEnd
<1>3. target \in Nat /\ target <= text.lines /\ target - start \in 1 .. LineBudget
  BY <1>1, <1>2
<1>4. Boundaries(text) \subseteq Nat /\ (text.headers # {} => Boundaries(text) = text.headers)
  BY <1>1 DEF Boundaries
<1>5. \A h \in text.headers : h < text.lines
  BY <1>1 DEF IsText
<1>6. end = IF candidates = {} THEN target ELSE Max(candidates)
  BY DEF EndOf
<1> HIDE DEF target, end
<1>7. CASE candidates = {}
  <2>1. \A h \in text.headers : h <= start \/ h > target
    BY <1>1, <1>3, <1>4, <1>7
  <2>2. \A h \in text.headers : h <= start \/ h > start + LineBudget
    BY <1>1, <1>2, <1>5, <2>1
  <2> QED
    BY <1>3, <1>6, <1>7, <2>2 DEF end
<1>8. CASE candidates # {}
  <2>1. candidates \subseteq Nat /\ \A b \in candidates : b <= target
    BY <1>4
  <2> HIDE DEF candidates
  <2>2. Max(candidates) \in candidates
    BY <1>3, <1>8, <2>1, Greatest
  <2>3. end \in Boundaries(text) /\ start < end /\ end <= target /\ end \in Nat
    BY <1>4, <1>6, <1>8, <2>2 DEF candidates
  <2>4. end - start \in 1 .. LineBudget /\ end <= text.lines
    BY <1>1, <1>3, <2>3
  <2>5. end \in text.headers \/ text.headers = {}
    BY <1>4, <2>3
  <2> QED
    BY <2>3, <2>4, <2>5 DEF end
<1> QED
  BY <1>7, <1>8

\* Where chunks of a text reach.
LEMMA Reaches ==
  ASSUME NEW cut \in Seq(Chunk)
  PROVE  /\ Len(cut) \in Nat /\ DOMAIN cut = 1 .. Len(cut) /\ Reached(cut) \in Nat
         /\ \A i \in 0 .. Len(cut) : End(cut, i) \in Nat
<1>1. Len(cut) \in Nat /\ DOMAIN cut = 1 .. Len(cut) /\ \A i \in 1 .. Len(cut) : cut[i] \in Chunk
  BY LenProperties, ElementOfSeq
<1>2. \A i \in 0 .. Len(cut) : i # 0 => i \in 1 .. Len(cut)
  BY <1>1
<1>3. \A i \in 0 .. Len(cut) : End(cut, i) \in Nat
  BY <1>1, <1>2 DEF End, Chunk
<1> QED
  BY <1>1, <1>3 DEF Reached

\* No chunks cover nothing.
LEMMA NothingCut ==
  ASSUME NEW text, IsText(text)
  PROVE  Covers(text, <<>>) /\ Reached(<<>>) = 0 /\ <<>> \in Seq(Chunk)
<1>1. Reached(<<>>) = 0
  BY DEF Reached, End
<1>2. DOMAIN <<>> = {}
  BY EmptySeq
<1> QED
  BY <1>1, <1>2, EmptySeq DEF Covers, IsText

\* Every turn of the loop of build_chunks cuts one more chunk, well, leaves the others
\* alone and gets further in the text, never past its end: of a text of any length,
\* with paragraphs anywhere and any budget and overlap, the loop ends, and the
\* chunks leave out no line.
THEOREM ChunksCoverAnyText ==
  ASSUME NEW text, IsText(text), NEW cut \in Seq(Chunk), Covers(text, cut),
         ~AtEnd(text, cut)
  PROVE  LET more == CutNext(text, cut) IN
         /\ more \in Seq(Chunk) /\ Len(more) = Len(cut) + 1 /\ more # <<>>
         /\ \A i \in 1 .. Len(cut) : more[i] = cut[i]
         /\ Covers(text, more)
         /\ Reached(more) > Reached(cut) /\ Reached(more) <= text.lines
<1> DEFINE start == Reached(cut)
           new == ChunkFrom(text, start)
           more == CutNext(text, cut)
           n == Len(cut)
<1>1. /\ n \in Nat /\ DOMAIN cut = 1 .. n /\ start \in Nat /\ text.lines \in Nat
      /\ \A i \in 0 .. n : End(cut, i) \in Nat
  BY Reaches DEF IsText
<1>2. start < text.lines
  BY <1>1 DEF AtEnd
<1>3. /\ new.end_line \in Nat /\ new.end_line \in start + 1 .. start + LineBudget
      /\ new.end_line <= text.lines
      /\ \/ new.end_line \in text.headers \cup {text.lines}
         \/ \A h \in text.headers : h <= start \/ h > start + LineBudget
  <2>1. new.end_line = EndOf(text, start)
    BY DEF ChunkFrom
  <2>2. start \in Nat /\ LineBudget \in Nat
    BY <1>1, ChunkingAssumption
  <2> HIDE DEF new, start
  <2> QED
    BY <1>1, <1>2, <2>1, <2>2, EndFacts
<1>4. /\ OverlapLines \in Nat
      /\ new.start_line = (IF 0 >= start - OverlapLines THEN 0 ELSE start - OverlapLines) + 1
      /\ Min({OverlapLines, start}) = IF OverlapLines <= start THEN OverlapLines ELSE start
  <2>1. OverlapLines \in Nat /\ 0 \in Int /\ start - OverlapLines \in Int /\ start \in Int
    BY <1>1, ChunkingAssumption
  <2>2. new.start_line = Max({0, start - OverlapLines}) + 1
    BY DEF ChunkFrom
  <2>3. Max({0, start - OverlapLines}) = IF 0 >= start - OverlapLines THEN 0
                                         ELSE start - OverlapLines
    BY <2>1, OfTwo
  <2> HIDE DEF new, start
  <2>4. Min({OverlapLines, start}) = IF OverlapLines <= start THEN OverlapLines ELSE start
    <3>1. OverlapLines \in Int
      BY <2>1
    <3> QED
      BY <2>1, <3>1, OfTwo
  <2> QED
    BY <2>1, <2>2, <2>3, <2>4
<1>5. new \in Chunk
  <2>1. new.start_line \in Nat
    BY <1>1, <1>4
  <2> QED
    BY <1>3, <2>1 DEF ChunkFrom, Chunk
<1>6. start - new.start_line + 1 = Min({OverlapLines, start})
  <2> HIDE DEF new, start
  <2> QED
    BY <1>1, <1>4
<1> HIDE DEF new
<1>7. /\ more \in Seq(Chunk) /\ Len(more) = n + 1 /\ DOMAIN more = 1 .. n + 1
      /\ \A i \in 1 .. n : more[i] = cut[i]
      /\ more[n + 1] = new
  <2>1. more = Append(cut, new)
    BY DEF CutNext, new
  <2> HIDE DEF more
  <2>2. more \in Seq(Chunk) /\ Len(more) = n + 1
    BY <1>5, <2>1, AppendProperties
  <2>3. DOMAIN more = 1 .. n + 1
    BY <2>2, LenProperties
  <2> QED
    BY <1>1, <1>5, <2>1, <2>2, <2>3, AppendProperties
<1> HIDE DEF more, start
<1>8. \A i \in 0 .. n : End(more, i) = End(cut, i)
  BY <1>1, <1>7 DEF End
<1>9. End(more, n) = start /\ End(more, n + 1) = new.end_line /\ Reached(more) = new.end_line
  BY <1>1, <1>7, <1>8 DEF End, Reached, start
<1>10. ASSUME NEW i \in 1 .. n + 1 PROVE WellCut(text, more, i)
  <2>1. CASE i = n + 1
    <3>1. i - 1 = n
      BY <1>1, <2>1
    <3> QED
      BY <1>3, <1>6, <1>7, <1>9, <2>1, <3>1 DEF WellCut
  <2>2. CASE i # n + 1
    <3>1. i \in 1 .. n /\ i \in 0 .. n /\ i - 1 \in 0 .. n
      BY <1>1, <2>2
    <3>2. WellCut(text, cut, i)
      BY <1>1, <3>1 DEF Covers
    <3> QED
      BY <1>7, <1>8, <3>1, <3>2 DEF WellCut
  <2> QED
    BY <2>1, <2>2
<1>11. Covers(text, more) /\ Reached(more) > start /\ Reached(more) <= text.lines
  BY <1>1, <1>3, <1>7, <1>9, <1>10, ChunkingAssumption DEF Covers
<1>12. more # <<>>
  BY <1>1, <1>7, EmptySeq
<1> QED
  BY <1>7, <1>11, <1>12 DEF more, start

\* Every chunk of a text lies in it.
LEMMA InText ==
  ASSUME NEW text, IsText(text), NEW cut \in Seq(Chunk), Covers(text, cut)
  PROVE  cut \in Seq([start_line: 1 .. text.lines, end_line: 1 .. text.lines])
<1> DEFINE n == Len(cut)
<1>1. /\ n \in Nat /\ DOMAIN cut = 1 .. n /\ text.lines \in Nat
      /\ \A i \in 0 .. n : End(cut, i) \in Nat
  BY Reaches DEF IsText
<1>2. \A i \in 1 .. n : cut[i] \in Chunk
  BY ElementOfSeq
<1>3. ASSUME NEW i \in 1 .. n
      PROVE  cut[i].start_line \in 1 .. text.lines /\ cut[i].end_line \in 1 .. text.lines
  <2> DEFINE start == End(cut, i - 1)
             end == End(cut, i)
  <2>1. i \in 0 .. n /\ i - 1 \in 0 .. n /\ i # 0
    BY <1>1
  <2>2. start \in Nat /\ end \in Nat /\ cut[i].start_line \in Nat
    BY <1>1, <1>2, <2>1 DEF Chunk
  <2>3. end = cut[i].end_line
    BY <2>1 DEF End
  <2>4. /\ end \in start + 1 .. start + LineBudget /\ end <= text.lines
        /\ start - cut[i].start_line + 1 = Min({OverlapLines, start})
    BY <1>1 DEF Covers, WellCut
  <2> DEFINE first == cut[i].start_line
  <2> HIDE DEF start, end, first
  <2>5. OverlapLines \in Nat /\ OverlapLines \in Int /\ start \in Int
    BY <2>2, ChunkingAssumption
  <2>6. Min({OverlapLines, start}) = IF OverlapLines <= start THEN OverlapLines ELSE start
    BY <2>5, OfTwo
  <2>7. start - first + 1 = Min({OverlapLines, start})
    BY <2>4 DEF start, first
  <2>8. first \in Nat /\ first >= 1 /\ first <= start + 1
    <3>1. first \in Nat
      BY <2>2 DEF first
    <3> QED
      BY <2>2, <2>5, <2>6, <2>7, <3>1
  <2>9. first \in 1 .. text.lines /\ end \in 1 .. text.lines
    BY <1>1, <2>2, <2>4, <2>8, ChunkingAssumption
  <2> QED
    BY <2>3, <2>9 DEF first
<1>4. \A i \in 1 .. n : cut[i] \in [start_line: 1 .. text.lines, end_line: 1 .. text.lines]
  BY <1>2, <1>3 DEF Chunk
<1>5. cut \in [1 .. n -> [start_line: 1 .. text.lines, end_line: 1 .. text.lines]]
  <2>1. cut \in [1 .. n -> Chunk]
    BY LenProperties
  <2> QED
    BY <1>4, <2>1
<1> QED
  <2> DEFINE Lines == [start_line: 1 .. text.lines, end_line: 1 .. text.lines]
  <2>1. cut \in [1 .. n -> Lines] /\ n \in Nat
    BY <1>1, <1>5
  <2> HIDE DEF Lines, n
  <2>2. Seq(Lines) = UNION {[1 .. m -> Lines] : m \in Nat}
    BY SeqDef
  <2>3. cut \in Seq(Lines)
    BY <2>1, <2>2
  <2> QED
    BY <2>3 DEF Lines

\* A file is one of those its request has.
LEMMA FileFacts ==
  /\ \A r \in Uploads \cup Pulls : FileCount[r] \in Nat \ {0}
  /\ \A f \in Files : f[1] \in Uploads \cup Pulls
  /\ \A r \in Uploads \cup Pulls : \A i \in 1 .. FileCount[r] : <<r, i>> \in FilesOf(r)
  /\ \A r \in Uploads \cup Pulls : FilesOf(r) \subseteq Files
  /\ \A t \in Tasks : FileOf(t) \in Files /\ IsText(TextOf(t)) /\ t # Nobody
<1>1. \A r \in Uploads \cup Pulls : FileCount[r] \in Nat \ {0}
  BY FileCountAssumption
<1>2. \A f \in Files : f[1] \in Uploads \cup Pulls
  BY DEF Files, FilesOf
<1>3. \A r \in Uploads \cup Pulls : \A i \in 1 .. FileCount[r] : <<r, i>> \in FilesOf(r)
  BY DEF FilesOf
<1>4. \A r \in Uploads \cup Pulls : FilesOf(r) \subseteq Files
  BY DEF Files
<1>5. \A t \in Tasks : FileOf(t) \in Files /\ IsText(TextOf(t)) /\ t # Nobody
  BY TextAssumption, NobodyAssumption DEF Tasks, FileOf, TextOf
<1> QED
  BY <1>1, <1>2, <1>3, <1>4, <1>5

\* A task that goes on keeps what it has cut.
LEMMA StateFacts ==
  ASSUME NEW s \in TaskState
  PROVE  \A place \in {"source", "written", "completed"} :
           LET state == [s EXCEPT !.at = place] IN
           state \in TaskState /\ state.at = place /\ state.cut = s.cut
BY DEF TaskState

\* The document of the chunk that was cut last.
LEMMA UptoFacts ==
  ASSUME NEW cut \in Seq(Chunk), NEW n \in 0 .. Len(cut)
  PROVE  Upto(cut, n) \in [rev: Nat, chunk: Chunk] /\ Upto(cut, n).rev = n
<1>1. Len(cut) \in Nat /\ \A i \in 1 .. Len(cut) : cut[i] \in Chunk
  BY LenProperties, ElementOfSeq
<1>2. n = 0 => NoLines \in Chunk
  BY DEF NoLines, Chunk
<1>3. n # 0 => n \in 1 .. Len(cut)
  BY <1>1
<1> QED
  BY <1>1, <1>2, <1>3 DEF Upto

\* A turn of the loop leaves the document of the chunk before as it was.
LEMMA CutMore ==
  ASSUME NEW text, IsText(text), NEW cut \in Seq(Chunk), Covers(text, cut),
         ~AtEnd(text, cut)
  PROVE  LET more == CutNext(text, cut) IN
         /\ more \in Seq(Chunk) /\ Covers(text, more) /\ more # <<>>
         /\ Upto(more, Len(more) - 1) = Upto(cut, Len(cut))
<1> DEFINE more == CutNext(text, cut)
           n == Len(cut)
<1>1. /\ more \in Seq(Chunk) /\ Len(more) = n + 1 /\ more # <<>> /\ Covers(text, more)
      /\ \A i \in 1 .. n : more[i] = cut[i]
  BY ChunksCoverAnyText
<1> HIDE DEF more
<1>2. Len(more) - 1 = n /\ (n # 0 => n \in 1 .. n)
  <2>1. n \in Nat
    BY Reaches
  <2> QED
    BY <1>1, <2>1
<1>3. Upto(more, n) = Upto(cut, n)
  BY <1>1, <1>2 DEF Upto
<1> QED
  BY <1>1, <1>2, <1>3 DEF more

\* Before the first step there is nothing.
LEMMA InitInv == Init => IInv
<1> SUFFICES ASSUME Init PROVE IInv
  OBVIOUS
<1> USE DEF Init
<1>1. TypeOK
  <2>1. /\ request \in [Requests ->
             [at: {"new", "fetched", "pulled", "triggering", "accepted", "error"}, next: Nat]]
        /\ \A r \in Uploads \cup Pulls : request[r].next \in 1 .. (FileCount[r] + 1)
    BY FileFacts DEF Requests
  <2>2. \A t \in Tasks :
          /\ task[t].at = "waiting"
          /\ task[t].cut \in Seq([start_line: 1 .. TextOf(t).lines, end_line: 1 .. TextOf(t).lines])
    BY EmptySeq DEF Unstarted
  <2>3. /\ sources \in [Files -> Tasks \cup {Nobody}]
        /\ chunks \in [Files -> [rev: Nat, chunk: [start_line: Nat, end_line: Nat]]]
    BY DEF NoChunk, Upto, NoLines
  <2> QED
    BY <2>1, <2>2, <2>3 DEF TypeOK
<1>2. task \in [Tasks -> TaskState]
  BY EmptySeq DEF Unstarted, TaskState
<1>3. RequestsInv
  BY DEF RequestsInv
<1>4. JobsInv
  BY DEF JobsInv, Unstarted
<1>5. ChunksInv
  BY DEF ChunksInv, TaskInv, Unstarted, Owning
<1> QED
  BY <1>1, <1>2, <1>3, <1>4, <1>5 DEF IInv, Types

\* A step of a request: it starts jobs in order, each after its batch is there.
LEMMA RequestKeeps ==
  ASSUME IInv, NEW r \in Requests, Request(r)
  PROVE  IInv'
<1> USE DEF IInv, Types, TypeOK
<1> DEFINE places == {"new", "fetched", "pulled", "triggering", "accepted", "error"}
           Moves(place, next) ==
             request' = [request EXCEPT ![r] = [at |-> place, next |-> next]]
<1>1. /\ request[r] \in [at: places, next: Nat]
      /\ r \in Uploads \cup Pulls => request[r].next \in 1 .. FileCount[r] + 1
      /\ r \notin Listings <=> r \in Uploads \cup Pulls
  BY RequestsAssumption DEF Requests
<1>2. \A place : Goto(r, place) => Moves(place, request[r].next)
  BY <1>1 DEF Goto
<1>3. ASSUME NEW place \in places, NEW next \in Nat, Moves(place, next)
      PROVE  /\ request' \in [Requests -> [at: places, next: Nat]]
             /\ request'[r].at = place /\ request'[r].next = next
             /\ \A q \in Requests : q # r => request'[q] = request[q]
  BY <1>3
<1> HIDE DEF Moves
<1>4. /\ UNCHANGED <<task, sources, chunks>>
      /\ jobs \subseteq jobs' /\ batches \subseteq batches' /\ audited \subseteq audited'
  BY DEF Request, RequestFails, FetchSource, AuditFetch, WriteBatch, TriggerJob, Accept, store
<1>5. /\ batches' \subseteq Uploads \cup Pulls
      /\ audited' \subseteq Pulls \cup Listings
      /\ jobs' \subseteq Files
      /\ \A f \in jobs' : Recorded(f[1])'
  <2>1. CASE AuditFetch(r)
    BY <1>1, <2>1 DEF AuditFetch, RequestsInv, JobsInv, Recorded, Requests
  <2>2. CASE WriteBatch(r)
    BY <2>2 DEF WriteBatch, JobsInv, Recorded
  <2>3. CASE TriggerJob(r)
    <3> DEFINE f == <<r, request[r].next>>
    <3>1. r \in Uploads \cup Pulls /\ Recorded(r)
      BY <1>1, <2>3 DEF TriggerJob, RequestsInv
    <3>2. f \in Files /\ f[1] = r
      BY <2>3, <3>1, FileFacts DEF TriggerJob, ToTrigger
    <3>3. jobs' = jobs \cup {f} /\ UNCHANGED <<batches, audited>>
      BY <2>3 DEF TriggerJob
    <3> HIDE DEF f
    <3> QED
      BY <3>1, <3>2, <3>3 DEF JobsInv, Recorded
  <2> QED
    BY <2>1, <2>2, <2>3
    DEF Request, RequestFails, FetchSource, Accept, JobsInv, Recorded
<1>6. PICK place \in places, next \in Nat :
        /\ Moves(place, next)
        /\ r \in Uploads \cup Pulls => next \in 1 .. FileCount[r] + 1
        /\ place \in {"new", "fetched", "pulled"} => next = 1
        /\ place = "fetched" => r \notin Uploads
        /\ place = "pulled" => r \in Pulls /\ r \in audited'
        /\ place = "triggering" => r \notin Listings
        /\ place = "accepted" /\ r \in Listings => r \in audited'
        /\ place \in {"triggering", "accepted"} /\ r \notin Listings =>
             Recorded(r)' /\ \A i \in 1 .. next - 1 : <<r, i>> \in jobs'
        /\ place = "accepted" /\ r \notin Listings => next = FileCount[r] + 1
  <2> USE DEF RequestsInv
  <2>1. CASE RequestFails(r)
    BY <1>1, <1>2, <2>1 DEF RequestFails
  <2>2. CASE FetchSource(r)
    BY <1>1, <1>2, <2>2, RequestsAssumption DEF FetchSource
  <2>3. CASE AuditFetch(r)
    <3>1. r \notin Uploads /\ r \in audited'
      BY <2>3 DEF AuditFetch
    <3>2. r \in Pulls \/ r \in Listings
      BY <3>1 DEF Requests
    <3> QED
      BY <1>1, <1>2, <2>3, <3>1, <3>2, RequestsAssumption DEF AuditFetch
  <2>4. CASE WriteBatch(r)
    <3>1. r \in batches' /\ (r \in Pulls => r \in audited') /\ r \in Uploads \cup Pulls
      BY <2>4, RequestsAssumption DEF WriteBatch
    <3>2. request[r].next = 1
      BY <2>4 DEF WriteBatch
    <3>3. PICK p \in {"triggering", "error"} : Moves(p, request[r].next)
      BY <1>2, <2>4 DEF WriteBatch
    <3> QED
      BY <1>1, <3>1, <3>2, <3>3, RequestsAssumption DEF Recorded
  <2>5. CASE TriggerJob(r)
    <3> DEFINE n == request[r].next
    <3>1. r \in Uploads \cup Pulls /\ Recorded(r)'
      BY <1>1, <2>5 DEF TriggerJob, Recorded
    <3>2. n \in 1 .. FileCount[r] /\ FileCount[r] \in Nat
      BY <2>5, <3>1, FileFacts DEF TriggerJob, ToTrigger
    <3>3. \A i \in 1 .. n : <<r, i>> \in jobs'
      <4>1. \A i \in 1 .. n - 1 : <<r, i>> \in jobs
        BY <1>1, <2>5 DEF TriggerJob
      <4>2. jobs' = jobs \cup {<<r, n>>}
        BY <2>5 DEF TriggerJob
      <4>3. \A i \in 1 .. n : i = n \/ i \in 1 .. n - 1
        BY <3>2
      <4> QED
        BY <4>1, <4>2, <4>3
    <3>4. CASE Moves("triggering", n + 1)
      BY <1>1, <3>1, <3>2, <3>3, <3>4, RequestsAssumption
    <3>5. CASE Moves("error", n)
      BY <1>1, <3>2, <3>5
    <3>6. ASSUME request' = [request EXCEPT ![r].next = @ + 1]
          PROVE  Moves("triggering", n + 1)
      <4>1. request[r].at = "triggering"
        BY <2>5 DEF TriggerJob
      <4>2. request' = [request EXCEPT ![r] = [request[r] EXCEPT !.next = n + 1]]
        BY <3>6
      <4>3. [request[r] EXCEPT !.next = n + 1] = [at |-> "triggering", next |-> n + 1]
        BY <1>1, <4>1
      <4> HIDE DEF n
      <4> QED
        BY <4>2, <4>3 DEF Moves
    <3> QED
      BY <1>2, <2>5, <3>4, <3>5, <3>6 DEF TriggerJob
  <2>6. CASE Accept(r)
    <3> DEFINE n == request[r].next
    <3>1. /\ r \in Uploads \cup Pulls /\ Recorded(r)
          /\ \A i \in 1 .. n - 1 : <<r, i>> \in jobs
      BY <1>1, <2>6 DEF Accept
    <3>2. n = FileCount[r] + 1
      BY <1>1, <2>6, <3>1, FileFacts DEF Accept, ToTrigger
    <3>3. Moves("accepted", n) /\ UNCHANGED <<batches, audited, jobs>>
      BY <1>2, <2>6 DEF Accept
    <3> QED
      BY <1>1, <3>1, <3>2, <3>3 DEF Recorded
  <2> QED
    BY <2>1, <2>2, <2>3, <2>4, <2>5, <2>6 DEF Request
<1>7. RequestsInv'
  <2>1. RequestsInv
    OBVIOUS
  <2> HIDE DEF IInv, Types, TypeOK
  <2> QED
    BY <1>3, <1>4, <1>6, <2>1 DEF RequestsInv, Recorded
<1>8. JobsInv'
  BY <1>4, <1>5 DEF JobsInv
<1>9. ChunksInv'
  BY <1>4 DEF ChunksInv, TaskInv
<1>10. Types'
  <2>1. request' \in [Requests -> [at: places, next: Nat]]
    BY <1>3, <1>6
  <2>2. \A q \in Uploads \cup Pulls : request'[q].next \in 1 .. (FileCount[q] + 1)
    <3> SUFFICES ASSUME NEW q \in Uploads \cup Pulls
                 PROVE  request'[q].next \in 1 .. (FileCount[q] + 1)
      OBVIOUS
    <3>1. q \in Requests /\ request[q].next \in 1 .. (FileCount[q] + 1)
      BY DEF Requests
    <3> HIDE DEF IInv, Types, TypeOK
    <3> QED
      BY <1>3, <1>6, <3>1
  <2> QED
    BY <1>4, <1>5, <2>1, <2>2
<1> QED
  BY <1>7, <1>8, <1>9, <1>10

\* A step of a task: the put of a chunk never conflicts, because the only task
\* past the source_file document is the one that created it.
LEMMA TaskKeeps ==
  ASSUME IInv, NEW t \in Tasks, Ingestion(t)
  PROVE  IInv'
<1> DEFINE f == FileOf(t)
           text == TextOf(t)
<1>1. /\ task \in [Tasks -> TaskState] /\ sources \in [Files -> Tasks \cup {Nobody}]
      /\ chunks \in [Files -> [rev: Nat, chunk: Chunk]]
      /\ TypeOK /\ RequestsInv /\ JobsInv /\ ChunksInv
      /\ \A u \in Tasks : TaskInv(u)
  BY DEF IInv, Types, TypeOK, Chunk, ChunksInv
<1>2. f \in Files /\ IsText(text) /\ t # Nobody /\ task[t] \in TaskState
  BY <1>1, FileFacts
<1>3. UNCHANGED <<request, batches, audited, jobs>>
  BY DEF Ingestion, StartTask, PutSourceFile, FindChunk, PutChunk, Complete
<1>4. \A state : Becomes(t, state) =>
        /\ task'[t] = state
        /\ \A u \in Tasks : u # t => task'[u] = task[u]
        /\ state \in TaskState => task' \in [Tasks -> TaskState]
  BY <1>1 DEF Becomes
<1>5. Failed \in TaskState /\ Failed.at = "failed" /\ Failed.cut = <<>>
  BY EmptySeq DEF Failed, Unstarted, TaskState
<1>6. f \in jobs
  <2>1. task[t].at # "waiting" => f \in jobs
    BY <1>1 DEF JobsInv
  <2>2. task[t].at = "waiting" => StartTask(t)
    BY DEF Ingestion, PutSourceFile, FindChunk, PutChunk, Complete
  <2> QED
    BY <2>1, <2>2 DEF StartTask
<1> DEFINE Fits(state, doc) ==
        /\ state.at \in {"waiting", "source", "failed"} => state.cut = <<>>
        /\ state.at \in {"find", "put"} =>
             /\ ChunkingRequired(text) /\ Covers(text, state.cut) /\ state.cut # <<>>
             /\ doc = Upto(state.cut, Len(state.cut) - 1)
        /\ state.at = "put" => state.rev = doc.rev
        /\ state.at \in {"written", "completed"} =>
             CutToEnd(text, state.cut) /\ doc = Upto(state.cut, Len(state.cut))
           Leads(state) ==
        /\ state \in TaskState
        /\ Becomes(t, state)
        /\ \/ sources' = sources /\ (state.at \in Owning => task[t].at \in Owning)
           \/ sources[f] = Nobody /\ sources' = [sources EXCEPT ![f] = t]
        /\ \/ chunks' = chunks
           \/ sources[f] = t /\ \E doc \in [rev: Nat, chunk: Chunk] :
                                  chunks' = [chunks EXCEPT ![f] = doc]
        /\ Fits(state, chunks'[f])
<1> DEFINE cut == task[t].cut
           n == Len(cut)
<1>7. cut \in Seq(Chunk) /\ n \in Nat /\ Reached(cut) \in Nat
  BY <1>2, Reaches DEF TaskState
<1>8. \A state : state.at \in {"waiting", "source", "failed"} /\ state.cut = <<>> =>
        \A doc : Fits(state, doc)
  OBVIOUS
<1> HIDE DEF Fits
<1>9. \E state : Leads(state)
  <2>1. CASE StartTask(t)
    <3> DEFINE state == [Unstarted EXCEPT !.at = "source"]
    <3>1. state \in TaskState /\ state.at = "source" /\ state.cut = <<>>
      BY EmptySeq DEF Unstarted, TaskState
    <3> HIDE DEF state
    <3>2. Becomes(t, state) /\ UNCHANGED <<sources, chunks>>
      BY <2>1 DEF StartTask, store, state
    <3>3. Leads(state)
      BY <1>8, <3>1, <3>2 DEF Owning
    <3> QED
      BY <3>3
  <2>2. CASE PutSourceFile(t)
    <3>1. CASE MayPut(t) /\ ChunkingRequired(text)
      <4> DEFINE more == CutNext(text, <<>>)
                 state == [task[t] EXCEPT !.at = "find", !.cut = more]
      <4>1. cut = <<>> /\ n = 0
        BY <2>2, <1>1, EmptySeq DEF PutSourceFile, TaskInv
      <4>2. Covers(text, cut) /\ ~AtEnd(text, cut)
        BY <1>2, <3>1, <4>1, NothingCut, ChunkingAssumption DEF AtEnd, ChunkingRequired, IsText
      <4>3. /\ more \in Seq(Chunk) /\ Covers(text, more) /\ more # <<>>
            /\ Upto(more, Len(more) - 1) = NoChunk
        <5>1. more = CutNext(text, cut) /\ Upto(cut, n) = NoChunk
          BY <4>1 DEF NoChunk
        <5> HIDE DEF more, cut, n
        <5> QED
          BY <1>2, <1>7, <4>2, <5>1, CutMore DEF n
      <4>4. /\ Becomes(t, state) /\ sources[f] = Nobody
            /\ sources' = [sources EXCEPT ![f] = t] /\ chunks' = chunks
        BY <2>2, <3>1 DEF PutSourceFile, MayPut
      <4> HIDE DEF more
      <4>5. state \in TaskState /\ state.at = "find" /\ state.cut = more
        BY <1>2, <4>3 DEF TaskState
      <4> HIDE DEF state
      <4>6. chunks'[f] = NoChunk
        BY <1>1, <1>2, <4>4 DEF ChunksInv
      <4>7. Fits(state, chunks'[f])
        BY <3>1, <4>3, <4>5, <4>6 DEF Fits
      <4>8. Leads(state)
        BY <4>4, <4>5, <4>7
      <4> QED
        BY <4>8
    <3>2. CASE MayPut(t) /\ ~ChunkingRequired(text)
      <4> DEFINE state == [task[t] EXCEPT !.at = "written"]
      <4>1. cut = <<>> /\ n = 0
        BY <2>2, <1>1, EmptySeq DEF PutSourceFile, TaskInv
      <4>2. /\ Becomes(t, state) /\ sources[f] = Nobody
            /\ sources' = [sources EXCEPT ![f] = t] /\ chunks' = chunks
        BY <2>2, <3>2 DEF PutSourceFile, MayPut
      <4>3. state \in TaskState /\ state.at = "written" /\ state.cut = <<>>
        BY <1>2, <1>7, <4>1, StateFacts, Zenon
      <4> HIDE DEF state
      <4>4. chunks'[f] = Upto(<<>>, Len(<<>>))
        BY <1>1, <1>2, <4>1, <4>2 DEF NoChunk, ChunksInv
      <4>5. Fits(state, chunks'[f])
        BY <3>2, <4>3, <4>4 DEF Fits, CutToEnd
      <4>6. Leads(state)
        BY <4>2, <4>3, <4>5
      <4> QED
        BY <4>6
    <3>3. CASE ~MayPut(t)
      <4>1. Becomes(t, Failed) /\ UNCHANGED <<sources, chunks>>
        BY <2>2, <3>3 DEF PutSourceFile
      <4>2. Leads(Failed)
        BY <1>5, <1>8, <4>1 DEF Owning
      <4> QED
        BY <4>2
    <3> QED
      BY <3>1, <3>2, <3>3
  <2>3. CASE FindChunk(t)
    <3> DEFINE state == [task[t] EXCEPT !.at = "put", !.rev = chunks[f].rev]
    <3>1. chunks[f].rev \in Nat
      BY <1>1, <1>2
    <3>2. /\ state \in TaskState
          /\ state.at = "put" /\ state.cut = cut /\ state.rev = chunks[f].rev
      BY <1>2, <3>1 DEF TaskState
    <3> HIDE DEF state
    <3>3. Becomes(t, state) /\ UNCHANGED <<sources, chunks>> /\ task[t].at = "find"
      BY <2>3 DEF FindChunk, store, state
    <3>4. Fits(state, chunks'[f])
      BY <1>1, <3>2, <3>3 DEF Fits, TaskInv
    <3>5. Leads(state)
      BY <3>2, <3>3, <3>4 DEF Owning
    <3> QED
      BY <3>5
  <2>4. CASE PutChunk(t)
    <3> DEFINE state == IF AtEnd(text, cut) THEN [task[t] EXCEPT !.at = "written"]
                        ELSE [task[t] EXCEPT !.at = "find", !.cut = CutNext(text, cut)]
    <3>1. /\ task[t].at = "put" /\ sources[f] = t /\ cut # <<>>
          /\ ChunkingRequired(text) /\ Covers(text, cut)
          /\ chunks[f] = Upto(cut, n - 1) /\ chunks[f].rev = task[t].rev
      <4>1. task[t].at = "put"
        BY <2>4 DEF PutChunk
      <4> QED
        BY <1>1, <4>1 DEF TaskInv, Owning
    <3>2. n \in Nat \ {0} /\ n \in 0 .. n /\ n - 1 \in 0 .. n
      <4>1. n # 0
        BY <1>7, <3>1, EmptySeq
      <4> QED
        BY <1>7, <4>1
    <3>3. /\ Becomes(t, state) /\ sources' = sources
          /\ chunks' = [chunks EXCEPT ![f] = [rev |-> chunks[f].rev + 1, chunk |-> cut[n]]]
      BY <2>4, <3>1 DEF PutChunk
    <3>4. [rev |-> chunks[f].rev + 1, chunk |-> cut[n]] = Upto(cut, n)
      <4>1. chunks[f].rev = n - 1
        BY <3>1 DEF Upto
      <4> QED
        BY <3>2, <4>1 DEF Upto
    <3>5. Upto(cut, n) \in [rev: Nat, chunk: Chunk]
      <4> HIDE DEF cut
      <4> QED
        BY <1>7, <3>2, UptoFacts
    <3>6. chunks' = [chunks EXCEPT ![f] = Upto(cut, n)] /\ chunks'[f] = Upto(cut, n)
      BY <1>1, <1>2, <3>3, <3>4
    <3>7. state \in TaskState /\ Fits(state, chunks'[f])
      <4>1. CASE AtEnd(text, cut)
        <5>1. state \in TaskState /\ state.at = "written" /\ state.cut = cut
          <6>1. state = [task[t] EXCEPT !.at = "written"]
            BY <4>1
          <6> HIDE DEF state
          <6> QED
            BY <1>2, <1>7, <6>1, StateFacts, Zenon
        <5>2. CutToEnd(text, cut)
          <6>1. Reached(cut) <= text.lines
            <7>1. n \in DOMAIN cut
              BY <1>7, <3>2, Reaches
            <7> QED
              BY <3>1, <7>1 DEF Covers, WellCut, Reached
          <6>2. Reached(cut) = text.lines
            <7>1. text.lines \in Nat /\ Reached(cut) >= text.lines
              BY <1>2, <4>1 DEF AtEnd, IsText
            <7> HIDE DEF text, cut
            <7> QED
              BY <1>7, <6>1, <7>1
          <6> QED
            BY <3>1, <6>2 DEF CutToEnd
        <5> QED
          BY <3>6, <5>1, <5>2 DEF Fits
      <4>2. CASE ~AtEnd(text, cut)
        <5> DEFINE more == CutNext(text, cut)
        <5>1. /\ more \in Seq(Chunk) /\ Covers(text, more) /\ more # <<>>
              /\ Upto(more, Len(more) - 1) = Upto(cut, n)
          <6> HIDE DEF cut
          <6> QED
            BY <1>2, <1>7, <3>1, <4>2, CutMore
        <5>2. state = [task[t] EXCEPT !.at = "find", !.cut = more]
          BY <4>2
        <5> HIDE DEF state, more
        <5>3. state \in TaskState /\ state.at = "find" /\ state.cut = more
          BY <1>2, <5>1, <5>2 DEF TaskState
        <5> QED
          BY <3>1, <3>6, <5>1, <5>3 DEF Fits
      <4> QED
        BY <4>1, <4>2
    <3>8. task[t].at \in Owning
      BY <3>1 DEF Owning
    <3> HIDE DEF state, cut, n
    <3>9. Leads(state)
      BY <3>1, <3>3, <3>5, <3>6, <3>7, <3>8
    <3> QED
      BY <3>9
  <2>5. CASE Complete(t)
    <3> DEFINE state == [task[t] EXCEPT !.at = "completed"]
    <3>1. Becomes(t, state) /\ UNCHANGED <<sources, chunks>> /\ task[t].at = "written"
      BY <2>5 DEF Complete, store
    <3>2. state \in TaskState /\ state.at = "completed" /\ state.cut = cut
      BY <1>2, <1>7, StateFacts, Zenon
    <3> HIDE DEF state
    <3>3. Fits(state, chunks'[f])
      BY <1>1, <3>1, <3>2 DEF Fits, TaskInv
    <3>4. Leads(state)
      BY <3>1, <3>2, <3>3 DEF Owning
    <3> QED
      BY <3>4
  <2> QED
    BY <2>1, <2>2, <2>3, <2>4, <2>5 DEF Ingestion
<1>10. PICK state : Leads(state)
  BY <1>9
<1>11. /\ sources' \in [Files -> Tasks \cup {Nobody}]
       /\ \A g \in Files : \/ sources'[g] = sources[g]
                           \/ g = f /\ sources[g] = Nobody /\ sources'[g] = t
       /\ state.at \in Owning => sources'[f] = t
  <2>1. task[t].at \in Owning => sources[f] = t
    BY <1>1 DEF TaskInv
  <2> QED
    BY <1>1, <1>2, <1>10, <2>1
<1>12. /\ chunks' \in [Files -> [rev: Nat, chunk: Chunk]]
       /\ \A g \in Files : chunks'[g] = chunks[g] \/ (g = f /\ sources[g] = t)
  BY <1>1, <1>2, <1>10
<1>13. /\ task' \in [Tasks -> TaskState]
       /\ task'[t] = state
       /\ \A u \in Tasks : u # t => task'[u] = task[u]
  BY <1>4, <1>10
<1>14. Types'
  <2> DEFINE Lines(u) == [start_line: 1 .. TextOf(u).lines, end_line: 1 .. TextOf(u).lines]
  <2>1. \A u \in Tasks :
          /\ task'[u].at \in {"waiting", "source", "find", "put", "written", "completed", "failed"}
          /\ task'[u].cut \in Seq(Lines(u))
    <3>1. state.cut \in Seq(Lines(t))
      <4>1. state.cut = <<>> \/ Covers(text, state.cut)
        BY <1>10 DEF TaskState, Fits, CutToEnd
      <4>2. state.cut \in Seq(Chunk)
        BY <1>10 DEF TaskState
      <4> QED
        BY <1>2, <4>1, <4>2, InText, EmptySeq
    <3>2. \A u \in Tasks : task[u].cut \in Seq(Lines(u))
      BY <1>1 DEF TypeOK
    <3>3. \A u \in Tasks : task'[u].cut \in Seq(Lines(u))
      BY <1>13, <3>1, <3>2
    <3>4. \A u \in Tasks :
            task'[u].at \in {"waiting", "source", "find", "put", "written", "completed", "failed"}
      BY <1>13 DEF TaskState
    <3> QED
      BY <3>3, <3>4
  <2>2. TypeOK'
    BY <1>1, <1>3, <1>11, <1>12, <2>1 DEF TypeOK, Chunk
  <2> QED
    BY <1>13, <2>2 DEF Types
<1>15. RequestsInv'
  BY <1>1, <1>3 DEF RequestsInv, Recorded
<1>16. JobsInv'
  <2>1. \A u \in Tasks : task'[u].at # "waiting" => FileOf(u) \in jobs
    BY <1>1, <1>6, <1>13 DEF JobsInv
  <2>2. \A g \in Files : sources'[g] # Nobody => g \in jobs
    BY <1>1, <1>6, <1>11 DEF JobsInv
  <2>3. \A g \in jobs : Recorded(g[1])'
    BY <1>1, <1>3 DEF JobsInv, Recorded
  <2> QED
    BY <1>3, <2>1, <2>2, <2>3 DEF JobsInv
<1>17. ChunksInv'
  <2>1. ASSUME NEW g \in Files, sources'[g] = Nobody
        PROVE  chunks'[g] = NoChunk
    BY <1>1, <1>2, <1>11, <1>12, <2>1 DEF ChunksInv
  <2>2. ASSUME NEW u \in Tasks, u # t, task[u].at \in Owning
        PROVE  sources'[FileOf(u)] = u /\ chunks'[FileOf(u)] = chunks[FileOf(u)]
    <3>1. sources[FileOf(u)] = u /\ FileOf(u) \in Files /\ u # Nobody
      BY <1>1, <2>2, FileFacts DEF TaskInv
    <3> QED
      BY <1>11, <1>12, <2>2, <3>1
  <2>3. ASSUME NEW u \in Tasks PROVE TaskInv(u)'
    <3>1. CASE u = t
      BY <1>10, <1>11, <1>13, <3>1 DEF Fits, TaskInv
    <3>2. CASE u # t
      <4>1. task'[u] = task[u] /\ TaskInv(u)
        BY <1>1, <1>13, <3>2
      <4>2. task[u].at \in Owning =>
              sources'[FileOf(u)] = u /\ chunks'[FileOf(u)] = chunks[FileOf(u)]
        BY <2>2, <3>2
      <4> QED
        BY <4>1, <4>2 DEF TaskInv, Owning
    <3> QED
      BY <3>1, <3>2
  <2> QED
    BY <2>1, <2>3 DEF ChunksInv
<1> QED
  BY <1>14, <1>15, <1>16, <1>17 DEF IInv

\* A step of the specification, or a stuttering step.
LEMMA NextInv == IInv /\ [Next]_vars => IInv'
<1> SUFFICES ASSUME IInv, [Next]_vars
             PROVE  IInv'
  OBVIOUS
<1>1. CASE UNCHANGED vars
  BY <1>1 DEF vars, store, IInv, Types, TypeOK, RequestsInv, JobsInv, ChunksInv, TaskInv,
     Recorded
<1> QED
  BY <1>1, RequestKeeps, TaskKeeps DEF Next

-----------------------------------------------------------------------------
(* The theorems *)

\* The inductive invariant holds of every reachable state.
THEOREM Invariance == Spec => []IInv
<1>1. Init => IInv
  BY InitInv
<1>2. IInv /\ [Next]_vars => IInv'
  BY NextInv
<1> QED
  BY <1>1, <1>2, PTL DEF Spec

\* Documents, requests and tasks stay well formed.
THEOREM TypeCorrect == Spec => []TypeOK
<1>1. IInv => TypeOK
  BY DEF IInv, Types
<1> QED
  BY <1>1, Invariance, PTL

\* What the BFF answers "accepted" has its batch, its audit event and a job for
\* every file, and no job and no source_file exists without its batch.
THEOREM Acceptance == Spec => []AcceptedIsComplete
<1>1. IInv => AcceptedIsComplete
  <2> SUFFICES ASSUME IInv
               PROVE  AcceptedIsComplete
    OBVIOUS
  <2> USE DEF IInv, RequestsInv, JobsInv, Recorded
  <2>1. ASSUME NEW r \in Requests, request[r].at = "accepted", r \notin Listings
        PROVE  /\ r \in batches /\ FilesOf(r) \subseteq jobs
               /\ r \notin Uploads => r \in audited
    <3>1. FileCount[r] \in Nat /\ request[r].next = FileCount[r] + 1 /\ r \in Uploads \cup Pulls
      BY <2>1, FileFacts DEF Requests
    <3>2. \A i \in 1 .. FileCount[r] : <<r, i>> \in jobs
      BY <2>1, <3>1
    <3> QED
      BY <2>1, <3>1, <3>2 DEF FilesOf
  <2>2. \A r \in Listings : request[r].at = "accepted" => r \in audited
    BY DEF Requests
  <2> QED
    BY <2>1, <2>2 DEF AcceptedIsComplete
<1> QED
  BY <1>1, Invariance, PTL

\* Of all deliveries of a file's message, one task at most goes on: the one that
\* created the source_file; and the chunks it cut of any text cover it.
THEOREM OnePipeline == Spec => []OnePipelinePerFile
<1>1. IInv => OnePipelinePerFile
  BY DEF IInv, ChunksInv, TaskInv, OnePipelinePerFile, Owning, CutToEnd
<1> QED
  BY <1>1, Invariance, PTL

-----------------------------------------------------------------------------
(* The texts of Analysis *)

CONSTANTS MaxLines, Programs, Extractions, SelfChecks, Outputs, Invalid, None
VARIABLES file, cut, structures, recs, epics

Cutting == INSTANCE Analysis WITH chunks <- cut

\* What has been cut of the text is well cut.
FileInv ==
  /\ IsText(file)
  /\ cut \in Seq(Chunk)
  /\ IF ChunkingRequired(file) THEN Covers(file, cut) ELSE cut = <<>>

\* Analysis cuts with the operators Intake cuts with.
LEMMA SameOperators ==
  ASSUME NEW t, NEW c
  PROVE  /\ Cutting!ChunkingRequired(t) = ChunkingRequired(t)
         /\ Cutting!AtEnd(t, c) = AtEnd(t, c)
         /\ Cutting!CutNext(t, c) = CutNext(t, c)
         /\ Cutting!Covers(t, c) = Covers(t, c)
<1>1. Cutting!ChunkingRequired(t) = ChunkingRequired(t)
  BY DEF Cutting!ChunkingRequired, ChunkingRequired
<1>2. Cutting!AtEnd(t, c) = AtEnd(t, c)
  BY DEF Cutting!AtEnd, AtEnd, Cutting!Reached, Reached, Cutting!End, End
<1>3. \A s : Cutting!EndOf(t, s) = EndOf(t, s)
  BY DEF Cutting!EndOf, EndOf, Cutting!Max, Max, Cutting!TargetEnd, TargetEnd,
         Cutting!Min, Min, Cutting!Boundaries, Boundaries
<1>4. Cutting!CutNext(t, c) = CutNext(t, c)
  BY <1>3 DEF Cutting!CutNext, CutNext, Cutting!ChunkFrom, ChunkFrom, Cutting!Max, Max,
              Cutting!Reached, Reached, Cutting!End, End
<1>5. Cutting!Covers(t, c) = Covers(t, c)
  BY DEF Cutting!Covers, Covers, Cutting!WellCut, WellCut, Cutting!End, End, Cutting!Min, Min
<1> QED
  BY <1>1, <1>2, <1>4, <1>5

\* The file build_chunks is called with is a text.
LEMMA FilesAreTexts == \A f \in Cutting!File : IsText(f)
  BY DEF Cutting!File, IsText

\* Whatever text build_chunks is called with, of any length, the chunks it has cut
\* after any number of turns leave out no line, and a short text has none.
THEOREM AnyFileIsCovered == Cutting!Spec => []Cutting!ChunksCoverTheFile
<1>1. Cutting!Init => FileInv
  <2>1. IsText([lines |-> 0, headers |-> {}])
    BY DEF IsText
  <2>2. ~ChunkingRequired([lines |-> 0, headers |-> {}])
    BY ChunkingAssumption DEF ChunkingRequired
  <2> QED
    BY <2>1, <2>2, EmptySeq DEF Cutting!Init, Cutting!NoFile, FileInv
<1>2. FileInv /\ [Cutting!Next]_Cutting!vars => FileInv'
  <2> SUFFICES ASSUME FileInv, [Cutting!Next]_Cutting!vars
               PROVE  FileInv'
    OBVIOUS
  <2>1. CASE Cutting!SplitFile
    <3>1. /\ file = [lines |-> 0, headers |-> {}] /\ file' \in Cutting!File /\ cut' = cut
      BY <2>1 DEF Cutting!SplitFile, Cutting!NoFile
    <3>2. cut = <<>>
      BY <3>1, ChunkingAssumption DEF FileInv, ChunkingRequired
    <3>3. IsText(file')
      BY <3>1, FilesAreTexts
    <3> QED
      BY <3>1, <3>2, <3>3, NothingCut DEF FileInv
  <2>2. CASE Cutting!CutChunk
    <3>1. /\ ChunkingRequired(file) /\ ~AtEnd(file, cut)
          /\ cut' = CutNext(file, cut) /\ file' = file
      BY <2>2, SameOperators DEF Cutting!CutChunk
    <3>2. IsText(file) /\ cut \in Seq(Chunk) /\ Covers(file, cut)
      BY <3>1 DEF FileInv
    <3>3. cut' \in Seq(Chunk) /\ Covers(file, cut')
      BY <3>1, <3>2, ChunksCoverAnyText
    <3> QED
      BY <3>1, <3>2, <3>3 DEF FileInv
  <2>3. CASE UNCHANGED <<file, cut>>
    BY <2>3 DEF FileInv
  <2> QED
    BY <2>1, <2>2, <2>3
       DEF Cutting!Next, Cutting!vars, Cutting!AnalyseProgram, Cutting!Recommend,
           Cutting!WriteEpics
<1>3. FileInv => Cutting!ChunksCoverTheFile
  BY SameOperators DEF FileInv, Cutting!ChunksCoverTheFile
<1> QED
  BY <1>1, <1>2, <1>3, PTL DEF Cutting!Spec
=============================================================================
