-------------------------- MODULE AuditChainProofs --------------------------
(***************************************************************************)
(* What AuditChain guarantees for every number of concurrent appends,      *)
(* every window and every number of events.                                *)
(***************************************************************************)
EXTENDS AuditChain, FiniteSetTheorems, TLAPS

-----------------------------------------------------------------------------
(* Lemmas about finite sets of events *)

\* A finite, non-empty set of events has an earliest one: a smallest
\* counterexample would still have one after losing an event.
LEMMA EarliestExists ==
  ASSUME NEW events, IsFiniteSet(events), events # {},
         \A e \in events : e.time \in Int
  PROVE  \E e \in events : \A f \in events : e.time <= f.time
<1> DEFINE HasEarliest(s) == \E e \in s : \A f \in s : e.time <= f.time
           Bad == {s \in FiniteSubsetsOf(events) : s # {} /\ ~HasEarliest(s)}
<1>1. SUFFICES ASSUME Bad # {} PROVE FALSE
  BY DEF FiniteSubsetsOf
<1>2. IsWellFoundedOn(StrictSubsetOrdering(events), FiniteSubsetsOf(events))
  BY FS_StrictSubsetOrderingWellFounded
<1>3. PICK s \in Bad : \A r \in Bad : <<r, s>> \notin StrictSubsetOrdering(events)
  BY <1>1, <1>2, WFMin
<1>4. PICK e \in s : TRUE
  BY <1>3
<1> DEFINE r == s \ {e}
<1>5. /\ r \subseteq s
      /\ r # s
      /\ r \in FiniteSubsetsOf(events)
  <2>1. IsFiniteSet(r)
    BY <1>3, FS_RemoveElement DEF FiniteSubsetsOf
  <2> QED
    BY <2>1, <1>3, <1>4 DEF FiniteSubsetsOf
<1>6. r \notin Bad
  BY <1>3, <1>5 DEF StrictSubsetOrdering, FiniteSubsetsOf
<1>7. r = {} \/ HasEarliest(r)
  BY <1>5, <1>6
<1>8. \A f \in s : f.time \in Int
  BY <1>3 DEF FiniteSubsetsOf
<1>9. HasEarliest(s)
  BY <1>4, <1>7, <1>8
<1> QED
  BY <1>3, <1>9

\* ... and a latest one.
LEMMA LatestExists ==
  ASSUME NEW events, IsFiniteSet(events), events # {},
         \A e \in events : e.time \in Int
  PROVE  \E e \in events : \A f \in events : f.time <= e.time
<1> DEFINE HasLatest(s) == \E e \in s : \A f \in s : f.time <= e.time
           Bad == {s \in FiniteSubsetsOf(events) : s # {} /\ ~HasLatest(s)}
<1>1. SUFFICES ASSUME Bad # {} PROVE FALSE
  BY DEF FiniteSubsetsOf
<1>2. IsWellFoundedOn(StrictSubsetOrdering(events), FiniteSubsetsOf(events))
  BY FS_StrictSubsetOrderingWellFounded
<1>3. PICK s \in Bad : \A r \in Bad : <<r, s>> \notin StrictSubsetOrdering(events)
  BY <1>1, <1>2, WFMin
<1>4. PICK e \in s : TRUE
  BY <1>3
<1> DEFINE r == s \ {e}
<1>5. /\ r \subseteq s
      /\ r # s
      /\ r \in FiniteSubsetsOf(events)
  <2>1. IsFiniteSet(r)
    BY <1>3, FS_RemoveElement DEF FiniteSubsetsOf
  <2> QED
    BY <2>1, <1>3, <1>4 DEF FiniteSubsetsOf
<1>6. r \notin Bad
  BY <1>3, <1>5 DEF StrictSubsetOrdering, FiniteSubsetsOf
<1>7. r = {} \/ HasLatest(r)
  BY <1>5, <1>6
<1>8. \A f \in s : f.time \in Int
  BY <1>3 DEF FiniteSubsetsOf
<1>9. HasLatest(s)
  BY <1>4, <1>7, <1>8
<1> QED
  BY <1>3, <1>9

\* The search for the latest event of a finite set finds one.
LEMMA LatestIsLatest ==
  ASSUME NEW events, IsFiniteSet(events), events # {},
         \A e \in events : e.time \in Int
  PROVE  /\ Latest(events) \in events
         /\ \A f \in events : f.time <= Latest(events).time
  BY LatestExists DEF Latest

\* An event later than all others is the one it finds.
LEMMA TheLatest ==
  ASSUME NEW events, NEW m \in events, m.time \in Int,
         \A f \in events : f.time \in Int /\ (f # m => f.time < m.time)
  PROVE  Latest(events) = m
<1>1. \A f \in events : f.time <= m.time
  OBVIOUS
<1>2. \A e \in events : (\A f \in events : f.time <= e.time) => e = m
  OBVIOUS
<1> QED
  BY <1>1, <1>2 DEF Latest

-----------------------------------------------------------------------------
(* The inductive invariant *)

\* An id names one event, and never a lost one.
IdsUnique ==
  /\ \A e, f \in log : e.id = f.id => e = f
  /\ \A e \in log : e.id \notin lost

Stamped(a) == at[a] = "stamped"

\* A timestamp belongs to one event or to one append under way, and none is
\* ahead of the clock.
TimesUnique ==
  /\ \A e, f \in log : e.time = f.time => e = f
  /\ \A e \in log : e.time <= clock
  /\ \A a \in Appenders : Stamped(a) => stamp[a] \in 1 .. clock
  /\ \A a \in Appenders : Stamped(a) => \A e \in log : e.time # stamp[a]
  /\ \A a, b \in Appenders :
       Stamped(a) /\ Stamped(b) /\ stamp[a] = stamp[b] => a = b

\* The link an append under way has read is what LinksGoBack says of events.
PendingLinksGoBack ==
  \A a \in Appenders : at[a] # "idle" =>
    \/ prev[a] = Genesis
    \/ prev[a] \in lost
    \/ \E f \in log : f.id = prev[a] /\ (Stamped(a) => f.time < stamp[a])

\* An append that is not outdated holds the head of the log.
PendingHeads ==
  Serial /\ Undamaged =>
    \A a \in Appenders \ outdated : at[a] # "idle" =>
      /\ prev[a] = Head(log)
      /\ Stamped(a) => \A e \in log : e.time < stamp[a]

IInv ==
  /\ TypeOK
  /\ IsFiniteSet(log)
  /\ IdsUnique
  /\ TimesUnique
  /\ LinksGoBack
  /\ PendingLinksGoBack
  /\ PendingHeads
  /\ SerialAppendsVerify

-----------------------------------------------------------------------------
(* The steps *)

\* An empty log, and no call under way.
LEMMA InitInv == Init => IInv
<1> SUFFICES ASSUME Init PROVE IInv
  OBVIOUS
<1> USE DEF Init
<1>1. TypeOK
  <2>1. 0 \in 0 .. MaxStamps
    BY StampsAssumption
  <2>2. Genesis \in Link
    BY DEF Link
  <2> QED
    BY <2>1, <2>2 DEF TypeOK
<1>2. IsFiniteSet(log)
  BY FS_EmptySet
<1>3. IdsUnique /\ TimesUnique /\ LinksGoBack /\ SerialAppendsVerify
  BY DEF IdsUnique, TimesUnique, Stamped, LinksGoBack, SerialAppendsVerify, VerifyChain
<1>4. PendingLinksGoBack /\ PendingHeads
  BY DEF PendingLinksGoBack, PendingHeads
<1> QED
  BY <1>1, <1>2, <1>3, <1>4 DEF IInv

\* A query returns nothing but what fits its selector.
LEMMA AnswersAreFound ==
  ASSUME NEW found, NEW limit
  PROVE  Answers(found, limit) \subseteq SUBSET found
  BY DEF Answers

\* Whatever window of the log is read, its head is the genesis constant or
\* the id of an event of the log.
LEMMA HeadOfView ==
  ASSUME IInv, NEW view \in SUBSET log
  PROVE  Head(view) = Genesis \/ \E f \in log : f.id = Head(view)
<1>1. IsFiniteSet(view)
  BY FS_Subset DEF IInv
<1>2. \A e \in view : e.time \in Int
  BY DEF IInv, TypeOK, Event
<1>3. view # {} => Latest(view) \in view
  BY <1>1, <1>2, LatestIsLatest
<1> QED
  BY <1>3 DEF Head

\* The head a caller reads is the newest event, if the window shows it.
LEMMA ReadHeadInv ==
  ASSUME IInv, NEW a \in Appenders, ReadHead(a)
  PROVE  IInv'
<1>1. PICK view \in Window : prev' = [prev EXCEPT ![a] = Head(view)]
  BY DEF ReadHead
<1>2. view \in SUBSET log
  BY AnswersAreFound DEF Window
<1>3. Head(view) = Genesis \/ \E f \in log : f.id = Head(view)
  BY <1>2, HeadOfView
<1> USE DEF IInv
<1>4. Head(view) \in Link
  BY <1>3 DEF TypeOK, Event, Link
<1>5. TypeOK'
  BY <1>1, <1>4 DEF TypeOK, ReadHead
<1>6. \A b \in Appenders : Stamped(b)' => Stamped(b)
  BY DEF Stamped, ReadHead, TypeOK
<1>7. IsFiniteSet(log)' /\ IdsUnique' /\ TimesUnique'
  BY <1>6 DEF ReadHead, IdsUnique, TimesUnique
<1>8. LinksGoBack' /\ SerialAppendsVerify'
  BY DEF ReadHead, LinksGoBack, SerialAppendsVerify, Serial, Undamaged, Intact
<1>9. prev'[a] = Head(view) /\ ~Stamped(a)' /\ a \notin outdated'
  BY <1>1 DEF TypeOK, ReadHead, Stamped
<1>10. \A b \in Appenders : b # a =>
        prev'[b] = prev[b] /\ at'[b] = at[b] /\ (b \in outdated <=> b \in outdated')
  BY <1>1 DEF TypeOK, ReadHead
<1>11. PendingLinksGoBack'
  <2> SUFFICES ASSUME NEW b \in Appenders, at'[b] # "idle"
               PROVE  (\/ prev[b] = Genesis
                       \/ prev[b] \in lost
                       \/ \E f \in log : f.id = prev[b] /\ (Stamped(b) => f.time < stamp[b]))'
    BY DEF PendingLinksGoBack
  <2>1. CASE b = a
    BY <2>1, <1>3, <1>9 DEF ReadHead
  <2>2. CASE b # a
    BY <2>2, <1>10 DEF ReadHead, PendingLinksGoBack, Stamped
  <2> QED
    BY <2>1, <2>2
<1>12. PendingHeads'
  <2> SUFFICES ASSUME Serial, Undamaged,
                      NEW b \in Appenders \ outdated', at'[b] # "idle"
               PROVE  (/\ prev[b] = Head(log)
                       /\ Stamped(b) => \A e \in log : e.time < stamp[b])'
    BY DEF PendingHeads, ReadHead, Serial, Undamaged, Intact
  <2>1. CASE b = a
    <3>1. view = log
      BY DEF Serial, Window, Answers
    <3> QED
      BY <2>1, <3>1, <1>9 DEF ReadHead, Head
  <2>2. CASE b # a
    BY <2>2, <1>10 DEF ReadHead, PendingHeads, Stamped, Head
  <2> QED
    BY <2>1, <2>2
<1> QED
  BY <1>5, <1>7, <1>8, <1>11, <1>12

\* A stamp is later than every event and every earlier stamp.
LEMMA StampInv ==
  ASSUME IInv, NEW a \in Appenders, Stamp(a)
  PROVE  IInv'
<1> USE DEF IInv
<1>1. clock \in Nat /\ clock' = clock + 1 /\ stamp'[a] = clock + 1 /\ Stamped(a)'
  BY DEF TypeOK, Stamp, Now, Stamped
<1>2. \A b \in Appenders : b # a =>
        stamp'[b] = stamp[b] /\ at'[b] = at[b] /\ (Stamped(b)' <=> Stamped(b))
  BY DEF TypeOK, Stamp, Stamped
<1>3. \A e \in log : e.time \in Nat /\ e.time <= clock
  BY DEF TimesUnique, TypeOK, Event
<1>4. TypeOK'
  <2>1. clock' \in 0 .. MaxStamps /\ Now \in 0 .. MaxStamps
    BY StampsAssumption DEF TypeOK, Stamp, Now
  <2> QED
    BY <2>1 DEF TypeOK, Stamp
<1>5. IsFiniteSet(log)' /\ IdsUnique' /\ LinksGoBack' /\ SerialAppendsVerify'
  BY DEF Stamp, IdsUnique, LinksGoBack, SerialAppendsVerify, Serial, Undamaged, Intact
<1>6. TimesUnique'
  <2>1. \A b \in Appenders : b # a /\ Stamped(b) => stamp[b] \in 1 .. clock
    BY DEF TimesUnique
  <2>2. /\ \A e, f \in log : e.time = f.time => e = f
        /\ \A b \in Appenders : Stamped(b) => \A e \in log : e.time # stamp[b]
        /\ \A b, c \in Appenders :
             Stamped(b) /\ Stamped(c) /\ stamp[b] = stamp[c] => b = c
    BY DEF TimesUnique
  <2>3. \A b \in Appenders : Stamped(b)' => stamp'[b] \in 1 .. clock'
    BY <2>1, <1>1, <1>2
  <2>4. \A b \in Appenders : Stamped(b)' => \A e \in log : e.time # stamp'[b]
    BY <2>2, <1>1, <1>2, <1>3
  <2>5. \A b, c \in Appenders :
          Stamped(b)' /\ Stamped(c)' /\ stamp'[b] = stamp'[c] => b = c
    BY <2>1, <2>2, <1>1, <1>2
  <2>6. log' = log
    BY DEF Stamp
  <2> QED
    BY <2>2, <2>3, <2>4, <2>5, <2>6, <1>1, <1>3 DEF TimesUnique
<1>7. at[a] # "idle" /\ prev' = prev /\ log' = log /\ lost' = lost /\ outdated' = outdated
  BY DEF Stamp
<1>8. \A e \in log : e.time < stamp'[a]
  BY <1>1, <1>3
<1>9. PendingLinksGoBack'
  BY <1>2, <1>7, <1>8 DEF PendingLinksGoBack
<1>10. PendingHeads'
  <2> SUFFICES ASSUME Serial, Undamaged,
                      NEW b \in Appenders \ outdated, at'[b] # "idle"
               PROVE  (/\ prev[b] = Head(log)
                       /\ Stamped(b) => \A e \in log : e.time < stamp[b])'
    BY <1>7 DEF PendingHeads, Stamp, Serial, Undamaged, Intact
  <2>1. Head(log)' = Head(log)
    BY <1>7 DEF Head
  <2> QED
    BY <1>2, <1>7, <1>8, <2>1 DEF PendingHeads
<1> QED
  BY <1>4, <1>5, <1>6, <1>9, <1>10

\* What a put adds: an event under a fresh id and a timestamp of its own.
LEMMA PutFacts ==
  ASSUME IInv, NEW a \in Appenders, Put(a)
  PROVE  \E new \in Event :
           /\ log' = log \cup {new}
           /\ new \notin log
           /\ new.id \notin lost
           /\ \A e \in log : e.id # new.id
           /\ new.prev = prev[a]
           /\ new.time = stamp[a]
           /\ new.intact
           /\ new.time <= clock
           /\ \A e \in log : e.time # new.time
<1>1. PICK i \in FreshIds : log' = log \cup {NewEvent(a, i)}
  BY DEF Put
<1> DEFINE new == NewEvent(a, i)
<1>2. i \in Ids /\ i \notin lost /\ \A e \in log : e.id # i
  BY DEF FreshIds
<1>3. Stamped(a)
  BY DEF Put, Stamped
<1>4. /\ stamp[a] \in 1 .. MaxStamps
      /\ stamp[a] <= clock
      /\ \A e \in log : e.time # stamp[a]
  <2>1. stamp[a] \in 1 .. clock /\ clock \in 0 .. MaxStamps
    BY <1>3 DEF IInv, TimesUnique, TypeOK
  <2> QED
    BY <1>3, <2>1, StampsAssumption DEF IInv, TimesUnique
<1>5. prev[a] \in Link
  BY DEF IInv, TypeOK
<1>6. new \in Event
  BY <1>2, <1>4, <1>5 DEF NewEvent, Event
<1>7. new.id = i /\ new.prev = prev[a] /\ new.time = stamp[a] /\ new.intact
  BY DEF NewEvent
<1>8. new \notin log
  BY <1>2, <1>7
<1> QED
  BY <1>1, <1>2, <1>4, <1>6, <1>7, <1>8

\* The event that is put links to what its caller has read.
LEMMA PutInv ==
  ASSUME IInv, NEW a \in Appenders, Put(a)
  PROVE  IInv'
<1>1. PICK new \in Event :
        /\ log' = log \cup {new}
        /\ new \notin log
        /\ new.id \notin lost
        /\ \A e \in log : e.id # new.id
        /\ new.prev = prev[a]
        /\ new.time = stamp[a]
        /\ new.intact
        /\ new.time <= clock
        /\ \A e \in log : e.time # new.time
  BY PutFacts
<1> USE DEF IInv
<1>2. at'[a] = "idle" /\ Stamped(a) /\ ~Stamped(a)'
  BY DEF TypeOK, Put, Stamped
<1>3. \A b \in Appenders : b # a => at'[b] = at[b] /\ (Stamped(b)' <=> Stamped(b))
  BY DEF TypeOK, Put, Stamped
<1>4. UNCHANGED <<lost, clock, prev, stamp>>
  BY DEF Put
<1>5. TypeOK'
  BY <1>1 DEF TypeOK, Put
<1>6. IsFiniteSet(log)' /\ Cardinality(log') = Cardinality(log) + 1
  BY <1>1, FS_AddElement
<1>7. IdsUnique'
  BY <1>1, <1>4 DEF IdsUnique
<1>8. \A e \in log : e.time \in Nat
  BY DEF TypeOK, Event
<1>9. TimesUnique'
  <2>1. \A e, f \in log' : e.time = f.time => e = f
    BY <1>1 DEF TimesUnique
  <2>2. \A e \in log' : e.time <= clock
    BY <1>1 DEF TimesUnique
  <2>3. \A b \in Appenders : Stamped(b)' => \A e \in log' : e.time # stamp[b]
    BY <1>1, <1>2, <1>3 DEF TimesUnique
  <2>4. \A b \in Appenders : Stamped(b)' => Stamped(b)
    BY <1>2, <1>3
  <2> QED
    BY <2>1, <2>2, <2>3, <2>4, <1>4 DEF TimesUnique
<1>10. LinksGoBack'
  <2>1. \/ new.prev = Genesis
        \/ new.prev \in lost
        \/ \E f \in log : f.id = new.prev /\ f.time < new.time
    BY <1>1, <1>2 DEF PendingLinksGoBack, Stamped
  <2> QED
    BY <2>1, <1>1, <1>4 DEF LinksGoBack
<1>11. PendingLinksGoBack'
  BY <1>1, <1>2, <1>3, <1>4 DEF PendingLinksGoBack
<1>12. PendingHeads'
  BY <1>2, <1>3 DEF PendingHeads, Put
<1>13. SerialAppendsVerify'
  <2> SUFFICES ASSUME Serial', Undamaged'
               PROVE  VerifyChain(log')
    BY DEF SerialAppendsVerify
  <2>1. Serial /\ a \notin outdated
    <3>1. Cardinality(log) \in Nat
      BY FS_CardinalityType
    <3>2. ~overlapped /\ a \notin outdated
      BY DEF Serial, Put, TypeOK
    <3>3. Cardinality(log') <= WindowSize
      BY DEF Serial
    <3> QED
      BY <3>1, <3>2, <3>3, <1>6, WindowAssumption DEF Serial
  <2>2. Undamaged
    BY <1>1, <1>4 DEF Undamaged, Intact
  <2>3. new.prev = Head(log) /\ \A e \in log : e.time < new.time
    BY <1>1, <1>2, <2>1, <2>2 DEF PendingHeads, Stamped
  <2>4. VerifyChain(log)
    BY <2>1, <2>2 DEF SerialAppendsVerify
  <2>5. new.time \in Nat
    BY DEF Event
  <2>6. Earlier(log', new) = log
    BY <1>1, <2>3, <2>5 DEF Earlier
  <2>7. \A e \in log : Earlier(log', e) = Earlier(log, e)
    BY <1>1, <1>8, <2>3, <2>5 DEF Earlier
  <2> QED
    BY <1>1, <2>3, <2>4, <2>6, <2>7 DEF VerifyChain
<1> QED
  BY <1>5, <1>6, <1>7, <1>9, <1>10, <1>11, <1>12, <1>13

\* A call that fails leaves the log alone.
LEMMA FailInv ==
  ASSUME IInv, NEW a \in Appenders, Fail(a)
  PROVE  IInv'
<1> USE DEF IInv
<1>1. at'[a] = "idle" /\ \A b \in Appenders : b # a => at'[b] = at[b]
  BY DEF TypeOK, Fail
<1>2. UNCHANGED <<log, lost, clock, prev, stamp, outdated, overlapped>>
  BY DEF Fail
<1>3. \A b \in Appenders : (Stamped(b)' => Stamped(b)) /\ (at'[b] # "idle" => at'[b] = at[b])
  BY <1>1 DEF Stamped
<1>4. TypeOK'
  BY DEF TypeOK, Fail
<1>5. IsFiniteSet(log)' /\ IdsUnique' /\ LinksGoBack' /\ SerialAppendsVerify'
  BY <1>2 DEF IdsUnique, LinksGoBack, SerialAppendsVerify, Serial, Undamaged, Intact
<1>6. TimesUnique'
  BY <1>2, <1>3 DEF TimesUnique
<1>7. PendingLinksGoBack'
  BY <1>2, <1>3 DEF PendingLinksGoBack
<1>8. PendingHeads'
  BY <1>2, <1>3 DEF PendingHeads, Serial, Undamaged, Intact
<1> QED
  BY <1>4, <1>5, <1>6, <1>7, <1>8

\* A lost event leaves the links of the others as they were.
LEMMA LoseEventInv ==
  ASSUME IInv, NEW gone \in log, LoseEvent(gone)
  PROVE  IInv'
<1> USE DEF IInv
<1>1. log' = log \ {gone} /\ lost' = lost \cup {gone.id}
  BY DEF LoseEvent
<1>2. UNCHANGED <<clock, at, prev, stamp, outdated, overlapped>>
  BY DEF LoseEvent, calls
<1>3. \A b \in Appenders : Stamped(b)' <=> Stamped(b)
  BY <1>2 DEF Stamped
<1>4. TypeOK'
  BY <1>1, <1>2 DEF TypeOK, Event
<1>5. IsFiniteSet(log)'
  BY <1>1, FS_RemoveElement
<1>6. IdsUnique'
  BY <1>1 DEF IdsUnique
<1>7. TimesUnique'
  BY <1>1, <1>2, <1>3 DEF TimesUnique
<1>8. LinksGoBack'
  BY <1>1 DEF LinksGoBack
<1>9. PendingLinksGoBack'
  BY <1>1, <1>2, <1>3 DEF PendingLinksGoBack
<1>10. ~Undamaged'
  BY <1>1 DEF Undamaged
<1>11. PendingHeads' /\ SerialAppendsVerify'
  BY <1>10 DEF PendingHeads, SerialAppendsVerify
<1> QED
  BY <1>4, <1>5, <1>6, <1>7, <1>8, <1>9, <1>11

\* An altered event keeps its place, and is recorded as altered.
LEMMA AlterEventInv ==
  ASSUME IInv, NEW old \in log, AlterEvent(old)
  PROVE  IInv'
<1> DEFINE new == [old EXCEPT !.intact = FALSE]
<1> USE DEF IInv
<1>1. old \in Event
  BY DEF TypeOK
<1>2. /\ new \in Event
      /\ new.id = old.id
      /\ new.prev = old.prev
      /\ new.time = old.time
      /\ ~new.intact
  BY <1>1 DEF Event
<1> HIDE DEF new
<1>3. log' = (log \ {old}) \cup {new}
  BY DEF AlterEvent, new
<1>4. UNCHANGED <<lost, clock, at, prev, stamp, outdated, overlapped>>
  BY DEF AlterEvent, calls
<1>5. \A b \in Appenders : Stamped(b)' <=> Stamped(b)
  BY <1>4 DEF Stamped
<1>6. TypeOK'
  BY <1>2, <1>3, <1>4 DEF TypeOK
<1>7. IsFiniteSet(log)'
  BY <1>3, FS_RemoveElement, FS_AddElement
<1>8. IdsUnique'
  BY <1>2, <1>3, <1>4 DEF IdsUnique
<1>9. TimesUnique'
  BY <1>2, <1>3, <1>4, <1>5 DEF TimesUnique
<1>10. LinksGoBack'
  BY <1>2, <1>3, <1>4 DEF LinksGoBack
<1>11. PendingLinksGoBack'
  BY <1>2, <1>3, <1>4, <1>5 DEF PendingLinksGoBack
<1>12. ~Undamaged'
  BY <1>2, <1>3 DEF Undamaged, Intact
<1>13. PendingHeads' /\ SerialAppendsVerify'
  BY <1>12 DEF PendingHeads, SerialAppendsVerify
<1> QED
  BY <1>6, <1>7, <1>8, <1>9, <1>10, <1>11, <1>13

\* The invariant is inductive: one step per action.
LEMMA NextInv == IInv /\ [Next]_vars => IInv'
<1> SUFFICES ASSUME IInv, [Next]_vars PROVE IInv'
  OBVIOUS
<1>1. ASSUME NEW a \in Appenders, Append(a) PROVE IInv'
  BY <1>1, ReadHeadInv, StampInv, PutInv, FailInv DEF Append
<1>2. ASSUME NEW e \in log, LoseEvent(e) \/ AlterEvent(e) PROVE IInv'
  BY <1>2, LoseEventInv, AlterEventInv
<1>3. CASE UNCHANGED vars
  BY <1>3 DEF vars, calls, IInv, TypeOK, IdsUnique, TimesUnique, Stamped, LinksGoBack,
     PendingLinksGoBack, PendingHeads, SerialAppendsVerify, Serial, Undamaged, Intact
<1> QED
  BY <1>1, <1>2, <1>3 DEF Next

\* The inductive invariant holds of every reachable state.
THEOREM Invariance == Spec => []IInv
<1>1. Init => IInv
  BY InitInv
<1>2. IInv /\ [Next]_vars => IInv'
  BY NextInv
<1> QED
  BY <1>1, <1>2, PTL DEF Spec

-----------------------------------------------------------------------------
(* What forks and damage do to verification *)

\* Events that verify have no fork: of two with one link, the later one links
\* to an event at least as late as the earlier of the two.
LEMMA VerifiedIsForkFree ==
  ASSUME IInv, NEW events \in SUBSET log, VerifyChain(events)
  PROVE  ForkFree(events)
<1>1. SUFFICES ASSUME NEW e \in events, NEW f \in events, e.prev = f.prev, e.time < f.time
               PROVE  FALSE
  <2>1. \A g \in events : g.time \in Int
    BY DEF IInv, TypeOK, Event
  <2>2. \A g, h \in events : g.time = h.time => g = h
    BY DEF IInv, TimesUnique
  <2> QED
    BY <1>1, <2>1, <2>2 DEF ForkFree
<1>2. ASSUME NEW g \in events, Earlier(events, g) # {}
      PROVE  /\ Latest(Earlier(events, g)) \in Earlier(events, g)
             /\ \A h \in Earlier(events, g) : h.time <= Latest(Earlier(events, g)).time
  <2>1. IsFiniteSet(Earlier(events, g))
    BY FS_Subset DEF IInv, Earlier
  <2>2. \A h \in Earlier(events, g) : h.time \in Int
    BY DEF IInv, TypeOK, Event, Earlier
  <2> QED
    BY <1>2, <2>1, <2>2, LatestIsLatest
<1> DEFINE l == Latest(Earlier(events, f))
<1>3. e \in Earlier(events, f)
  BY <1>1 DEF Earlier
<1>4. l \in events /\ e.time <= l.time /\ f.prev = l.id
  BY <1>2, <1>3 DEF VerifyChain, Head, Earlier
<1>5. l.id # Genesis
  BY <1>4, IdsAssumption DEF IInv, TypeOK, Event, Genesis
<1>6. Earlier(events, e) # {}
  BY <1>1, <1>4, <1>5 DEF VerifyChain, Head
<1> DEFINE k == Latest(Earlier(events, e))
<1>7. k \in events /\ k.time < e.time /\ e.prev = k.id
  BY <1>2, <1>6 DEF VerifyChain, Head, Earlier
<1>8. k = l
  BY <1>1, <1>4, <1>7 DEF IInv, IdsUnique
<1>9. k.time \in Int /\ e.time \in Int
  BY <1>7 DEF IInv, TypeOK, Event
<1> QED
  BY <1>4, <1>7, <1>8, <1>9

\* And every event that verifies links to another one of them.
LEMMA VerifiedIsSelfContained ==
  ASSUME IInv, NEW events \in SUBSET log, VerifyChain(events)
  PROVE  SelfContained(events)
<1> SUFFICES ASSUME NEW e \in events PROVE e.prev = Genesis \/ \E f \in events : f.id = e.prev
  BY DEF SelfContained
<1> DEFINE P == Earlier(events, e)
<1>1. e.prev = Head(P)
  BY DEF VerifyChain
<1>2. CASE P = {}
  BY <1>1, <1>2 DEF Head
<1>3. CASE P # {}
  <2>1. P \in SUBSET events
    BY DEF Earlier
  <2>2. IsFiniteSet(P)
    BY <2>1, FS_Subset DEF IInv
  <2>3. \A h \in P : h.time \in Int
    BY <2>1 DEF IInv, TypeOK, Event
  <2>4. Latest(P) \in P
    BY <1>3, <2>2, <2>3, LatestIsLatest
  <2>5. e.prev = Latest(P).id
    BY <1>1, <1>3 DEF Head
  <2> QED
    BY <2>1, <2>4, <2>5
<1> QED
  BY <1>2, <1>3

\* Undamaged events without a fork and without a missing predecessor verify:
\* the earliest one that does not would share its link with one before it.
LEMMA ForkFreeVerifies ==
  ASSUME IInv, Undamaged, NEW events \in SUBSET log, ForkFree(events), SelfContained(events)
  PROVE  VerifyChain(events)
<1> DEFINE Linked(e) == e.prev = Head(Earlier(events, e))
           Bad == {e \in events : ~Linked(e)}
<1>1. SUFFICES ASSUME Bad # {} PROVE FALSE
  BY DEF VerifyChain, Undamaged, Intact
<1>2. \A e \in events : e.time \in Int
  BY DEF IInv, TypeOK, Event
<1>3. \A e, f \in events : e.time = f.time => e = f
  BY DEF IInv, TimesUnique
<1>4. ASSUME NEW some \in SUBSET events, some # {}
      PROVE  \E e \in some : \A f \in some : e.time <= f.time
  <2>1. IsFiniteSet(some)
    BY FS_Subset DEF IInv
  <2> QED
    BY <1>2, <1>4, <2>1, EarliestExists
<1>5. PICK e \in Bad : \A f \in Bad : e.time <= f.time
  BY <1>1, <1>4
<1> DEFINE P == Earlier(events, e)
<1>6. \A g \in P : g \in events /\ g.time < e.time /\ Linked(g)
  BY <1>2, <1>5 DEF Earlier
<1>7. CASE e.prev = Genesis
  <2>1. P # {}
    BY <1>5, <1>7 DEF Head
  <2>2. PICK g \in P : \A h \in P : g.time <= h.time
    BY <1>4, <2>1 DEF Earlier
  <2>3. Earlier(events, g) = {}
    BY <1>2, <1>5, <1>6, <2>2 DEF Earlier
  <2>4. g.prev = Genesis
    BY <1>6, <2>2, <2>3 DEF Head
  <2>5. g # e
    BY <1>2, <1>6, <2>2
  <2> QED
    BY <1>5, <1>6, <1>7, <2>2, <2>4, <2>5 DEF ForkFree
<1>8. CASE \E f \in events : f.id = e.prev /\ f.time < e.time
  <2>1. PICK f \in events : f.id = e.prev /\ f.time < e.time
    BY <1>8
  <2>2. f \in P
    BY <2>1 DEF Earlier
  <2> DEFINE Q == {h \in P : f.time < h.time}
  <2>3. Q # {}
    <3>1. SUFFICES ASSUME Q = {} PROVE FALSE
      OBVIOUS
    <3>2. \A h \in P : h \in events /\ h.time \in Int /\ (h # f => h.time < f.time)
      BY <1>2, <1>3, <1>6, <3>1, <2>1
    <3>3. Latest(P) = f
      BY <2>2, <3>2, TheLatest
    <3> QED
      BY <1>5, <2>1, <2>2, <3>3 DEF Head
  <2>4. PICK g \in Q : \A h \in Q : g.time <= h.time
    <3>1. Q \in SUBSET events
      BY <1>6
    <3> QED
      BY <1>4, <2>3, <3>1
  <2>5. g \in P /\ g \in events /\ f.time < g.time /\ g.time < e.time
    BY <1>6, <2>4
  <2>6. f \in Earlier(events, g)
    BY <2>1, <2>5 DEF Earlier
  <2>7. \A h \in Earlier(events, g) : h.time \in Int /\ (h # f => h.time < f.time)
    <3> SUFFICES ASSUME NEW h \in Earlier(events, g)
                 PROVE  h.time \in Int /\ (h # f => h.time < f.time)
      OBVIOUS
    <3>1. h \in events /\ h.time < g.time /\ h.time \in Int
      BY <1>2 DEF Earlier
    <3>2. h \in P
      BY <1>2, <1>5, <2>5, <3>1 DEF Earlier
    <3>3. ~(f.time < h.time)
      BY <1>2, <2>4, <2>5, <3>1, <3>2
    <3> QED
      BY <1>2, <1>3, <2>1, <3>1, <3>3
  <2>8. f.time \in Int
    BY <1>2, <2>1
  <2>9. Latest(Earlier(events, g)) = f
    BY <2>6, <2>7, <2>8, TheLatest
  <2>10. g.prev = f.id
    BY <1>6, <2>5, <2>6, <2>9 DEF Head
  <2>11. g # e
    BY <1>2, <1>5, <2>5
  <2> QED
    BY <1>5, <2>1, <2>5, <2>10, <2>11 DEF ForkFree
<1> QED
  <2>1. e \in log
    BY <1>5
  <2>2. ASSUME e.prev # Genesis PROVE \E f \in events : f.id = e.prev /\ f.time < e.time
    <3>1. PICK f \in events : f.id = e.prev
      BY <1>5, <2>2 DEF SelfContained
    <3>2. PICK g \in log : g.id = e.prev /\ g.time < e.time
      BY <2>1, <2>2 DEF IInv, LinksGoBack, Undamaged
    <3>3. g = f
      BY <3>1, <3>2 DEF IInv, IdsUnique
    <3> QED
      BY <3>1, <3>2, <3>3
  <2> QED
    BY <1>7, <1>8, <2>2

\* A report holds events of the log.
LEMMA ReportsAreOfTheLog ==
  ASSUME NEW from, NEW to
  PROVE  Reports(from, to) \subseteq SUBSET log
<1>1. EventsBetween(from, to) \subseteq log
  BY DEF EventsBetween
<1> QED
  BY <1>1, AnswersAreFound DEF Reports

\* An event that was altered does not recompute, and one that links to a lost
\* event links to no event of any report.
LEMMA DamageShows == IInv => DamageIsEvident
<1> SUFFICES ASSUME IInv, NEW events \in SUBSET log, VerifyChain(events),
                    NEW e \in events, ~e.intact \/ e.prev \in lost
             PROVE  FALSE
  BY ReportsAreOfTheLog DEF DamageIsEvident
<1>1. CASE ~e.intact
  BY <1>1 DEF VerifyChain
<1>2. CASE e.prev \in lost
  <2>1. e.prev = Head(Earlier(events, e))
    BY DEF VerifyChain
  <2>2. Earlier(events, e) \in SUBSET log
    BY DEF Earlier
  <2>3. Head(Earlier(events, e)) = Genesis \/ \E f \in log : f.id = Head(Earlier(events, e))
    BY <2>2, HeadOfView
  <2>4. Genesis \notin lost
    BY IdsAssumption DEF IInv, TypeOK, Genesis
  <2> QED
    BY <1>2, <2>1, <2>3, <2>4 DEF IInv, IdsUnique
<1> QED
  BY <1>1, <1>2

-----------------------------------------------------------------------------
(* The theorems *)

\* Events, calls and histories are always well formed.
THEOREM TypeCorrect == Spec => []TypeOK
<1>1. IInv => TypeOK
  BY DEF IInv
<1> QED
  BY <1>1, Invariance, PTL

\* However appends overlap, every event links to one stamped before it.
THEOREM Backwards == Spec => []LinksGoBack
<1>1. IInv => LinksGoBack
  BY DEF IInv
<1> QED
  BY <1>1, Invariance, PTL

\* Appends that do not overlap and see the whole log build a chain that
\* verify_chain accepts.
THEOREM SerialVerifies == Spec => []SerialAppendsVerify
<1>1. IInv => SerialAppendsVerify
  BY DEF IInv
<1> QED
  BY <1>1, Invariance, PTL

\* Undamaged, a report, of the log or of a period, whole or cut off by the
\* limit, verifies exactly when it has no fork and every predecessor is in it.
THEOREM ForksAndCutsAreTheOnlyCauses == Spec => []OnlyForksAndCutsBreakIt
<1>1. ASSUME IInv, Undamaged, NEW events \in SUBSET log
      PROVE  VerifyChain(events) <=> ForkFree(events) /\ SelfContained(events)
  BY <1>1, VerifiedIsForkFree, VerifiedIsSelfContained, ForkFreeVerifies
<1>2. IInv => OnlyForksAndCutsBreakIt
  BY <1>1, ReportsAreOfTheLog DEF OnlyForksAndCutsBreakIt
<1> QED
  BY <1>2, Invariance, PTL

\* A changed event, and one with a lost predecessor, fail every report they are in.
THEOREM DamageIsFound == Spec => []DamageIsEvident
<1>1. IInv => DamageIsEvident
  BY DamageShows
<1> QED
  BY <1>1, Invariance, PTL
=============================================================================
