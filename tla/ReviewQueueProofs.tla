-------------------------- MODULE ReviewQueueProofs -------------------------
(***************************************************************************)
(* What the cached review queue guarantees for every set of files,         *)
(* analyses, decisions, requests and keys, and every cache_ttl_seconds.    *)
(***************************************************************************)
EXTENDS ReviewQueue, TLAPS

-----------------------------------------------------------------------------
(* The inductive invariant *)

Writers == Analyses \cup Decisions

Types ==
  /\ TypeOK
  /\ written \subseteq Analyses /\ decided \subseteq Decisions

\* A request that has its documents either shows a decision or is late for it.
ListsInv ==
  \A l \in Lists :
    /\ list[l].at # "idle" => list[l].key \in Keys
    /\ list[l].at = "fetching" => list[l].late = {}
    /\ list[l].at = "statuses" =>
         /\ list[l].seen \subseteq written \cup decided
         /\ list[l].late = decided \ list[l].seen

\* An entry is late for the decisions it lacks, those that are yet to sweep it
\* away, or failed to, apart.
Unswept(d) == d \in decided /\ post[d] # "answered"

EntriesInv ==
  \A k \in Keys : Cached(k) =>
    \A d \in decided : d \notin cache[k].seen => d \in cache[k].late \/ Unswept(d)

\* Only a decision that was written is swept for.
PostsInv ==
  \A d \in Decisions :
    /\ post[d] = "new" => d \notin decided
    /\ post[d] \in {"written", "answered", "unswept"} => d \in decided

IInv == Types /\ ListsInv /\ EntriesInv /\ PostsInv

USE DEF Writers

\* Nothing is cached or asked for before the first step.
LEMMA InitInv == Init => IInv
<1> SUFFICES ASSUME Init PROVE IInv
  OBVIOUS
<1> USE DEF Init, Ledger!Init, Idle, NoEntry
<1>1. Types
  BY TTLAssumption, ReviewersAssumption DEF Types, TypeOK, Entry, Request
<1>2. ListsInv /\ PostsInv
  BY DEF ListsInv, PostsInv
<1>3. EntriesInv
  BY DEF EntriesInv, Cached
<1> QED
  BY <1>1, <1>2, <1>3 DEF IInv

\* A list request moves, and what it returns comes from the cache or goes there.
LEMMA ListKeeps ==
  ASSUME IInv, NEW l \in Lists, NEW k \in Keys,
         ServeCached(l, k) \/ Miss(l, k) \/ Fetch(l) \/ Store(l) \/ GiveUp(l)
  PROVE  IInv'
<1> USE DEF IInv
<1>1. UNCHANGED <<docs, written, decided, post>>
  BY DEF ServeCached, Miss, Fetch, Store, GiveUp
<1>2. Idle \in Request /\ list[l] \in Request /\ Idle.at = "idle" /\ Idle.late = {}
  BY DEF Idle, Request, Types, TypeOK
<1>3. PICK r \in Request :
        /\ list' = [list EXCEPT ![l] = r]
        /\ r.at # "idle" => r.key \in Keys
        /\ r.at = "fetching" => r.late = {}
        /\ r.at = "statuses" => r.seen \subseteq written \cup decided /\ r.late = decided \ r.seen
  <2>1. CASE ServeCached(l, k)
    BY <1>2, <2>1 DEF ServeCached, Types, TypeOK, ListsInv
  <2>2. CASE Miss(l, k)
    <3> DEFINE r == [Idle EXCEPT !.at = "fetching", !.key = k]
    <3>1. r \in Request /\ r.at = "fetching" /\ r.key = k /\ r.late = {}
      BY <1>2 DEF Request
    <3> QED
      BY <2>2, <3>1 DEF Miss
  <2>3. CASE Fetch(l)
    <3> DEFINE seen == written \cup decided
               r == [list[l] EXCEPT !.at = "statuses", !.seen = seen]
    <3>1. seen \subseteq Writers /\ list[l].late = {} /\ list[l].key \in Keys
      BY <2>3 DEF Fetch, Types, ListsInv
    <3> HIDE DEF seen
    <3>2. r \in Request /\ r.at = "statuses" /\ r.key = list[l].key /\ r.late = {} /\ r.seen = seen
      BY <1>2, <3>1 DEF Request
    <3>3. list' = [list EXCEPT ![l] = r]
      BY <2>3 DEF Fetch, Types, TypeOK, seen
    <3> HIDE DEF r
    <3> QED
      BY <3>1, <3>2, <3>3 DEF seen
  <2>4. CASE Store(l) \/ GiveUp(l)
    BY <1>2, <2>4 DEF Store, GiveUp
  <2> QED
    BY <2>1, <2>2, <2>3, <2>4
<1>4. /\ list' \in [Lists -> Request]
      /\ list'[l] = r
      /\ \A m \in Lists : m # l => list'[m] = list[m]
  BY <1>3 DEF Types, TypeOK
<1>5. ListsInv'
  BY <1>1, <1>3, <1>4 DEF ListsInv
<1>6. \/ cache' = cache
      \/ /\ list[l].at = "statuses" /\ list[l].key \in Keys
         /\ cache' = [cache EXCEPT ![list[l].key] = Stored(list[l])]
  BY DEF ServeCached, Miss, Fetch, Store, GiveUp, AfterHit, Types, TypeOK, ListsInv
<1>7. list[l].at = "statuses" =>
        /\ Stored(list[l]) \in Entry
        /\ Stored(list[l]).seen \subseteq written \cup decided
        /\ Stored(list[l]).late = decided \ Stored(list[l]).seen
  BY <1>2, TTLAssumption DEF ListsInv, Stored, Entry, Request
<1>8. Types'
  BY <1>1, <1>4, <1>6, <1>7 DEF Types, TypeOK
<1>9. EntriesInv'
  BY <1>1, <1>6, <1>7 DEF EntriesInv, Unswept, Cached, Types, TypeOK
<1>10. PostsInv'
  BY <1>1 DEF PostsInv
<1> QED
  BY <1>5, <1>8, <1>9, <1>10

\* A decision is written: the lists under way are late for it, and no entry
\* shows it, which it is still to sweep away.
LEMMA PostKeeps ==
  ASSUME IInv, NEW d \in Decisions, Post(d)
  PROVE  IInv'
<1> USE DEF IInv
<1>1. /\ post[d] = "new" /\ d \notin decided /\ decided' = decided \cup {d}
      /\ written' = written /\ cache' = cache
      /\ d \notin written
  BY ReviewersAssumption DEF Post, Ledger!Decide, Types
<1>2. /\ post' \in [Decisions -> {"new", "written", "answered", "unswept", "error"}]
      /\ post'[d] \in {"written", "error"}
      /\ \A e \in Decisions : e # d => post'[e] = post[e]
  BY DEF Post, Types, TypeOK
<1>3. ASSUME NEW l \in Lists
      PROVE  /\ list'[l] \in Request
             /\ list'[l].at = list[l].at /\ list'[l].key = list[l].key
             /\ list'[l].seen = list[l].seen
             /\ list'[l].late = IF list[l].at = "statuses" THEN list[l].late \cup {d}
                                ELSE list[l].late
  <2>1. list[l] \in Request /\ list[l].late \cup {d} \in SUBSET Decisions
    BY DEF Types, TypeOK, Request
  <2>2. list'[l] = IF list[l].at = "statuses"
                   THEN [list[l] EXCEPT !.late = list[l].late \cup {d}] ELSE list[l]
    BY DEF Post, MakeLate
  <2> QED
    BY <2>1, <2>2 DEF Request
<1>4. list' \in [Lists -> Request]
  BY <1>3 DEF Post, MakeLate
<1>5. ListsInv'
  BY <1>1, <1>3 DEF ListsInv
<1>6. PostsInv'
  BY <1>1, <1>2 DEF PostsInv
<1>7. EntriesInv'
  BY <1>1, <1>2 DEF EntriesInv, Unswept, Cached, Types
<1>8. Types'
  <2>1. \A k \in Keys : /\ cache'[k].seen \subseteq written' \cup decided'
                        /\ cache'[k].late \subseteq decided' \ cache'[k].seen
    BY <1>1 DEF Types, TypeOK
  <2>2. \A e \in Decisions : post'[e] \in {"written", "answered", "unswept"} => e \in decided'
    BY <1>6 DEF PostsInv
  <2> QED
    BY <1>1, <1>2, <1>4, <2>1, <2>2 DEF Types, TypeOK
<1> QED
  BY <1>5, <1>6, <1>7, <1>8

\* A decision's request ends, and the entries it reaches are swept away: all of
\* them, if Redis does its part.
LEMMA SweepKeeps ==
  ASSUME IInv, NEW d \in Decisions, PostRefused(d) \/ Invalidate(d) \/ InvalidateInPart(d)
  PROVE  IInv'
<1> USE DEF IInv
<1>1. UNCHANGED <<docs, written, decided, list>>
  BY DEF PostRefused, Invalidate, InvalidateInPart
<1>2. NoEntry \in Entry /\ NoEntry.seen = {} /\ NoEntry.late = {} /\ NoEntry.left = 0
  BY TTLAssumption DEF NoEntry, Entry
<1>3. /\ cache' \in [Keys -> Entry]
      /\ \A k \in Keys : cache'[k] = cache[k] \/ cache'[k] = NoEntry
      /\ Invalidate(d) => \A k \in Keys : cache'[k] = NoEntry
  BY <1>2 DEF PostRefused, Invalidate, InvalidateInPart, Drop, Scanned, Types, TypeOK
<1>4. /\ post' \in [Decisions -> {"new", "written", "answered", "unswept", "error"}]
      /\ \/ post[d] = "new" /\ post'[d] = "error"
         \/ post[d] = "written" /\ post'[d] = "answered" /\ Invalidate(d)
         \/ post[d] = "written" /\ post'[d] = "unswept"
      /\ \A e \in Decisions : e # d => post'[e] = post[e]
  BY DEF PostRefused, Invalidate, InvalidateInPart, Types, TypeOK
<1>5. PostsInv'
  BY <1>1, <1>4 DEF PostsInv
<1>6. EntriesInv'
  BY <1>1, <1>2, <1>3, <1>4 DEF EntriesInv, Unswept, Cached, Types
<1>7. ListsInv'
  BY <1>1 DEF ListsInv
<1>8. Types'
  <2>1. \A k \in Keys : /\ cache'[k].seen \subseteq written \cup decided
                        /\ cache'[k].late \subseteq decided \ cache'[k].seen
    BY <1>2, <1>3 DEF Types, TypeOK
  <2>2. \A e \in Decisions : post'[e] \in {"written", "answered", "unswept"} => e \in decided
    BY <1>1, <1>5 DEF PostsInv
  <2> QED
    BY <1>1, <1>3, <1>4, <2>1, <2>2 DEF Types, TypeOK
<1> QED
  BY <1>5, <1>6, <1>7, <1>8

\* An analysis writes a recommendation, and nobody tells the cache.
LEMMA AnalyseKeeps ==
  ASSUME IInv, NEW a \in Analyses, Analyse(a)
  PROVE  IInv'
<1> USE DEF IInv
<1>1. /\ written' = written \cup {a}
      /\ UNCHANGED <<decided, cache, list, post>>
  BY DEF Analyse, Ledger!Analyse
<1>2. Types'
  BY <1>1 DEF Types, TypeOK
<1>3. ListsInv' /\ PostsInv'
  BY <1>1 DEF ListsInv, PostsInv
<1>4. EntriesInv'
  BY <1>1 DEF EntriesInv, Unswept, Cached
<1> QED
  BY <1>2, <1>3, <1>4

\* A tick only ends entries.
LEMMA TickKeeps ==
  ASSUME IInv, Tick
  PROVE  IInv'
<1> USE DEF IInv
<1>1. UNCHANGED <<docs, written, decided, list, post>>
  BY DEF Tick
<1>2. ASSUME NEW k \in Keys
      PROVE  /\ cache'[k] \in Entry
             /\ \/ cache'[k] = NoEntry
                \/ cache'[k].seen = cache[k].seen /\ cache'[k].late = cache[k].late /\ Cached(k)
  <2>1. cache[k] \in Entry /\ cache'[k] = Aged(cache[k]) /\ cache[k].left \in Nat
    BY TTLAssumption DEF Tick, Types, TypeOK, Entry
  <2>2. CASE cache[k].left <= 1
    BY <2>1, <2>2, TTLAssumption DEF Aged, NoEntry, Entry
  <2>3. CASE ~(cache[k].left <= 1)
    <3> DEFINE new == [cache[k] EXCEPT !.left = cache[k].left - 1]
    <3>1. cache'[k] = new
      BY <2>1, <2>3 DEF Aged
    <3>2. cache[k].left - 1 \in 0 .. TTL
      BY <2>1, <2>3, TTLAssumption DEF Entry
    <3>3. new \in Entry /\ new.seen = cache[k].seen /\ new.late = cache[k].late
      BY <2>1, <3>2 DEF Entry
    <3> QED
      BY <2>1, <2>3, <3>1, <3>3 DEF Cached
  <2> QED
    BY <2>2, <2>3
<1>3. NoEntry.seen = {} /\ NoEntry.late = {} /\ NoEntry.left = 0
  BY DEF NoEntry
<1>4. cache' \in [Keys -> Entry]
  BY <1>2 DEF Tick
<1>5. Types'
  <2>1. \A k \in Keys : /\ cache'[k].seen \subseteq written \cup decided
                        /\ cache'[k].late \subseteq decided \ cache'[k].seen
    BY <1>2, <1>3 DEF Types, TypeOK
  <2> QED
    BY <1>1, <1>4, <2>1 DEF Types, TypeOK
<1>6. EntriesInv'
  BY <1>1, <1>2, <1>3 DEF EntriesInv, Unswept, Cached
<1>7. ListsInv' /\ PostsInv'
  BY <1>1 DEF ListsInv, PostsInv
<1> QED
  BY <1>5, <1>6, <1>7

\* A step of the specification, or a stuttering step.
LEMMA NextInv == IInv /\ [Next]_vars => IInv'
<1> SUFFICES ASSUME IInv, [Next]_vars
             PROVE  IInv'
  OBVIOUS
<1>1. CASE UNCHANGED vars
  BY <1>1 DEF vars, IInv, Types, TypeOK, ListsInv, EntriesInv, PostsInv, Unswept, Cached
<1>2. ASSUME NEW l \in Lists, Fetch(l) \/ Store(l) \/ GiveUp(l)
      PROVE  IInv'
  <2>1. list[l].key \in Keys
    BY <1>2 DEF Fetch, Store, GiveUp, IInv, ListsInv
  <2> QED
    BY <1>2, <2>1, ListKeeps
<1> QED
  BY <1>1, <1>2, ListKeeps, PostKeeps, SweepKeeps, AnalyseKeeps, TickKeeps DEF Next

-----------------------------------------------------------------------------
(* The theorems *)

\* The inductive invariant holds of every reachable state.
THEOREM Invariance == Spec => []IInv
<1>1. Init => IInv
  BY InitInv
<1>2. IInv /\ [Next]_vars => IInv'
  BY NextInv
<1> QED
  BY <1>1, <1>2, PTL DEF Spec

\* Entries and requests stay well formed, no entry outlives cache_ttl_seconds,
\* and it is late only for decisions it does not show.
THEOREM TypeCorrect == Spec => []TypeOK
<1>1. IInv => TypeOK
  BY DEF IInv, Types
<1> QED
  BY <1>1, Invariance, PTL

\* Once a decision is answered and its sweep went through, a list that does not
\* show it was queried before the decision and stored afterwards.
THEOREM Staleness == Spec => []StaleEntriesAreLate
<1>1. IInv => StaleEntriesAreLate
  BY DEF IInv, EntriesInv, PostsInv, Unswept, StaleEntriesAreLate
<1> QED
  BY <1>1, Invariance, PTL

-----------------------------------------------------------------------------
(* Aging: the safety core of StaleListsEnd *)

\* A request read its documents before x was written, an entry does not show x.
Behind(l, x) == list[l].at = "statuses" /\ x \notin list[l].seen
Stale(k, x) == Cached(k) /\ x \notin cache[k].seen

Ages(x) ==
  x \in written \cup decided =>
    /\ \A l \in Lists : Behind(l, x)' => Behind(l, x)
    /\ \A k \in Keys : Stale(k, x)' =>
         \/ /\ Stale(k, x) /\ cache'[k].left <= cache[k].left
            /\ Tick => cache'[k].left < cache[k].left
         \/ \E l \in Lists : list[l].key = k /\ Behind(l, x) /\ ~Behind(l, x)'

\* No step makes a request fall behind a write that is already made: it stays
\* as it is, starts anew, or reads the documents as they are.
LEMMA ListsCatchUp ==
  ASSUME IInv, Next, NEW x \in written \cup decided, NEW l \in Lists, Behind(l, x)'
  PROVE  Behind(l, x)
<1> USE DEF IInv, Behind
<1>1. list \in [Lists -> Request]
  BY DEF Types, TypeOK
<1>2. ASSUME NEW m \in Lists, NEW k \in Keys, ServeCached(m, k) \/ Miss(m, k)
      PROVE  Behind(l, x)
  BY <1>1, <1>2 DEF ServeCached, Miss, Idle
<1>3. ASSUME NEW m \in Lists, Fetch(m)
      PROVE  Behind(l, x)
  <2>1. l # m
    <3>1. list'[m].seen = written \cup decided
      BY <1>1, <1>3 DEF Fetch, Request
    <3> QED
      BY <3>1
  <2> QED
    BY <1>1, <1>3, <2>1 DEF Fetch
<1>4. ASSUME NEW m \in Lists, Store(m) \/ GiveUp(m)
      PROVE  Behind(l, x)
  BY <1>1, <1>4 DEF Store, GiveUp, Idle
<1>5. ASSUME NEW d \in Decisions, Post(d)
      PROVE  Behind(l, x)
  <2>1. list'[l].at = list[l].at /\ list'[l].seen = list[l].seen
    BY <1>1, <1>5 DEF Post, MakeLate, Request
  <2> QED
    BY <2>1
<1>6. ASSUME UNCHANGED list
      PROVE  Behind(l, x)
  BY <1>6
<1> QED
  BY <1>2, <1>3, <1>4, <1>5, <1>6
     DEF Next, PostRefused, Invalidate, InvalidateInPart, Analyse, Tick

\* A tick leaves no entry as long to live as it had.
LEMMA TicksCount ==
  ASSUME IInv, Tick, NEW x, NEW k \in Keys, Stale(k, x)'
  PROVE  Stale(k, x) /\ cache'[k].left < cache[k].left
<1>1. /\ cache[k] \in Entry /\ cache[k].left \in Nat
      /\ cache'[k] = Aged(cache[k])
  BY TTLAssumption DEF IInv, Types, TypeOK, Entry, Tick
<1>2. ~(cache[k].left <= 1)
  BY <1>1 DEF Stale, Cached, Aged, NoEntry
<1>3. cache'[k] = [cache[k] EXCEPT !.left = cache[k].left - 1]
  BY <1>1, <1>2 DEF Aged
<1>4. cache'[k].seen = cache[k].seen /\ cache'[k].left = cache[k].left - 1
  BY <1>1, <1>3 DEF Entry
<1> QED
  BY <1>1, <1>2, <1>4 DEF Stale, Cached

\* Any other step leaves an entry alone, ends it, or stores what a request
\* has read: nothing gives a stale entry more time, but a request that is
\* itself behind, and that ends by it.
LEMMA EntriesCatchUp ==
  ASSUME IInv, Next, ~Tick, NEW x \in written \cup decided, NEW k \in Keys, Stale(k, x)'
  PROVE  \/ Stale(k, x) /\ cache'[k].left <= cache[k].left
         \/ \E l \in Lists : list[l].key = k /\ Behind(l, x) /\ ~Behind(l, x)'
<1> USE DEF IInv
<1>1. /\ cache \in [Keys -> Entry] /\ list \in [Lists -> Request]
      /\ cache[k].left \in Nat
  BY TTLAssumption DEF Types, TypeOK, Entry
<1>2. ASSUME cache'[k] = cache[k]
      PROVE  Stale(k, x) /\ cache'[k].left <= cache[k].left
  BY <1>1, <1>2 DEF Stale, Cached
<1>3. ASSUME NEW l \in Lists, Store(l), list[l].key = k
      PROVE  list[l].key = k /\ Behind(l, x) /\ ~Behind(l, x)'
  <2>1. cache'[k].seen = list[l].seen /\ list'[l].at = "idle"
    BY <1>1, <1>3 DEF Store, Stored, Idle
  <2> QED
    BY <1>3, <2>1 DEF Stale, Behind, Store
<1>4. ASSUME NEW l \in Lists, Store(l), list[l].key # k
      PROVE  cache'[k] = cache[k]
  BY <1>1, <1>4 DEF Store
<1>5. ASSUME NEW d \in Decisions, Invalidate(d) \/ InvalidateInPart(d)
      PROVE  cache'[k] = cache[k]
  <2>1. cache'[k] = cache[k] \/ cache'[k] = NoEntry
    BY <1>1, <1>5 DEF Invalidate, InvalidateInPart, Drop
  <2> QED
    BY <2>1 DEF Stale, Cached, NoEntry
<1>6. ASSUME NEW l \in Lists, NEW q \in Keys, ServeCached(l, q) \/ Miss(l, q)
      PROVE  cache'[k] = cache[k]
  BY <1>1, <1>6 DEF ServeCached, Miss, AfterHit
<1>7. ASSUME UNCHANGED cache
      PROVE  cache'[k] = cache[k]
  BY <1>7
<1> QED
  BY <1>2, <1>3, <1>4, <1>5, <1>6, <1>7
     DEF Next, Fetch, GiveUp, Post, PostRefused, Analyse

\* Once x is written, no request falls behind it any more, and no step gives an
\* entry that lacks it more time, whoever asks for it, but the store that ends
\* a request behind it; each tick takes one from its life.  The requests behind
\* x are as many as there were when it was written, so stale entries end when
\* requests end and time passes.
THEOREM Aging == Spec => [][\A x \in Analyses \cup Decisions : Ages(x)]_vars
<1>1. ASSUME IInv, Next, NEW x \in Analyses \cup Decisions
      PROVE  Ages(x)
  <2>1. ASSUME Tick, NEW k \in Keys
        PROVE  cache[k].left \in Nat /\ (cache'[k].left < cache[k].left
                                           => cache'[k].left <= cache[k].left)
    <3>1. cache[k] \in Entry /\ cache'[k] = Aged(cache[k])
      BY <1>1, <2>1 DEF IInv, Types, TypeOK, Tick
    <3>2. Aged(cache[k]).left \in Nat /\ cache[k].left \in Nat
      BY <3>1, TTLAssumption DEF Aged, NoEntry, Entry
    <3> QED
      BY <3>1, <3>2
  <2>2. CASE Tick
    BY <1>1, <2>1, <2>2, ListsCatchUp, TicksCount DEF Ages
  <2>3. CASE ~Tick
    BY <1>1, <2>3, ListsCatchUp, EntriesCatchUp DEF Ages
  <2> QED
    BY <2>2, <2>3
<1>2. IInv /\ [Next]_vars => [\A x \in Analyses \cup Decisions : Ages(x)]_vars
  BY <1>1
<1> QED
  BY <1>2, Invariance, PTL DEF Spec
=============================================================================
