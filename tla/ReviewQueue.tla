---------------------------- MODULE ReviewQueue -----------------------------
(***************************************************************************)
(* The review queue of review_bff: lists of recommendations that are kept  *)
(* in Redis for a few seconds, over the recommendations of ReviewLedger.   *)
(* A decision that went through deletes the lists of its project.          *)
(*                                                                         *)
(* The BFF is one process with one event loop, and its Redis client does   *)
(* not await: what a handler does between two awaits is one step.  Redis   *)
(* may fail any call, and every such failure is swallowed.                 *)
(***************************************************************************)
EXTENDS Naturals, FiniteSets

CONSTANTS
  Files, Analyses, Decisions, FileOf, Earlier, Nobody,  \* of ReviewLedger
  Lists,  \* GET /bff/review-items, one request at a time each
  Keys,   \* "review-items:PROJECT:STATUS", of one project
  TTL     \* cache_ttl_seconds, in ticks

ASSUME ReviewersAssumption ==
  Analyses \cap Decisions = {} /\ Nobody \notin Analyses /\ Earlier \subseteq Analyses
ASSUME TTLAssumption == TTL \in Nat \ {0}

VARIABLES
  docs, written, decided,  \* the recommendations
  cache,  \* the entry of every key; left = 0: none
  list,   \* what every list request is doing
  post    \* what has become of a decision's request

vars == <<docs, written, decided, cache, list, post>>

Ledger == INSTANCE ReviewLedger

\* A list is known by the writes it reflects; late are the decisions made
\* after its query and before it was stored.
Entry == [seen: SUBSET (Analyses \cup Decisions), late: SUBSET Decisions, left: 0..TTL]
NoEntry == [seen |-> {}, late |-> {}, left |-> 0]
Request ==
  [at: {"idle", "fetching", "statuses"}, key: Keys \cup {"none"},
   seen: SUBSET (Analyses \cup Decisions), late: SUBSET Decisions]
Idle == [at |-> "idle", key |-> "none", seen |-> {}, late |-> {}]

Cached(k) == cache[k].left > 0

-----------------------------------------------------------------------------
(* list_review_items *)

\* Mutant: a hit extends the entry's life.
Sliding(entry) == [entry EXCEPT !.left = TTL]
AfterHit(entry) == entry

\* A hit is the answer.
ServeCached(l, k) ==
  /\ list[l].at = "idle"
  /\ Cached(k)
  /\ cache' = [cache EXCEPT ![k] = AfterHit(@)]
  /\ UNCHANGED <<docs, written, decided, list, post>>

\* On a miss, or a Redis error, the recommendation service is asked ...
Miss(l, k) ==
  /\ list[l].at = "idle"
  /\ list' = [list EXCEPT ![l] = [Idle EXCEPT !.at = "fetching", !.key = k]]
  /\ UNCHANGED <<docs, written, decided, cache, post>>

\* ... which reads the documents ...
Fetch(l) ==
  /\ list[l].at = "fetching"
  /\ list' = [list EXCEPT ![l].at = "statuses", ![l].seen = written \cup decided]
  /\ UNCHANGED <<docs, written, decided, cache, post>>

\* Mutant: an entry lives longer than the setting says.
StoredLonger(r) == [seen |-> r.seen, late |-> r.late, left |-> TTL + 1]
Stored(r) == [seen |-> r.seen, late |-> r.late, left |-> TTL]

\* ... then the status of each job, and the result is stored and returned.
Store(l) ==
  /\ list[l].at = "statuses"
  /\ cache' = [cache EXCEPT ![list[l].key] = Stored(list[l])]
  /\ list' = [list EXCEPT ![l] = Idle]
  /\ UNCHANGED <<docs, written, decided, post>>

\* A service that fails or times out ends the request, a Redis that fails
\* only leaves the list out of the cache.
GiveUp(l) ==
  /\ list[l].at # "idle"
  /\ list' = [list EXCEPT ![l] = Idle]
  /\ UNCHANGED <<docs, written, decided, cache, post>>

-----------------------------------------------------------------------------
(* record_decision, and the analyses that write recommendations *)

MakeLate(d) ==
  list' = [l \in Lists |->
    IF list[l].at = "statuses" THEN [list[l] EXCEPT !.late = @ \cup {d}] ELSE list[l]]

\* recommendation_service has the decision written.  Its answer may be an
\* error nevertheless, and then the cache is left alone.
Post(d) ==
  /\ post[d] = "new"
  /\ Ledger!Decide(d)
  /\ MakeLate(d)
  /\ \E answer \in {"written", "error"} : post' = [post EXCEPT ![d] = answer]
  /\ UNCHANGED cache

PostRefused(d) ==
  /\ post[d] = "new"
  /\ post' = [post EXCEPT ![d] = "error"]
  /\ UNCHANGED <<docs, written, decided, cache, list>>

\* Mutant: only the list of everything is deleted.
OnlyAll(d) == {"all"}

\* scan_iter(match="review-items:PROJECT:*")
Scanned(d) == Keys

Drop(keys) == cache' = [k \in Keys |-> IF k \in keys THEN NoEntry ELSE cache[k]]

\* invalidate
Invalidate(d) ==
  /\ post[d] = "written"
  /\ Drop(Scanned(d))
  /\ post' = [post EXCEPT ![d] = "answered"]
  /\ UNCHANGED <<docs, written, decided, list>>

\* Redis fails on the way: the rest stays, the answer is the same.
InvalidateInPart(d) ==
  /\ post[d] = "written"
  /\ \E some \in SUBSET Scanned(d) : Drop(some)
  /\ post' = [post EXCEPT ![d] = "unswept"]
  /\ UNCHANGED <<docs, written, decided, list>>

Analyse(a) == Ledger!Analyse(a) /\ UNCHANGED <<cache, list, post>>

-----------------------------------------------------------------------------

Aged(entry) == IF entry.left <= 1 THEN NoEntry ELSE [entry EXCEPT !.left = @ - 1]

Tick ==
  /\ \E k \in Keys : Cached(k)
  /\ cache' = [k \in Keys |-> Aged(cache[k])]
  /\ UNCHANGED <<docs, written, decided, list, post>>

Init ==
  /\ Ledger!Init
  /\ cache = [k \in Keys |-> NoEntry]
  /\ list = [l \in Lists |-> Idle]
  /\ post = [d \in Decisions |-> "new"]

Next ==
  \/ \E l \in Lists, k \in Keys : ServeCached(l, k) \/ Miss(l, k)
  \/ \E l \in Lists : Fetch(l) \/ Store(l) \/ GiveUp(l)
  \/ \E d \in Decisions : Post(d) \/ PostRefused(d) \/ Invalidate(d) \/ InvalidateInPart(d)
  \/ \E a \in Analyses : Analyse(a)
  \/ Tick

\* Time passes, and every call has a timeout; nobody has to ask or to decide.
Fairness ==
  /\ WF_vars(Tick)
  /\ \A l \in Lists : WF_vars(Fetch(l) \/ Store(l) \/ GiveUp(l))

Spec == Init /\ [][Next]_vars /\ Fairness

-----------------------------------------------------------------------------
(* Properties *)

\* Entries and requests are well formed, an entry lives no longer than the
\* setting says, and it is late only for decisions its query was too early for.
TypeOK ==
  /\ cache \in [Keys -> Entry]
  /\ list \in [Lists -> Request]
  /\ post \in [Decisions -> {"new", "written", "answered", "unswept", "error"}]
  /\ \A k \in Keys :
       /\ cache[k].seen \subseteq written \cup decided
       /\ cache[k].late \subseteq decided \ cache[k].seen
  /\ \A d \in Decisions : post[d] \in {"written", "answered", "unswept"} => d \in decided

\* Once a decision is answered, and Redis did its part, every list that does
\* not show it was queried before the decision and stored after it was swept
\* away: that race is all that is left of "the same client sees its own
\* change immediately" (cache.py).
StaleEntriesAreLate ==
  \A d \in Decisions, k \in Keys :
    post[d] = "answered" /\ Cached(k) /\ d \notin cache[k].seen => d \in cache[k].late

\* Whatever Redis does, and however often a list is asked for: in the end
\* every cached list shows every decision and every recommendation.
StaleListsEnd ==
  \A x \in Analyses \cup Decisions :
    <>[](\A k \in Keys : x \in written \cup decided /\ Cached(k) => x \in cache[k].seen)
=============================================================================
