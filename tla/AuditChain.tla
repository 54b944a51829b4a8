----------------------------- MODULE AuditChain -----------------------------
(***************************************************************************)
(* mcp_gateway/app/tools/audit_tools.py and hashing.py: the hash chain of  *)
(* one project's audit events.                                             *)
(*                                                                         *)
(* audit_append is a read of the chain's head, a timestamp and a put under *)
(* a fresh id, which never conflicts: calls handled at the same time can   *)
(* read the same head.  SHA-256 is ideal, so an event's hash is its id;    *)
(* the hash recomputes as long as the stored event is as it was appended.  *)
(* The clock of the one gateway process never shows the same time twice.   *)
(***************************************************************************)
EXTENDS Integers, FiniteSets

CONSTANTS
  Appenders,   \* the calls of audit_append the gateway handles at a time
  Ids,         \* uuid4: a supply of ids never used before
  WindowSize,  \* limit=1000 of the query that looks for the head
  ReportLimit, \* limit=10000 of the query for a report
  MaxStamps    \* bound: timestamps taken

ASSUME WindowAssumption == WindowSize \in Nat
ASSUME ReportAssumption == ReportLimit \in Nat
ASSUME StampsAssumption == MaxStamps \in Nat
ASSUME IdsAssumption == "genesis" \notin Ids

VARIABLES
  log,         \* the audit_event documents in CouchDB
  lost,        \* the ids of the events the storage has lost
  clock,       \* the last timestamp taken
  at,          \* where every call is in audit_append
  prev,        \* its prev_hash
  stamp,       \* its timestamp
  outdated,    \* history: calls whose prev_hash was read before another's put
  overlapped   \* history: such a call has put its event

calls == <<at, prev, stamp>>
vars == <<log, lost, clock, calls, outdated, overlapped>>

-----------------------------------------------------------------------------
(* Events and the chain *)

Genesis == "genesis"
Link == Ids \cup {Genesis}
Event == [id: Ids, prev: Link, time: 1 .. MaxStamps, intact: BOOLEAN]

\* max(docs, key=lambda d: d["timestamp"])
Latest(events) == CHOOSE e \in events : \A f \in events : f.time <= e.time

\* Mutant: an empty log has no head at all.
HeadOrNone(events) == IF events = {} THEN "none" ELSE Latest(events).id

\* The hash the next event of a chain links to.
Head(events) == IF events = {} THEN Genesis ELSE Latest(events).id

Earlier(events, e) == {f \in events : f.time < e.time}

\* Mutant: the links are walked, the hashes are not recomputed.
VerifyLinksOnly(events) ==
  \A e \in events : e.prev = Head(Earlier(events, e))

\* Mutant: the hashes are recomputed, the links are not walked.
VerifyHashesOnly(events) == \A e \in events : e.intact

\* verify_chain over the events in timestamp order: every event links to its
\* predecessor, the first one to the genesis constant, and recomputes.
VerifyChain(events) ==
  \A e \in events : e.intact /\ e.prev = Head(Earlier(events, e))

\* What a query without a sort order and with a limit may return: all that
\* fits the selector, or any of it up to the limit.
Answers(found, limit) ==
  IF Cardinality(found) <= limit THEN {found}
  ELSE {view \in SUBSET found : Cardinality(view) = limit}

\* Mutant: the first document of the collection instead of a window of it.
OneDocument == Answers(log, 1)

Window == Answers(log, WindowSize)

\* Mutant: a timestamp too coarse to tell two events apart.
CoarseNow == IF clock = 0 THEN 1 ELSE clock
Now == clock + 1

Init ==
  /\ log = {}
  /\ lost = {}
  /\ clock = 0
  /\ at = [a \in Appenders |-> "idle"]
  /\ prev = [a \in Appenders |-> Genesis]
  /\ stamp = [a \in Appenders |-> 0]
  /\ outdated = {}
  /\ overlapped = FALSE

-----------------------------------------------------------------------------
(* audit_append *)

\* _latest_event_hash
ReadHead(a) ==
  /\ at[a] = "idle"
  /\ \E view \in Window : prev' = [prev EXCEPT ![a] = Head(view)]
  /\ at' = [at EXCEPT ![a] = "linked"]
  /\ outdated' = outdated \ {a}
  /\ UNCHANGED <<log, lost, clock, stamp, overlapped>>

\* timestamp = datetime.now(timezone.utc), and the event is hashed
Stamp(a) ==
  /\ at[a] = "linked"
  /\ clock < MaxStamps
  /\ clock' = Now
  /\ stamp' = [stamp EXCEPT ![a] = Now]
  /\ at' = [at EXCEPT ![a] = "stamped"]
  /\ UNCHANGED <<log, lost, prev, outdated, overlapped>>

FreshIds == (Ids \ lost) \ {e.id : e \in log}

NewEvent(a, i) == [id |-> i, prev |-> prev[a], time |-> stamp[a], intact |-> TRUE]

\* put_document
Put(a) ==
  /\ at[a] = "stamped"
  /\ \E i \in FreshIds : log' = log \cup {NewEvent(a, i)}
  /\ at' = [at EXCEPT ![a] = "idle"]
  /\ outdated' = {b \in Appenders : b # a /\ at[b] # "idle"}
  /\ overlapped' = (overlapped \/ a \in outdated)
  /\ UNCHANGED <<lost, clock, prev, stamp>>

\* A query or the put fails: the caller sees an exception, no event is left.
Fail(a) ==
  /\ at[a] # "idle"
  /\ at' = [at EXCEPT ![a] = "idle"]
  /\ UNCHANGED <<log, lost, clock, prev, stamp, outdated, overlapped>>

-----------------------------------------------------------------------------
(* The storage: the gateway and validate_doc_update refuse every change of  *)
(* an event, so what is left is damage below them.                          *)

LoseEvent(e) ==
  /\ log' = log \ {e}
  /\ lost' = lost \cup {e.id}
  /\ UNCHANGED <<clock, calls, outdated, overlapped>>

AlterEvent(e) ==
  /\ e.intact
  /\ log' = (log \ {e}) \cup {[e EXCEPT !.intact = FALSE]}
  /\ UNCHANGED <<lost, clock, calls, outdated, overlapped>>

-----------------------------------------------------------------------------

Append(a) == ReadHead(a) \/ Stamp(a) \/ Put(a) \/ Fail(a)

Next ==
  \/ \E a \in Appenders : Append(a)
  \/ \E e \in log : LoseEvent(e) \/ AlterEvent(e)

Spec == Init /\ [][Next]_vars

-----------------------------------------------------------------------------
(* Properties *)

\* Events, calls and histories are well formed.
TypeOK ==
  /\ log \subseteq Event
  /\ lost \subseteq Ids
  /\ clock \in 0 .. MaxStamps
  /\ at \in [Appenders -> {"idle", "linked", "stamped"}]
  /\ prev \in [Appenders -> Link]
  /\ stamp \in [Appenders -> 0 .. MaxStamps]
  /\ outdated \subseteq Appenders
  /\ overlapped \in BOOLEAN

Intact == \A e \in log : e.intact
Undamaged == lost = {} /\ Intact

\* An event's link is the genesis constant or the hash of an event stamped
\* strictly before it, whatever other appends put in between: the link is
\* read before the timestamp is taken.
LinksGoBack ==
  \A e \in log :
    \/ e.prev = Genesis
    \/ e.prev \in lost
    \/ \E f \in log : f.id = e.prev /\ f.time < e.time

Serial == ~overlapped /\ Cardinality(log) <= WindowSize

\* As long as no append puts its event over a head that another append has
\* moved meanwhile, and the log fits the window, the whole log verifies.
SerialAppendsVerify == Serial /\ Undamaged => VerifyChain(log)

ForkFree(events) == \A e, f \in events : e.prev = f.prev => e = f

SelfContained(events) ==
  \A e \in events : e.prev = Genesis \/ \E f \in events : f.id = e.prev

EventsBetween(from, to) == {e \in log : from <= e.time /\ e.time <= to}

\* What audit_export_range of a period may return, and verify.
Reports(from, to) == Answers(EventsBetween(from, to), ReportLimit)

\* What chain_valid = false means besides damage: a report on an undamaged log
\* fails to verify exactly when two events in it have one predecessor, because
\* their appends overlapped or missed the window, or when the predecessor of an
\* event in it is left out, by the period, as in every report that begins later
\* than the log, or by the limit of the query.
OnlyForksAndCutsBreakIt ==
  Undamaged =>
    \A from, to \in 1 .. MaxStamps : \A events \in Reports(from, to) :
      VerifyChain(events) <=> ForkFree(events) /\ SelfContained(events)

\* An altered event, and one whose predecessor is lost, make every report that
\* holds it fail to verify for good, however many events are appended
\* afterwards and whatever else the limit leaves out of the report.
DamageIsEvident ==
  \A from, to \in 1 .. MaxStamps : \A events \in Reports(from, to) :
    (\E e \in events : ~e.intact \/ e.prev \in lost) => ~VerifyChain(events)

\* audit_tool.md: a report on the whole log that does not verify means that an
\* event was tampered with or lost.
InvalidMeansDamage ==
  \A events \in Reports(1, MaxStamps) : ~VerifyChain(events) => ~Undamaged
=============================================================================
