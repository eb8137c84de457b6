---------------------------- MODULE BookRecords ----------------------------
(***************************************************************************)
(* The values internal/store/store.go keeps in its bbolt bucket and what   *)
(* each store operation does to one of them, or to all of them at once.    *)
(*                                                                         *)
(* A key is a listing's buy URL; only the byte order of keys matters, so   *)
(* keys are natural numbers.  A time is a natural number, 0 standing for   *)
(* the zero the JSON encoding gives a time that was never written.  The    *)
(* payload of a listing (title, seller, photos) is left out: no store      *)
(* operation branches on it.                                               *)
(***************************************************************************)
EXTENDS Naturals, FiniteSets, Sequences

CONSTANTS
    Keys,           \* buy URLs, in byte order
    Absent,         \* the key has no value
    LegacyMarker,   \* a value that is not a JSON object
    Corrupt         \* a JSON object that does not decode to a valid record

\* bookRecord without its payload.
Record == [observedAt : Nat, sentAt : Nat, queueOrder : Nat, sent : BOOLEAN]

Value == Record \cup {Absent, LegacyMarker, Corrupt}

ASSUME KeysAssumption == Keys \subseteq Nat /\ IsFiniteSet(Keys)

ASSUME ValuesAssumption ==
    /\ Absent \notin Record /\ LegacyMarker \notin Record /\ Corrupt \notin Record
    /\ Absent # LegacyMarker /\ Absent # Corrupt /\ LegacyMarker # Corrupt

\* Lists of distinct listings: what the fetcher and the renderer hand to the
\* store never repeats a buy URL.
BookLists ==
    UNION { { s \in [1..n -> Keys] : \A i, j \in 1..n : s[i] = s[j] => i = j }
            : n \in 0..Cardinality(Keys) }

Listed(s) == { s[i] : i \in DOMAIN s }

\* No element of s should have come after one that follows it.
SortedBy(s, Before(_, _)) ==
    \A i, j \in DOMAIN s : i < j => ~Before(s[j], s[i])

-----------------------------------------------------------------------------
(* One record                                                              *)

\* A discovery allocates a queue order for a new record, and for an unsent
\* one written before the field existed.
NeedsOrder(r) == IF r = Absent THEN TRUE ELSE r.queueOrder = 0 /\ ~r.sent

\* Mistaken: a listing that is seen again counts as observed again.
DiscoveredAgain(r, now, order) ==
    IF r = Absent
    THEN [observedAt |-> now, sentAt |-> 0, queueOrder |-> order, sent |-> FALSE]
    ELSE [r EXCEPT !.observedAt = now, !.queueOrder = IF NeedsOrder(r) THEN order ELSE @]

\* Mistaken: the new payload is written with a fresh delivery state.
DiscoveredUnsent(r, now, order) ==
    IF r = Absent
    THEN [observedAt |-> now, sentAt |-> 0, queueOrder |-> order, sent |-> FALSE]
    ELSE [r EXCEPT !.sent = FALSE, !.queueOrder = IF NeedsOrder(r) THEN order ELSE @]

\* prepareDiscoveredRecord, given the number NextSequence would hand out.
Discovered(r, now, order) ==
    IF r = Absent
    THEN [observedAt |-> now, sentAt |-> 0, queueOrder |-> order, sent |-> FALSE]
    ELSE [r EXCEPT !.queueOrder = IF NeedsOrder(r) THEN order ELSE @]

\* The body of MarkSent's loop, for a record that exists.
MarkedSent(r, now) ==
    [r EXCEPT !.observedAt = IF @ = 0 THEN now ELSE @,
              !.sent       = TRUE,
              !.sentAt     = now]

\* Prune's condition: sentAt is strictly before now - retention.
Expired(r, now, retention) ==
    r # Absent /\ r.sent /\ r.sentAt # 0 /\ r.sentAt + retention < now

\* What migrateLegacyMarkers leaves for one value.
Migrated(v, now) ==
    IF v = LegacyMarker
    THEN [observedAt |-> now, sentAt |-> now, queueOrder |-> 0, sent |-> TRUE]
    ELSE v

-----------------------------------------------------------------------------
(* All records                                                             *)

Stored(recs) == { k \in Keys : recs[k] # Absent }

PendingKeys(recs) == { k \in Stored(recs) : ~recs[k].sent }

\* Mistaken: listings of one cycle are left to the stability of the sort.
PendingBeforeByTime(recs, a, b) == recs[a].observedAt < recs[b].observedAt

\* The comparator of Pending.
PendingBefore(recs, a, b) ==
    LET l == recs[a]
        r == recs[b]
    IN  IF l.queueOrder > 0 /\ r.queueOrder > 0 /\ l.queueOrder # r.queueOrder
        THEN l.queueOrder < r.queueOrder
        ELSE IF l.observedAt # r.observedAt
             THEN l.observedAt < r.observedAt
             ELSE a < b

\* Mistaken: the keys alone decide.
NewerByKey(recs, a, b) == a > b

\* latestRecordIsNewer, the comparator of DeleteLatest.
Newer(recs, a, b) ==
    LET l == recs[a]
        r == recs[b]
    IN  \/ l.queueOrder > r.queueOrder
        \/ l.queueOrder = r.queueOrder /\ l.observedAt > r.observedAt
        \/ l.queueOrder = r.queueOrder /\ l.observedAt = r.observedAt /\ a > b

\* RecordDiscovered as one step: the i-th listing gets the number its place
\* among the listings that need one gives it.
OrdersNeeded(recs, books, i) ==
    Cardinality({ j \in 1..i : NeedsOrder(recs[books[j]]) })

DiscoverAll(recs, sequence, books, now) ==
    [k \in Keys |->
        IF k \in Listed(books)
        THEN LET i == CHOOSE i \in DOMAIN books : books[i] = k
             IN  Discovered(recs[k], now, sequence + OrdersNeeded(recs, books, i))
        ELSE recs[k]]

MarkAllSent(recs, S, now) ==
    [k \in Keys |-> IF k \in S THEN MarkedSent(recs[k], now) ELSE recs[k]]

PruneAll(recs, now, retention) ==
    [k \in Keys |-> IF Expired(recs[k], now, retention) THEN Absent ELSE recs[k]]

DeleteAll(recs, S) == [k \in Keys |-> IF k \in S THEN Absent ELSE recs[k]]

\* The listings DeleteLatest(limit) picks.
Latest(recs, limit) ==
    { k \in Stored(recs) : Cardinality({ j \in Stored(recs) : Newer(recs, j, k) }) < limit }

MigrateAll(recs, now) == [k \in Keys |-> Migrated(recs[k], now)]
=============================================================================
