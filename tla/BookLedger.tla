----------------------------- MODULE BookLedger -----------------------------
(***************************************************************************)
(* What internal/store promises its callers: every operation of the store  *)
(* takes effect on all the records it concerns at one instant, or not at   *)
(* all.  BookStore, which runs each operation as a bbolt transaction of    *)
(* many steps that may be cancelled or lost in a crash, implements it.     *)
(***************************************************************************)
EXTENDS BookRecords

CONSTANTS
    Retention,      \* how long a delivered listing is remembered
    MaxTime,        \* bound of the clock, for model checking
    InitialValues   \* the values an existing state file may hold

VARIABLES
    recs,           \* the committed bucket: a value for every key
    sequence,       \* the bucket sequence
    clock           \* the wall clock

vars == <<recs, sequence, clock>>

Init ==
    /\ recs \in [Keys -> InitialValues]
    /\ sequence = 0
    /\ clock = 1

\* Opening the file turns legacy markers into sent records.
Migrate ==
    /\ \A k \in Keys : recs[k] # Corrupt
    /\ recs' = MigrateAll(recs, clock)
    /\ UNCHANGED <<sequence, clock>>

Usable == \A k \in Keys : recs[k] \notin {LegacyMarker, Corrupt}

\* An operation is told the time its cycle began, which may have passed.
Discover ==
    \E books \in BookLists, now \in 1..clock :
        /\ recs' = DiscoverAll(recs, sequence, books, now)
        /\ sequence' = sequence + OrdersNeeded(recs, books, Len(books))
        /\ UNCHANGED clock

Mark ==
    \E S \in SUBSET Stored(recs), now \in 1..clock :
        /\ recs' = MarkAllSent(recs, S, now)
        /\ UNCHANGED <<sequence, clock>>

Prune ==
    \E now \in 1..clock :
        /\ recs' = PruneAll(recs, now, Retention)
        /\ UNCHANGED <<sequence, clock>>

Forget ==
    \E limit \in 1..Cardinality(Keys) :
        /\ recs' = DeleteAll(recs, Latest(recs, limit))
        /\ UNCHANGED <<sequence, clock>>

Tick == clock < MaxTime /\ clock' = clock + 1 /\ UNCHANGED <<recs, sequence>>

Next ==
    \/ Migrate
    \/ Usable /\ (Discover \/ Mark \/ Prune \/ Forget)
    \/ Tick

Spec == Init /\ [][Next]_vars
=============================================================================
