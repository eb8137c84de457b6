----------------------------- MODULE BookStore ------------------------------
(***************************************************************************)
(* internal/store/store.go as the processes that open one chat's state     *)
(* file use it.  bbolt locks the file while it is open, so one process at  *)
(* a time has it.  Every operation is a read-write transaction: a working  *)
(* copy that grows one listing per iteration of the operation's loop and   *)
(* replaces the committed records when it ends.  The context is looked at  *)
(* before each iteration, so a cancellation abandons a transaction at any  *)
(* point; so does the death of the process.                                *)
(***************************************************************************)
EXTENDS BookRecords

CONSTANTS
    Processes,      \* the executables that may open the file
    Nobody,         \* nobody has the file open
    Retention,      \* how long a delivered listing is remembered
    MaxTime,        \* bound of the clock, for model checking
    MaxSequence,    \* bound of the bucket sequence, for model checking
    InitialValues   \* the values an existing state file may hold

VARIABLES
    recs,           \* the committed bucket: a value for every key
    sequence,       \* the committed bucket sequence
    owner,          \* the process that has the file open
    cycleTime,      \* the time the owner read when its cycle began
    tx,             \* the transaction in progress
    clock           \* the wall clock

vars == <<recs, sequence, owner, cycleTime, tx, clock>>

ASSUME StoreAssumption ==
    /\ Nobody \notin Processes
    /\ Retention \in Nat /\ MaxTime \in Nat \ {0} /\ MaxSequence \in Nat
    /\ InitialValues \subseteq Value
    /\ \A v \in InitialValues : v \in Record => v.queueOrder = 0

Operations == {"discover", "mark", "prune", "forget"}

\* No transaction: a fixed value, so that it adds no states.
Idle == [op |-> "idle", work |-> [k \in Keys |-> Absent], sequence |-> 0, todo |-> <<>>]

\* The transaction op starts on a copy of what is committed.
Begun(op, todo) == [op |-> op, work |-> recs, sequence |-> sequence, todo |-> todo]

Running(op) == tx.op = op /\ tx.todo # <<>>

Init ==
    /\ recs \in [Keys -> InitialValues]
    /\ sequence = 0
    /\ owner = Nobody
    /\ cycleTime = 1
    /\ tx = Idle
    /\ clock = 1

-----------------------------------------------------------------------------
(* Opening and closing                                                     *)

\* Mistaken: values are not validated when the file is opened.
OpenUnchecked(p) ==
    /\ owner = Nobody
    /\ owner' = p
    /\ cycleTime' = clock
    /\ recs' = MigrateAll(recs, clock)
    /\ UNCHANGED <<sequence, tx, clock>>

\* Open: take the file lock and migrate legacy markers.
Open(p) ==
    /\ owner = Nobody
    /\ \A k \in Keys : recs[k] # Corrupt
    /\ owner' = p
    /\ cycleTime' = clock
    /\ recs' = MigrateAll(recs, clock)
    /\ UNCHANGED <<sequence, tx, clock>>

\* One value does not decode: Open has put nothing yet and closes the file.
OpenRejected(p) ==
    /\ owner = Nobody
    /\ \E k \in Keys : recs[k] = Corrupt
    /\ UNCHANGED vars

\* Close, once the operation in progress has returned.
Close ==
    /\ owner # Nobody
    /\ tx = Idle
    /\ owner' = Nobody
    /\ UNCHANGED <<recs, sequence, cycleTime, tx, clock>>

\* Mistaken: what the dying owner had done so far stays in the file.
CrashHalfway ==
    /\ owner # Nobody
    /\ owner' = Nobody
    /\ recs' = IF tx = Idle THEN recs ELSE tx.work
    /\ tx' = Idle
    /\ UNCHANGED <<sequence, cycleTime, clock>>

\* The owner dies; the system releases its lock and bbolt forgets the
\* transaction.
Crash ==
    /\ owner # Nobody
    /\ owner' = Nobody
    /\ tx' = Idle
    /\ UNCHANGED <<recs, sequence, cycleTime, clock>>

-----------------------------------------------------------------------------
(* Transactions                                                            *)

Begin(op, todo) ==
    /\ owner # Nobody
    /\ tx = Idle
    /\ tx' = Begun(op, todo)
    /\ UNCHANGED <<recs, sequence, owner, cycleTime, clock>>

\* One iteration of a loop: the first listing of todo is dealt with.
Step(value, order) ==
    /\ tx' = [tx EXCEPT !.work[Head(tx.todo)] = value,
                        !.sequence = order,
                        !.todo = Tail(tx.todo)]
    /\ UNCHANGED <<recs, sequence, owner, cycleTime, clock>>

\* RecordDiscovered
BeginDiscover ==
    \E books \in BookLists :
        /\ books # <<>>
        /\ sequence + Len(books) <= MaxSequence
        /\ Begin("discover", books)

\* Mistaken: the number of records stands in for the bucket sequence.
DiscoverOneCounting ==
    /\ Running("discover")
    /\ LET old  == tx.work[Head(tx.todo)]
           next == IF NeedsOrder(old) THEN Cardinality(Stored(tx.work)) + 1 ELSE tx.sequence
       IN  Step(Discovered(old, cycleTime, next), next)

\* nextQueueOrder is called only for a record that needs a number.
DiscoverOne ==
    /\ Running("discover")
    /\ LET old  == tx.work[Head(tx.todo)]
           next == IF NeedsOrder(old) THEN tx.sequence + 1 ELSE tx.sequence
       IN  Step(Discovered(old, cycleTime, next), next)

\* MarkSent
BeginMark ==
    \E books \in BookLists : books # <<>> /\ Begin("mark", books)

MarkOne ==
    /\ Running("mark")
    /\ tx.work[Head(tx.todo)] # Absent
    /\ Step(MarkedSent(tx.work[Head(tx.todo)], cycleTime), tx.sequence)

\* Prune visits every key in byte order.
BeginPrune ==
    \E books \in BookLists :
        /\ Listed(books) = Keys /\ SortedBy(books, <)
        /\ Begin("prune", books)

PruneOne ==
    /\ Running("prune")
    /\ LET old == tx.work[Head(tx.todo)]
       IN  Step(IF Expired(old, cycleTime, Retention) THEN Absent ELSE old, tx.sequence)

\* DeleteLatest sorts all records and deletes the first ones.
BeginForget(limit) ==
    /\ owner # Nobody /\ tx = Idle
    /\ \E books \in BookLists :
          /\ Listed(books) = Stored(recs)
          /\ LET newer(a, b) == Newer(recs, a, b) IN SortedBy(books, newer)
          /\ Begin("forget", SubSeq(books, 1, IF limit > Len(books) THEN Len(books) ELSE limit))

ForgetOne ==
    /\ Running("forget")
    /\ Step(Absent, tx.sequence)

\* The transaction ends and its working copy becomes the committed bucket.
Commit ==
    /\ tx.op \in Operations /\ tx.todo = <<>>
    /\ recs' = tx.work
    /\ sequence' = tx.sequence
    /\ tx' = Idle
    /\ UNCHANGED <<owner, cycleTime, clock>>

\* The operation returns an error: its context was cancelled, MarkSent met a
\* listing with no record, or bbolt could not write.
Rollback ==
    /\ tx.op \in Operations
    /\ tx' = Idle
    /\ UNCHANGED <<recs, sequence, owner, cycleTime, clock>>

Tick ==
    /\ clock < MaxTime
    /\ clock' = clock + 1
    /\ UNCHANGED <<recs, sequence, owner, cycleTime, tx>>

Next ==
    \/ \E p \in Processes : Open(p)
    \/ \E p \in Processes : OpenRejected(p)
    \/ Close
    \/ Crash
    \/ BeginDiscover
    \/ DiscoverOne
    \/ BeginMark
    \/ MarkOne
    \/ BeginPrune
    \/ PruneOne
    \/ \E limit \in 1..Cardinality(Keys) : BeginForget(limit)
    \/ ForgetOne
    \/ Commit
    \/ Rollback
    \/ Tick

Spec == Init /\ [][Next]_vars

-----------------------------------------------------------------------------
(* Properties                                                              *)

Transaction ==
    [op : Operations \cup {"idle"}, work : [Keys -> Value], sequence : Nat, todo : Seq(Keys)]

\* Every variable has its type.
TypeOK ==
    /\ recs \in [Keys -> Value]
    /\ sequence \in Nat
    /\ owner \in Processes \cup {Nobody}
    /\ cycleTime \in 1..MaxTime
    /\ tx \in Transaction
    /\ clock \in 1..MaxTime

\* A bucket whose queue orders were all handed out by its sequence, each once.
OrdersAllocated(r, seq) ==
    /\ \A k \in Keys : r[k] \in Record => r[k].queueOrder <= seq
    /\ \A j, k \in Keys :
          /\ j # k /\ r[j] \in Record /\ r[k] \in Record
          /\ r[j].queueOrder # 0
          => r[j].queueOrder # r[k].queueOrder

\* Whatever was cancelled, lost in a crash, deleted or discovered again, no
\* two records ever share a queue order, in the file or in a transaction, and
\* the sequence is never behind one of them.
QueueOrdersUnique ==
    /\ OrdersAllocated(recs, sequence)
    /\ tx # Idle => OrdersAllocated(tx.work, tx.sequence)

\* Once the file is open, no operation meets a value it cannot decode: Open
\* has migrated the markers and refused the corrupt file as a whole.
OpenFileIsReadable ==
    owner # Nobody => \A k \in Keys : recs[k] \in Record \cup {Absent}

\* The comparator of Pending orders the pending records of an open file
\* strictly and totally, so that the list does not depend on how the sort
\* happens to compare.
PendingOrderIsTotal ==
    owner # Nobody => \A a, b, c \in PendingKeys(recs) :
        /\ a # b => (PendingBefore(recs, a, b) <=> ~PendingBefore(recs, b, a))
        /\ PendingBefore(recs, a, b) /\ PendingBefore(recs, b, c) => PendingBefore(recs, a, c)

\* Queue order is discovery order: a record that precedes another in the queue
\* was not observed after it.
QueueFollowsDiscovery ==
    \A a, b \in Keys :
        recs[a] \in Record /\ recs[b] \in Record /\ recs[a].queueOrder < recs[b].queueOrder
        => recs[a].observedAt <= recs[b].observedAt

\* What identifies a discovery survives every later step until the record is
\* deleted: when it was observed, its place in the queue once it has one, and
\* that it was sent.
DiscoveryIsStable ==
    [][\A k \in Keys : recs[k] \in Record /\ recs'[k] \in Record =>
          /\ recs'[k].observedAt = recs[k].observedAt
          /\ recs[k].queueOrder # 0 => recs'[k].queueOrder = recs[k].queueOrder
          /\ recs[k].sent => recs'[k].sent]_vars

\* DeleteLatest removes records in reverse discovery order: nothing it leaves
\* was observed after something it removes.
ForgetReversesDiscovery ==
    [][tx.op = "forget" =>
          \A a, b \in Keys :
              /\ recs[a] \in Record /\ recs'[a] = Absent
              /\ recs'[b] \in Record
              => recs[b].observedAt <= recs[a].observedAt]_vars

\* BookStore implements the ledger: each operation is one atomic step there.
Ledger == INSTANCE BookLedger

ImplementsLedger == Ledger!Spec
=============================================================================
