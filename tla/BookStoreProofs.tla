--------------------------- MODULE BookStoreProofs --------------------------
(***************************************************************************)
(* Queue orders are unique in every state file, whatever its keys, its     *)
(* processes, its retention and the values it held before this program.    *)
(***************************************************************************)
EXTENDS BookStore, FiniteSetTheorems, SequenceTheorems, TLAPS

USE DEF Operations

\* The records of a bucket all of whose values decode.
Decodable == Record \cup {Absent}

\* An open transaction works on decoded values only, and belongs to a process
\* that has the file open.
TransactionIsReadable ==
    tx # Idle =>
        /\ tx.op \in Operations
        /\ owner # Nobody
        /\ \A k \in Keys : tx.work[k] \in Decodable

\* The inductive invariant: the property, and what makes it inductive.
IInv ==
    /\ TypeOK
    /\ OpenFileIsReadable
    /\ TransactionIsReadable
    /\ QueueOrdersUnique

-----------------------------------------------------------------------------
(* Lists of listings, and the records DeleteLatest compares                *)

\* A list of distinct listings is a sequence of keys, no longer than they are many.
LEMMA BookListIsSequence ==
    ASSUME NEW s \in BookLists
    PROVE  /\ s \in Seq(Keys) /\ DOMAIN s = 1..Len(s)
           /\ Len(s) \in Nat /\ Len(s) <= Cardinality(Keys)
           /\ \A i, j \in 1..Len(s) : s[i] = s[j] => i = j
           /\ Listed(s) \subseteq Keys
<1>1. Cardinality(Keys) \in Nat
  BY KeysAssumption, FS_CardinalityType
<1>2. PICK n \in 0..Cardinality(Keys) :
         s \in [1..n -> Keys] /\ \A i, j \in 1..n : s[i] = s[j] => i = j
  BY DEF BookLists
<1>3. n \in Nat /\ s \in Seq(Keys) /\ Len(s) = n /\ n <= Cardinality(Keys)
  BY <1>1, <1>2, LenProperties, SeqDef
<1> QED
  BY <1>2, <1>3 DEF Listed

\* The listings that need a queue order are counted one by one.
LEMMA OrdersNeededGrows ==
    ASSUME NEW db, NEW books, NEW i \in Nat, NEW j \in Nat, j = i + 1
    PROVE  /\ OrdersNeeded(db, books, 0) = 0
           /\ OrdersNeeded(db, books, i) \in Nat
           /\ OrdersNeeded(db, books, j)
              = IF NeedsOrder(db[books[j]])
                THEN OrdersNeeded(db, books, i) + 1
                ELSE OrdersNeeded(db, books, i)
<1>1. PICK S : S = { m \in 1..i : NeedsOrder(db[books[m]]) }
  OBVIOUS
<1>2. PICK T : T = { m \in 1..j : NeedsOrder(db[books[m]]) }
  OBVIOUS
<1>3. IsFiniteSet(S)
  <2>1. IsFiniteSet(1..i) /\ S \in SUBSET (1..i)
    BY <1>1, FS_Interval
  <2> QED
    BY <2>1, FS_Subset
<1>4. T = IF NeedsOrder(db[books[j]]) THEN S \cup {j} ELSE S
  <2>1. 1..j = 1..i \cup {j}
    OBVIOUS
  <2> QED
    BY <1>1, <1>2, <2>1
<1>5. j \notin S
  BY <1>1
<1>6. Cardinality(S \cup {j}) = Cardinality(S) + 1 /\ Cardinality(S) \in Nat
  BY <1>3, <1>5, FS_AddElement, FS_CardinalityType
<1>7. OrdersNeeded(db, books, 0) = 0
  <2>1. { m \in 1..0 : NeedsOrder(db[books[m]]) } = {}
    OBVIOUS
  <2> QED
    BY <2>1, FS_EmptySet DEF OrdersNeeded
<1>8. OrdersNeeded(db, books, i) = Cardinality(S) /\ OrdersNeeded(db, books, j) = Cardinality(T)
  BY <1>1, <1>2 DEF OrdersNeeded
<1> QED
  BY <1>4, <1>6, <1>7, <1>8

\* The records DeleteLatest compares are in a strict total order.
LEMMA NewerIsTotal ==
    ASSUME NEW db \in [Keys -> Decodable], NEW a \in Stored(db), NEW b \in Stored(db)
    PROVE  /\ ~Newer(db, a, a)
           /\ a # b => (Newer(db, a, b) <=> ~Newer(db, b, a))
<1>1. a \in Nat /\ b \in Nat /\ db[a] \in Record /\ db[b] \in Record
  BY KeysAssumption DEF Stored, Decodable
<1>2. PICK q \in Nat, o \in Nat : q = db[a].queueOrder /\ o = db[a].observedAt
  BY <1>1 DEF Record
<1>3. PICK p \in Nat, n \in Nat : p = db[b].queueOrder /\ n = db[b].observedAt
  BY <1>1 DEF Record
<1> QED
  BY <1>1, <1>2, <1>3 DEF Newer

\* It is transitive.
LEMMA NewerIsTransitive ==
    ASSUME NEW db \in [Keys -> Decodable], NEW a \in Stored(db), NEW b \in Stored(db),
           NEW c \in Stored(db), Newer(db, a, b), Newer(db, b, c)
    PROVE  Newer(db, a, c)
<1>1. /\ a \in Nat /\ b \in Nat /\ c \in Nat
      /\ db[a] \in Record /\ db[b] \in Record /\ db[c] \in Record
  BY KeysAssumption DEF Stored, Decodable
<1>2. PICK q1 \in Nat, o1 \in Nat : q1 = db[a].queueOrder /\ o1 = db[a].observedAt
  BY <1>1 DEF Record
<1>3. PICK q2 \in Nat, o2 \in Nat : q2 = db[b].queueOrder /\ o2 = db[b].observedAt
  BY <1>1 DEF Record
<1>4. PICK q3 \in Nat, o3 \in Nat : q3 = db[c].queueOrder /\ o3 = db[c].observedAt
  BY <1>1 DEF Record
<1>5. q1 > q2 \/ (q1 = q2 /\ o1 > o2) \/ (q1 = q2 /\ o1 = o2 /\ a > b)
  BY <1>2, <1>3 DEF Newer
<1>6. q2 > q3 \/ (q2 = q3 /\ o2 > o3) \/ (q2 = q3 /\ o2 = o3 /\ b > c)
  BY <1>3, <1>4 DEF Newer
<1>7. q1 > q3 \/ (q1 = q3 /\ o1 > o3) \/ (q1 = q3 /\ o1 = o3 /\ a > c)
  BY <1>1, <1>5, <1>6
<1> QED
  BY <1>2, <1>4, <1>7 DEF Newer

\* What DeleteLatest removes is newer than what it leaves.
LEMMA LatestIsNewer ==
    ASSUME NEW db \in [Keys -> Decodable], NEW limit \in Nat,
           NEW a \in Latest(db, limit), NEW b \in Stored(db), b \notin Latest(db, limit)
    PROVE  Newer(db, a, b)
<1>1. a \in Stored(db) /\ a # b
  BY DEF Latest
<1> SUFFICES ASSUME Newer(db, b, a) PROVE FALSE
  BY <1>1, NewerIsTotal
<1>2. PICK S : S = { j \in Stored(db) : Newer(db, j, a) }
  OBVIOUS
<1>3. PICK T : T = { j \in Stored(db) : Newer(db, j, b) }
  OBVIOUS
<1>4. T \in SUBSET S
  BY <1>1, <1>2, <1>3, NewerIsTransitive
<1>5. IsFiniteSet(S)
  <2>1. S \in SUBSET Keys
    BY <1>2 DEF Stored
  <2> QED
    BY <2>1, KeysAssumption, FS_Subset
<1>6. IsFiniteSet(T) /\ Cardinality(T) <= Cardinality(S)
  BY <1>4, <1>5, FS_Subset
<1>7. Cardinality(S) < limit /\ ~(Cardinality(T) < limit)
  BY <1>2, <1>3 DEF Latest
<1>8. Cardinality(S) \in Nat /\ Cardinality(T) \in Nat
  BY <1>5, <1>6, FS_CardinalityType
<1> QED
  BY <1>6, <1>7, <1>8

\* The latest records are the first ones of the list DeleteLatest sorts.
LEMMA LatestAreFirst ==
    ASSUME NEW db \in [Keys -> Decodable], NEW books \in BookLists, Listed(books) = Stored(db),
           \A i, j \in DOMAIN books : i < j => ~Newer(db, books[j], books[i]),
           NEW limit \in Nat, NEW i \in DOMAIN books
    PROVE  books[i] \in Latest(db, limit) <=> i <= limit
<1>1. /\ DOMAIN books = 1..Len(books) /\ Len(books) \in Nat
      /\ \A j, k \in 1..Len(books) : books[j] = books[k] => j = k
  BY BookListIsSequence
<1>2. /\ \A j \in DOMAIN books : books[j] \in Stored(db)
      /\ \A k \in Stored(db) : \E j \in DOMAIN books : books[j] = k
  BY DEF Listed
<1>3. \A j \in DOMAIN books : Newer(db, books[j], books[i]) <=> j < i
  <2> TAKE j \in DOMAIN books
  <2>1. CASE j < i
    <3>1. ~Newer(db, books[i], books[j]) /\ books[i] # books[j]
      BY <1>1, <2>1
    <3> QED
      BY <1>2, <2>1, <3>1, NewerIsTotal
  <2>2. CASE j = i
    BY <1>1, <1>2, <2>2, NewerIsTotal
  <2>3. CASE j > i
    BY <1>1, <2>3
  <2> QED
    BY <1>1, <2>1, <2>2, <2>3
<1>4. PICK S : S = { k \in Stored(db) : Newer(db, k, books[i]) }
  OBVIOUS
<1>5. PICK n \in Nat : n = i - 1
  BY <1>1
<1>6. \A j \in 1..n : j \in DOMAIN books /\ j < i
  BY <1>1, <1>5
<1>7. PICK f : f = [j \in 1..n |-> books[j]]
  OBVIOUS
<1>8. \A j \in 1..n : f[j] = books[j] /\ f[j] \in S
  BY <1>2, <1>3, <1>4, <1>6, <1>7
<1>9. \A k \in S : \E j \in 1..n : f[j] = k
  <2> TAKE k \in S
  <2>1. PICK j \in DOMAIN books : books[j] = k
    BY <1>2, <1>4
  <2>2. j < i
    BY <1>3, <1>4, <2>1
  <2>3. j \in 1..n
    BY <1>1, <1>5, <2>2
  <2> QED
    BY <1>8, <2>1, <2>3
<1>10. f \in Surjection(1..n, S) /\ f \in Injection(1..n, S)
  <2>1. f \in [1..n -> S]
    BY <1>7, <1>8
  <2>2. \A j, k \in 1..n : f[j] = f[k] => j = k
    BY <1>1, <1>6, <1>8
  <2> QED
    BY <1>9, <2>1, <2>2 DEF Surjection, Injection, IsInjective
<1>11. Cardinality(1..n) = n /\ IsFiniteSet(1..n)
  <2>1. Cardinality(1..n) = IF 1 > n THEN 0 ELSE n - 1 + 1
    BY FS_Interval
  <2> QED
    BY <2>1, FS_Interval
<1>12. Cardinality(S) = n
  BY <1>10, <1>11, FS_Surjection
<1>13. books[i] \in Latest(db, limit) <=> Cardinality(S) < limit
  BY <1>2, <1>4 DEF Latest
<1> QED
  BY <1>1, <1>5, <1>12, <1>13

-----------------------------------------------------------------------------
(* What the operations do to one record                                    *)

\* A list of distinct listings is a sequence of keys, and its tail and its
\* prefixes are too.
LEMMA BookListsAreSequences ==
    ASSUME NEW s \in BookLists
    PROVE  s \in Seq(Keys)
<1>1. PICK n \in 0..Cardinality(Keys) : s \in [1..n -> Keys]
  BY DEF BookLists
<1>2. n \in Nat
  BY <1>1
<1> QED
  BY <1>1, <1>2

\* A discovery yields a record; the queue order is the one it had or the one
\* offered, and it is the offered one exactly when the record needed one.
LEMMA DiscoveredRecord ==
    ASSUME NEW r \in Decodable, NEW now \in Nat, NEW order \in Nat
    PROVE  /\ Discovered(r, now, order) \in Record
           /\ NeedsOrder(r) => Discovered(r, now, order).queueOrder = order
           /\ ~NeedsOrder(r) => /\ r \in Record
                                /\ Discovered(r, now, order).queueOrder = r.queueOrder
<1>1. CASE r = Absent
  BY <1>1 DEF Discovered, NeedsOrder, Record
<1>2. CASE r \in Record
  <2>1. r # Absent
    BY <1>2, ValuesAssumption
  <2> QED
    BY <1>2, <2>1 DEF Discovered, NeedsOrder, Record
<1> QED
  BY <1>1, <1>2 DEF Decodable

\* Marking a record sent leaves its queue order alone.
LEMMA MarkedRecord ==
    ASSUME NEW r \in Record, NEW now \in Nat
    PROVE  /\ MarkedSent(r, now) \in Record
           /\ MarkedSent(r, now).queueOrder = r.queueOrder
BY DEF MarkedSent, Record

\* Migration turns a marker into a record without a queue order and leaves
\* every other value as it was.
LEMMA MigratedValue ==
    ASSUME NEW v \in Value, v # Corrupt, NEW now \in Nat
    PROVE  /\ Migrated(v, now) \in Decodable
           /\ Migrated(v, now) \in Record =>
                \/ Migrated(v, now).queueOrder = 0
                \/ Migrated(v, now) = v
BY DEF Migrated, Value, Record, Decodable

-----------------------------------------------------------------------------
(* The bucket as a whole                                                   *)

\* Dealing with one listing keeps a transaction's queue orders unique when the
\* value it leaves has no queue order, the one it had, or a fresh one.
LEMMA StepKeepsOrders ==
    ASSUME NEW work \in [Keys -> Decodable], NEW seq \in Nat, NEW k \in Keys,
           NEW value \in Decodable, NEW next \in Nat,
           OrdersAllocated(work, seq),
           seq <= next,
           value \in Record =>
              \/ value.queueOrder = 0
              \/ work[k] \in Record /\ value.queueOrder = work[k].queueOrder
              \/ value.queueOrder = next /\ seq < next
    PROVE  OrdersAllocated([work EXCEPT ![k] = value], next)
<1> DEFINE new == [work EXCEPT ![k] = value]
<1>1. \A j \in Keys : new[j] = IF j = k THEN value ELSE work[j]
  OBVIOUS
<1>2. \A r \in Record : r.queueOrder \in Nat
  BY DEF Record
<1>3. ASSUME NEW j \in Keys, new[j] \in Record
      PROVE  new[j].queueOrder <= next
  BY <1>1, <1>2, <1>3 DEF OrdersAllocated
<1>4. ASSUME NEW i \in Keys, NEW j \in Keys, i # j,
             new[i] \in Record, new[j] \in Record, new[i].queueOrder # 0
      PROVE  new[i].queueOrder # new[j].queueOrder
  <2>1. CASE i # k /\ j # k
    BY <2>1, <1>1, <1>4 DEF OrdersAllocated
  <2>2. CASE i = k
    <3>1. new[i] = value /\ new[j] = work[j] /\ work[j] \in Record
      BY <2>2, <1>1, <1>4
    <3>2. work[j].queueOrder <= seq
      BY <3>1 DEF OrdersAllocated
    <3> QED
      BY <2>2, <3>1, <3>2, <1>2, <1>4 DEF OrdersAllocated
  <2>3. CASE j = k
    <3>1. new[j] = value /\ new[i] = work[i] /\ work[i] \in Record
      BY <2>3, <1>1, <1>4
    <3>2. work[i].queueOrder <= seq
      BY <3>1 DEF OrdersAllocated
    <3> QED
      BY <2>3, <3>1, <3>2, <1>2, <1>4 DEF OrdersAllocated
  <2> QED
    BY <2>1, <2>2, <2>3
<1> HIDE DEF new
<1>5. OrdersAllocated(new, next)
  BY <1>3, <1>4 DEF OrdersAllocated
<1> QED
  BY <1>5 DEF new

\* The induction hypothesis as the steps use it.
LEMMA RunningTransaction ==
    ASSUME IInv, NEW op \in Operations, Running(op)
    PROVE  /\ tx # Idle
           /\ tx.work \in [Keys -> Decodable]
           /\ tx.sequence \in Nat
           /\ Head(tx.todo) \in Keys
           /\ Tail(tx.todo) \in Seq(Keys)
           /\ OrdersAllocated(tx.work, tx.sequence)
<1>1. tx # Idle
  BY DEF Running, Idle
<1>2. tx \in Transaction /\ tx.todo # <<>>
  BY DEF IInv, TypeOK, Running
<1>3. tx.work \in [Keys -> Value] /\ tx.sequence \in Nat /\ tx.todo \in Seq(Keys)
  BY <1>2 DEF Transaction
<1>4. tx.work \in [Keys -> Decodable]
  BY <1>1, <1>3 DEF IInv, TransactionIsReadable
<1>5. Head(tx.todo) \in Keys /\ Tail(tx.todo) \in Seq(Keys)
  BY <1>2, <1>3
<1> QED
  BY <1>1, <1>3, <1>4, <1>5 DEF IInv, QueueOrdersUnique

\* One iteration of any operation's loop preserves the invariant.
LEMMA StepPreserves ==
    ASSUME IInv, NEW op \in Operations, Running(op),
           NEW value \in Decodable, NEW next \in Nat,
           Step(value, next),
           tx.sequence <= next,
           value \in Record =>
              \/ value.queueOrder = 0
              \/ /\ tx.work[Head(tx.todo)] \in Record
                 /\ value.queueOrder = tx.work[Head(tx.todo)].queueOrder
              \/ value.queueOrder = next /\ tx.sequence < next
    PROVE  IInv'
<1> DEFINE k == Head(tx.todo)
           new == [tx.work EXCEPT ![k] = value]
<1>1. /\ tx # Idle /\ tx.work \in [Keys -> Decodable] /\ tx.sequence \in Nat
      /\ k \in Keys /\ Tail(tx.todo) \in Seq(Keys)
      /\ OrdersAllocated(tx.work, tx.sequence)
  BY RunningTransaction
<1>2. OrdersAllocated(new, next)
  BY <1>1, StepKeepsOrders
<1>3. new \in [Keys -> Decodable]
  BY <1>1
<1>4. tx \in Transaction /\ tx.op = op
  BY DEF IInv, TypeOK, Running
<1> HIDE DEF k
<1>5. tx' = [op |-> op, work |-> new, sequence |-> next, todo |-> Tail(tx.todo)]
  <2>1. tx' = [tx EXCEPT !.work[k] = value, !.sequence = next, !.todo = Tail(tx.todo)]
    BY DEF Step, k
  <2> QED
    BY <2>1, <1>4 DEF Transaction
<1> HIDE DEF new
<1>6. tx'.op = op /\ tx'.work = new /\ tx'.sequence = next
  BY <1>5
<1>7. tx' \in Transaction
  BY <1>1, <1>3, <1>5 DEF Transaction, Decodable, Value
<1>8. UNCHANGED <<recs, sequence, owner, cycleTime, clock>>
  BY DEF Step
<1>9. TypeOK' /\ OpenFileIsReadable'
  BY <1>7, <1>8 DEF IInv, TypeOK, OpenFileIsReadable
<1>10. TransactionIsReadable'
  BY <1>1, <1>3, <1>6, <1>8 DEF IInv, TransactionIsReadable
<1>11. QueueOrdersUnique'
  BY <1>2, <1>6, <1>8 DEF IInv, QueueOrdersUnique, OrdersAllocated
<1> QED
  BY <1>9, <1>10, <1>11 DEF IInv

\* Starting an operation preserves the invariant.
LEMMA BeginPreserves ==
    ASSUME IInv, NEW op \in Operations, NEW todo \in Seq(Keys), Begin(op, todo)
    PROVE  IInv'
<1>1. /\ owner # Nobody /\ UNCHANGED <<recs, sequence, owner, cycleTime, clock>>
      /\ tx' = [op |-> op, work |-> recs, sequence |-> sequence, todo |-> todo]
  BY DEF Begin, Begun
<1>2. /\ recs \in [Keys -> Value] /\ sequence \in Nat
      /\ \A k \in Keys : recs[k] \in Decodable
      /\ OrdersAllocated(recs, sequence)
  BY <1>1 DEF IInv, TypeOK, OpenFileIsReadable, QueueOrdersUnique, Decodable
<1>3. TypeOK' /\ OpenFileIsReadable'
  BY <1>1, <1>2 DEF IInv, TypeOK, OpenFileIsReadable, Transaction
<1>4. TransactionIsReadable' /\ QueueOrdersUnique'
  BY <1>1, <1>2 DEF TransactionIsReadable, QueueOrdersUnique, OrdersAllocated
<1> QED
  BY <1>3, <1>4 DEF IInv

-----------------------------------------------------------------------------
(* The invariant                                                           *)

\* A new or an older file satisfies the invariant: nothing in it has a queue order.
LEMMA InitEstablishes == Init => IInv
<1> SUFFICES ASSUME Init PROVE IInv
  OBVIOUS
<1>1. \A k \in Keys : recs[k] \in InitialValues
  BY DEF Init
<1>2. TypeOK
  <2>1. recs \in [Keys -> Value] /\ sequence \in Nat
    BY StoreAssumption DEF Init
  <2>2. cycleTime \in 1..MaxTime /\ clock \in 1..MaxTime
    BY StoreAssumption DEF Init
  <2>3. tx \in Transaction
    BY DEF Init, Idle, Transaction, Value
  <2> QED
    BY <2>1, <2>2, <2>3 DEF Init, TypeOK
<1>3. OpenFileIsReadable /\ TransactionIsReadable
  BY DEF Init, OpenFileIsReadable, TransactionIsReadable
<1>4. QueueOrdersUnique
  BY <1>1, StoreAssumption DEF Init, QueueOrdersUnique, OrdersAllocated
<1> QED
  BY <1>2, <1>3, <1>4 DEF IInv

\* Opening the file, with its migration, preserves the invariant.
LEMMA OpenPreserves == ASSUME IInv, NEW p \in Processes, Open(p) PROVE IInv'
<1>1. /\ owner = Nobody /\ owner' = p /\ cycleTime' = clock
      /\ recs' = [k \in Keys |-> Migrated(recs[k], clock)]
      /\ UNCHANGED <<sequence, tx, clock>>
      /\ \A k \in Keys : recs[k] \in Value /\ recs[k] # Corrupt
      /\ clock \in Nat
  BY DEF Open, MigrateAll, IInv, TypeOK
<1>2. \A k \in Keys :
         /\ recs'[k] \in Decodable
         /\ recs'[k] \in Record => recs'[k].queueOrder = 0 \/ recs'[k] = recs[k]
  BY <1>1, MigratedValue
<1>3. tx = Idle
  BY <1>1 DEF IInv, TransactionIsReadable
<1>4. TypeOK'
  BY <1>1, <1>2 DEF IInv, TypeOK, Decodable, Value
<1>5. OpenFileIsReadable' /\ TransactionIsReadable'
  BY <1>1, <1>2, <1>3 DEF OpenFileIsReadable, TransactionIsReadable, Decodable
<1>6. OrdersAllocated(recs', sequence)
  <2>1. OrdersAllocated(recs, sequence) /\ sequence \in Nat
    BY DEF IInv, TypeOK, QueueOrdersUnique
  <2>2. \A r \in Record : r.queueOrder \in Nat
    BY DEF Record
  <2>3. \A k \in Keys : recs'[k] \in Record =>
           recs'[k].queueOrder = 0 \/ (recs[k] \in Record /\ recs'[k].queueOrder = recs[k].queueOrder)
    BY <1>2
  <2> QED
    BY <2>1, <2>2, <2>3 DEF OrdersAllocated
<1>7. QueueOrdersUnique'
  BY <1>1, <1>3, <1>6 DEF QueueOrdersUnique, OrdersAllocated
<1> QED
  BY <1>4, <1>5, <1>7 DEF IInv

\* A commit preserves the invariant: the working copy was a sound bucket.
LEMMA CommitPreserves == ASSUME IInv, Commit PROVE IInv'
<1>1. /\ tx # Idle /\ tx' = Idle /\ recs' = tx.work /\ sequence' = tx.sequence
      /\ UNCHANGED <<owner, cycleTime, clock>>
  BY DEF Commit, Idle
<1>2. /\ tx.work \in [Keys -> Value] /\ tx.sequence \in Nat
      /\ \A k \in Keys : tx.work[k] \in Decodable
      /\ OrdersAllocated(tx.work, tx.sequence)
  BY <1>1 DEF IInv, TypeOK, Transaction, TransactionIsReadable, QueueOrdersUnique
<1>3. Idle \in Transaction
  BY DEF Idle, Transaction, Value
<1> QED
  BY <1>1, <1>2, <1>3
     DEF IInv, TypeOK, OpenFileIsReadable, TransactionIsReadable, QueueOrdersUnique,
         OrdersAllocated, Decodable

\* A transaction that is abandoned leaves the committed bucket as it was.
LEMMA AbandonPreserves ==
    ASSUME IInv, tx' = Idle, UNCHANGED <<recs, sequence, cycleTime, clock>>,
           owner' \in {owner, Nobody}
    PROVE  IInv'
<1>1. Idle \in Transaction
  BY DEF Idle, Transaction, Value
<1> QED
  BY <1>1 DEF IInv, TypeOK, OpenFileIsReadable, TransactionIsReadable, QueueOrdersUnique,
              OrdersAllocated

\* Every step of every process preserves the invariant.
LEMMA NextPreserves == IInv /\ [Next]_vars => IInv'
<1> SUFFICES ASSUME IInv, [Next]_vars PROVE IInv'
  OBVIOUS
<1>1. CASE \E p \in Processes : Open(p)
  BY <1>1, OpenPreserves
<1>2. CASE Close
  BY <1>2 DEF Close, IInv, TypeOK, OpenFileIsReadable, TransactionIsReadable,
              QueueOrdersUnique, OrdersAllocated
<1>3. CASE Crash
  BY <1>3, AbandonPreserves DEF Crash
<1>4. CASE Rollback
  BY <1>4, AbandonPreserves DEF Rollback
<1>5. CASE Commit
  BY <1>5, CommitPreserves
<1>6. CASE BeginDiscover \/ BeginMark \/ BeginPrune
  BY <1>6, BookListsAreSequences, BeginPreserves DEF BeginDiscover, BeginMark, BeginPrune
<1>7. CASE \E limit \in 1..Cardinality(Keys) : BeginForget(limit)
  <2>1. PICK limit \in 1..Cardinality(Keys), books \in BookLists :
           Begin("forget", SubSeq(books, 1, IF limit > Len(books) THEN Len(books) ELSE limit))
    BY <1>7 DEF BeginForget
  <2>2. limit \in Nat /\ books \in Seq(Keys)
    BY <2>1, BookListsAreSequences
  <2>3. SubSeq(books, 1, IF limit > Len(books) THEN Len(books) ELSE limit) \in Seq(Keys)
    BY <2>2
  <2> QED
    BY <2>1, <2>3, BeginPreserves
<1>8. CASE DiscoverOne
  <2> DEFINE old  == tx.work[Head(tx.todo)]
             next == IF NeedsOrder(old) THEN tx.sequence + 1 ELSE tx.sequence
  <2>1. Running("discover") /\ Step(Discovered(old, cycleTime, next), next)
    BY <1>8 DEF DiscoverOne
  <2>2. old \in Decodable /\ tx.sequence \in Nat /\ cycleTime \in Nat
    BY <2>1, RunningTransaction DEF IInv, TypeOK
  <2>3. next \in Nat /\ tx.sequence <= next /\ (NeedsOrder(old) => tx.sequence < next)
    BY <2>2
  <2> HIDE DEF old, next
  <2>4. /\ Discovered(old, cycleTime, next) \in Decodable
        /\ \/ Discovered(old, cycleTime, next).queueOrder = next /\ tx.sequence < next
           \/ old \in Record /\ Discovered(old, cycleTime, next).queueOrder = old.queueOrder
    BY <2>2, <2>3, DiscoveredRecord DEF Decodable
  <2> QED
    BY <2>1, <2>2, <2>3, <2>4, StepPreserves DEF old
<1>9. CASE MarkOne
  <2> DEFINE old == tx.work[Head(tx.todo)]
  <2>1. Running("mark") /\ old # Absent /\ Step(MarkedSent(old, cycleTime), tx.sequence)
    BY <1>9 DEF MarkOne
  <2>2. old \in Record /\ tx.sequence \in Nat /\ cycleTime \in Nat
    BY <2>1, RunningTransaction DEF IInv, TypeOK, Decodable
  <2> HIDE DEF old
  <2>3. /\ MarkedSent(old, cycleTime) \in Decodable
        /\ MarkedSent(old, cycleTime).queueOrder = old.queueOrder
    BY <2>2, MarkedRecord DEF Decodable
  <2> QED
    BY <2>1, <2>2, <2>3, StepPreserves DEF old
<1>10. CASE PruneOne
  <2> DEFINE old == tx.work[Head(tx.todo)]
             new == IF Expired(old, cycleTime, Retention) THEN Absent ELSE old
  <2>1. Running("prune") /\ Step(new, tx.sequence)
    BY <1>10 DEF PruneOne
  <2>2. old \in Decodable /\ tx.sequence \in Nat
    BY <2>1, RunningTransaction
  <2>3. new \in Decodable /\ (new \in Record => old \in Record /\ new.queueOrder = old.queueOrder)
    BY <2>2, ValuesAssumption DEF Decodable
  <2> HIDE DEF old, new
  <2> QED
    BY <2>1, <2>2, <2>3, StepPreserves DEF old
<1>11. CASE ForgetOne
  <2>1. Running("forget") /\ Step(Absent, tx.sequence)
    BY <1>11 DEF ForgetOne
  <2>2. tx.sequence \in Nat /\ Absent \in Decodable /\ Absent \notin Record
    BY <2>1, RunningTransaction, ValuesAssumption DEF Decodable
  <2> QED
    BY <2>1, <2>2, StepPreserves
<1>12. CASE Tick
  BY <1>12, StoreAssumption
     DEF Tick, IInv, TypeOK, OpenFileIsReadable, TransactionIsReadable, QueueOrdersUnique,
         OrdersAllocated
<1>13. CASE UNCHANGED vars \/ \E p \in Processes : OpenRejected(p)
  BY <1>13 DEF OpenRejected, vars, IInv, TypeOK, OpenFileIsReadable, TransactionIsReadable,
               QueueOrdersUnique, OrdersAllocated
<1> QED
  BY <1>1, <1>2, <1>3, <1>4, <1>5, <1>6, <1>7, <1>8, <1>9, <1>10, <1>11, <1>12, <1>13
     DEF Next

\* Every behaviour of the store satisfies the inductive invariant.
THEOREM Inductive == Spec => []IInv
BY InitEstablishes, NextPreserves, PTL DEF Spec

\* Every variable of the store keeps its type.
THEOREM TypeCorrect == Spec => []TypeOK
BY Inductive, PTL DEF IInv

\* No two records of a state file, committed or in the making, share a queue
\* order, and the bucket sequence is never behind one.
THEOREM QueueOrdersAreUnique == Spec => []QueueOrdersUnique
BY Inductive, PTL DEF IInv

\* While the file is open every value in it decodes.
THEOREM OpenFilesAreReadable == Spec => []OpenFileIsReadable
BY Inductive, PTL DEF IInv

-----------------------------------------------------------------------------
(* How far a transaction has come                                          *)

\* No listing occurs twice.
Once(s) == \A i, j \in DOMAIN s : s[i] = s[j] => i = j

\* The first i of books are dealt with.
DiscoveredSoFar(books, i) ==
    /\ Len(tx.todo) = Len(books) - i
    /\ \A j \in 1..Len(tx.todo) : tx.todo[j] = books[i + j]
    /\ \A j \in 1..Len(books) :
          tx.work[books[j]] = IF j <= i
                              THEN Discovered(recs[books[j]], cycleTime, sequence + OrdersNeeded(recs, books, j))
                              ELSE recs[books[j]]
    /\ \A k \in Keys \ Listed(books) : tx.work[k] = recs[k]
    /\ tx.sequence = sequence + OrdersNeeded(recs, books, i)

\* The listings in S are marked; none of them is still to be dealt with.
MarkedSoFar(S) ==
    /\ S \subseteq Stored(recs) /\ S \cap Listed(tx.todo) = {}
    /\ \A k \in Keys : tx.work[k] = IF k \in S THEN MarkedSent(recs[k], cycleTime) ELSE recs[k]
    /\ tx.sequence = sequence

\* Of the listings dealt with, the expired ones are deleted.
PrunedSoFar ==
    /\ \A k \in Keys : tx.work[k] = IF k \notin Listed(tx.todo) /\ Expired(recs[k], cycleTime, Retention)
                                    THEN Absent
                                    ELSE recs[k]
    /\ tx.sequence = sequence

\* Of the latest records, those dealt with are deleted.
ForgottenSoFar(limit) ==
    /\ Listed(tx.todo) \subseteq Latest(recs, limit)
    /\ \A k \in Keys : tx.work[k] = IF k \in Latest(recs, limit) /\ k \notin Listed(tx.todo)
                                    THEN Absent
                                    ELSE recs[k]
    /\ tx.sequence = sequence

\* The working copy of a transaction is what its operation makes of the
\* committed records, for the listings it has dealt with.
Progress ==
    /\ cycleTime <= clock
    /\ Once(tx.todo)
    /\ tx.op = "discover" => \E books \in BookLists : \E i \in 0..Len(books) : DiscoveredSoFar(books, i)
    /\ tx.op = "mark" => \E S \in SUBSET Keys : MarkedSoFar(S)
    /\ tx.op = "prune" => PrunedSoFar
    /\ tx.op = "forget" => \E limit \in 1..Cardinality(Keys) : ForgottenSoFar(limit)

\* What an iteration changes.
LEMMA StepEffect ==
    ASSUME IInv, Progress, NEW op \in Operations, Running(op), NEW value, NEW next, Step(value, next)
    PROVE  /\ tx.op = op /\ tx'.op = op /\ tx'.sequence = next
           /\ UNCHANGED <<recs, sequence, owner, cycleTime, clock>>
           /\ \E h \in Keys, n \in Nat :
                 /\ h = Head(tx.todo) /\ tx.todo[1] = h /\ Len(tx.todo) = n + 1 /\ Len(tx'.todo) = n
                 /\ \A j \in 1..n : tx'.todo[j] = tx.todo[j + 1]
                 /\ Listed(tx'.todo) = Listed(tx.todo) \ {h} /\ h \in Listed(tx.todo)
                 /\ \A k \in Keys : tx'.work[k] = IF k = h THEN value ELSE tx.work[k]
                 /\ Once(tx'.todo)
<1>1. /\ tx \in Transaction /\ tx.op = op /\ tx.todo # <<>> /\ tx.todo \in Seq(Keys)
      /\ tx.work \in [Keys -> Value]
  BY DEF IInv, TypeOK, Running, Transaction
<1>2. PICK s \in Seq(Keys) : s = tx.todo
  BY <1>1
<1>3. /\ Head(s) = s[1] /\ Head(s) \in Keys /\ Tail(s) \in Seq(Keys) /\ Len(Tail(s)) = Len(s) - 1
      /\ \A j \in 1..Len(s) - 1 : Tail(s)[j] = s[j + 1]
      /\ Len(s) \in Nat /\ Len(s) # 0 /\ DOMAIN s = 1..Len(s)
  <2>1. s # <<>>
    BY <1>1, <1>2
  <2>2. Len(s) \in Nat /\ Len(s) # 0 /\ DOMAIN s = 1..Len(s)
    BY <2>1, LenProperties, EmptySeq
  <2> QED
    BY <2>1, <2>2, HeadTailProperties
<1>13. PICK h \in Keys : h = Head(s)
  BY <1>3
<1>14. PICK n \in Nat : n = Len(s) - 1
  <2>1. PICK m \in Nat : m = Len(s)
    BY <1>3
  <2>2. m # 0
    BY <1>3, <2>1
  <2>3. m - 1 \in Nat
    BY <2>2
  <2> QED
    BY <2>1, <2>3
<1>15. PICK r \in Seq(Keys) : r = Tail(s)
  BY <1>3
<1>4. h = Head(s) /\ n = Len(s) - 1 /\ r = Tail(s)
  BY <1>13, <1>14, <1>15
<1>5. PICK w \in [Keys -> Value] : w = tx.work
  BY <1>1
<1>6. /\ tx' = [tx EXCEPT !.work[h] = value, !.sequence = next, !.todo = r]
      /\ UNCHANGED <<recs, sequence, owner, cycleTime, clock>>
  BY <1>2, <1>4 DEF Step
<1>7. tx'.op = op /\ tx'.sequence = next /\ tx'.todo = r /\ tx'.work = [w EXCEPT ![h] = value]
  BY <1>1, <1>5, <1>6 DEF Transaction
<1>8. \A k \in Keys : tx'.work[k] = IF k = h THEN value ELSE tx.work[k]
  BY <1>5, <1>7
<1>9. /\ DOMAIN r = 1..n /\ Len(r) = n /\ s[1] = h /\ Len(s) = n + 1
      /\ \A j \in 1..n : r[j] = s[j + 1]
  BY <1>3, <1>4, LenProperties
<1>10. \A i, j \in 1..n + 1 : s[i] = s[j] => i = j
  BY <1>2, <1>3, <1>9 DEF Progress, Once
<1>11. Once(r)
  <2>1. ASSUME NEW i \in 1..n, NEW j \in 1..n, r[i] = r[j] PROVE i = j
    <3>1. i + 1 \in 1..n + 1 /\ j + 1 \in 1..n + 1
      OBVIOUS
    <3>2. s[i + 1] = s[j + 1]
      BY <1>9, <2>1
    <3>3. i + 1 = j + 1
      BY <1>10, <3>1, <3>2
    <3> QED
      BY <3>3
  <2> QED
    BY <1>9, <2>1 DEF Once
<1>12. Listed(r) = Listed(s) \ {h} /\ h \in Listed(s)
  <2>1. ASSUME NEW j \in 1..n PROVE r[j] \in Listed(s) /\ r[j] # h
    <3>1. j + 1 \in 1..n + 1 /\ 1 \in 1..n + 1 /\ j + 1 # 1
      OBVIOUS
    <3>2. s[j + 1] # s[1]
      BY <1>10, <3>1
    <3> QED
      BY <1>3, <1>9, <3>1, <3>2 DEF Listed
  <2>2. ASSUME NEW i \in 1..n + 1, s[i] # h PROVE s[i] \in Listed(r)
    <3>1. i # 1
      BY <1>9, <2>2
    <3>2. PICK j \in 1..n : i = j + 1
      BY <3>1
    <3> QED
      BY <1>9, <3>2 DEF Listed
  <2>3. h \in Listed(s)
    BY <1>3, <1>9 DEF Listed
  <2>4. Listed(r) = { r[j] : j \in 1..n } /\ Listed(s) = { s[i] : i \in 1..n + 1 }
    BY <1>3, <1>9 DEF Listed
  <2>5. Listed(r) \subseteq Listed(s) \ {h}
    BY <2>1, <2>4
  <2>6. Listed(s) \ {h} \subseteq Listed(r)
    BY <2>2, <2>4
  <2> QED
    BY <2>3, <2>5, <2>6
<1>16. /\ h = Head(tx.todo) /\ tx.todo[1] = h /\ Len(tx.todo) = n + 1 /\ Len(tx'.todo) = n
       /\ \A j \in 1..n : tx'.todo[j] = tx.todo[j + 1]
       /\ Listed(tx'.todo) = Listed(tx.todo) \ {h} /\ h \in Listed(tx.todo)
       /\ \A k \in Keys : tx'.work[k] = IF k = h THEN value ELSE tx.work[k]
       /\ Once(tx'.todo)
  BY <1>2, <1>4, <1>7, <1>8, <1>9, <1>11, <1>12
<1> QED
  BY <1>1, <1>6, <1>7, <1>16

\* RecordDiscovered's next listing is dealt with as the whole operation would.
LEMMA DiscoverOneProgresses ==
    ASSUME IInv, Progress, DiscoverOne
    PROVE  Progress'
<1>1. PICK old : old = tx.work[Head(tx.todo)]
  OBVIOUS
<1>2. PICK next : next = IF NeedsOrder(old) THEN tx.sequence + 1 ELSE tx.sequence
  OBVIOUS
<1>3. PICK value : value = Discovered(old, cycleTime, next)
  OBVIOUS
<1>4. Running("discover") /\ Step(value, next)
  BY <1>1, <1>2, <1>3 DEF DiscoverOne
<1>5. /\ tx.op = "discover" /\ tx'.op = "discover" /\ tx'.sequence = next
      /\ UNCHANGED <<recs, sequence, owner, cycleTime, clock>>
  BY <1>4, StepEffect
<1>6. PICK h \in Keys, n \in Nat :
         /\ h = Head(tx.todo) /\ tx.todo[1] = h /\ Len(tx.todo) = n + 1 /\ Len(tx'.todo) = n
         /\ \A j \in 1..n : tx'.todo[j] = tx.todo[j + 1]
         /\ Listed(tx'.todo) = Listed(tx.todo) \ {h} /\ h \in Listed(tx.todo)
         /\ \A k \in Keys : tx'.work[k] = IF k = h THEN value ELSE tx.work[k]
         /\ Once(tx'.todo)
  BY <1>4, StepEffect
<1>7. PICK books \in BookLists : \E i \in 0..Len(books) : DiscoveredSoFar(books, i)
  BY <1>5 DEF Progress
<1>8. /\ DOMAIN books = 1..Len(books) /\ Len(books) \in Nat
      /\ \A i, j \in 1..Len(books) : books[i] = books[j] => i = j
  BY BookListIsSequence
<1>9. PICK i \in 0..Len(books) : DiscoveredSoFar(books, i)
  BY <1>7
<1>10. PICK all \in Nat : all = Len(books)
  BY <1>8
<1>11. i \in Nat /\ i <= all /\ n + 1 = all - i
  <2>1. Len(tx.todo) = Len(books) - i
    BY <1>9 DEF DiscoveredSoFar
  <2>2. i \in 0..all
    BY <1>10
  <2> QED
    BY <1>6, <1>10, <2>1, <2>2
<1>12. PICK l \in Nat : l = i + 1
  BY <1>11
<1>13. l \in 1..all /\ l \in 0..Len(books) /\ l > i
  BY <1>10, <1>11, <1>12
<1>14. books[l] = h
  <2>1. 1 \in 1..Len(tx.todo)
    BY <1>6
  <2>2. tx.todo[1] = books[i + 1]
    BY <1>9, <2>1 DEF DiscoveredSoFar
  <2> QED
    BY <1>6, <1>12, <2>2
<1>15. old = recs[h]
  <2>1. ~(l <= i)
    BY <1>11, <1>13
  <2>2. tx.work[books[l]] = recs[books[l]]
    BY <1>9, <1>10, <1>13, <2>1 DEF DiscoveredSoFar
  <2> QED
    BY <1>1, <1>6, <1>14, <2>2
<1>16. next = sequence + OrdersNeeded(recs, books, l)
  <2>1. PICK c \in Nat : c = OrdersNeeded(recs, books, i)
    BY <1>11, <1>12, OrdersNeededGrows
  <2>2. OrdersNeeded(recs, books, l) = IF NeedsOrder(recs[books[l]]) THEN c + 1 ELSE c
    BY <1>11, <1>12, <2>1, OrdersNeededGrows
  <2>3. tx.sequence = sequence + c /\ sequence \in Nat
    BY <1>9, <2>1 DEF DiscoveredSoFar, IInv, TypeOK
  <2> QED
    BY <1>2, <1>14, <1>15, <2>2, <2>3
<1>17. ASSUME NEW j \in 1..all
       PROVE  tx'.work[books[j]] = IF j <= l
                                   THEN Discovered(recs[books[j]], cycleTime, sequence + OrdersNeeded(recs, books, j))
                                   ELSE recs[books[j]]
  <2>0. books[j] \in Keys
    BY <1>8, <1>10, BookListIsSequence, ElementOfSeq
  <2>1. CASE j = l
    BY <1>3, <1>6, <1>14, <1>15, <1>16, <2>1
  <2>2. CASE j # l
    <3>1. books[j] # h
      BY <1>8, <1>10, <1>13, <1>14, <2>2
    <3>2. j <= l <=> j <= i
      BY <1>11, <1>12, <2>2
    <3>3. tx.work[books[j]] = IF j <= i
                              THEN Discovered(recs[books[j]], cycleTime, sequence + OrdersNeeded(recs, books, j))
                              ELSE recs[books[j]]
      BY <1>9, <1>10 DEF DiscoveredSoFar
    <3> QED
      BY <1>6, <2>0, <3>1, <3>2, <3>3
  <2> QED
    BY <2>1, <2>2
<1>18. ASSUME NEW k \in Keys \ Listed(books) PROVE tx'.work[k] = recs[k]
  <2>1. k # h
    BY <1>8, <1>10, <1>13, <1>14 DEF Listed
  <2> QED
    BY <1>6, <1>9, <2>1 DEF DiscoveredSoFar
<1>19. ASSUME NEW j \in 1..n PROVE tx'.todo[j] = books[l + j]
  <2>1. PICK m \in Nat : m = j + 1
    OBVIOUS
  <2>2. m \in 1..Len(tx.todo) /\ i + m = l + j
    BY <1>6, <1>11, <1>12, <2>1
  <2>3. tx.todo[m] = books[i + m]
    BY <1>9, <2>2 DEF DiscoveredSoFar
  <2> QED
    BY <1>6, <2>1, <2>2, <2>3
<1>20. n = all - l
  BY <1>11, <1>12
<1>21. DiscoveredSoFar(books, l)'
  BY <1>5, <1>6, <1>10, <1>16, <1>17, <1>18, <1>19, <1>20 DEF DiscoveredSoFar
<1> QED
  BY <1>5, <1>6, <1>13, <1>21 DEF Progress

\* So is MarkSent's.
LEMMA MarkOneProgresses ==
    ASSUME IInv, Progress, MarkOne
    PROVE  Progress'
<1>1. PICK old : old = tx.work[Head(tx.todo)]
  OBVIOUS
<1>2. PICK value : value = MarkedSent(old, cycleTime)
  OBVIOUS
<1>3. Running("mark") /\ Step(value, tx.sequence) /\ old # Absent
  BY <1>1, <1>2 DEF MarkOne
<1>4. /\ tx.op = "mark" /\ tx'.op = "mark" /\ tx'.sequence = tx.sequence
      /\ UNCHANGED <<recs, sequence, owner, cycleTime, clock>>
  BY <1>3, StepEffect
<1>5. PICK h \in Keys, n \in Nat :
         /\ h = Head(tx.todo) /\ tx.todo[1] = h /\ Len(tx.todo) = n + 1 /\ Len(tx'.todo) = n
         /\ \A j \in 1..n : tx'.todo[j] = tx.todo[j + 1]
         /\ Listed(tx'.todo) = Listed(tx.todo) \ {h} /\ h \in Listed(tx.todo)
         /\ \A k \in Keys : tx'.work[k] = IF k = h THEN value ELSE tx.work[k]
         /\ Once(tx'.todo)
  BY <1>3, StepEffect
<1>6. PICK S \in SUBSET Keys : MarkedSoFar(S)
  BY <1>4 DEF Progress
<1>7. old = recs[h] /\ h \in Stored(recs)
  BY <1>1, <1>3, <1>5, <1>6 DEF MarkedSoFar, Stored
<1>8. MarkedSoFar(S \cup {h})'
  BY <1>2, <1>4, <1>5, <1>6, <1>7 DEF MarkedSoFar, Stored
<1> QED
  BY <1>4, <1>5, <1>8 DEF Progress

\* So is Prune's.
LEMMA PruneOneProgresses ==
    ASSUME IInv, Progress, PruneOne
    PROVE  Progress'
<1>1. PICK old : old = tx.work[Head(tx.todo)]
  OBVIOUS
<1>2. PICK value : value = IF Expired(old, cycleTime, Retention) THEN Absent ELSE old
  OBVIOUS
<1>3. Running("prune") /\ Step(value, tx.sequence)
  BY <1>1, <1>2 DEF PruneOne
<1>4. /\ tx.op = "prune" /\ tx'.op = "prune" /\ tx'.sequence = tx.sequence
      /\ UNCHANGED <<recs, sequence, owner, cycleTime, clock>>
  BY <1>3, StepEffect
<1>5. PICK h \in Keys, n \in Nat :
         /\ h = Head(tx.todo) /\ tx.todo[1] = h /\ Len(tx.todo) = n + 1 /\ Len(tx'.todo) = n
         /\ \A j \in 1..n : tx'.todo[j] = tx.todo[j + 1]
         /\ Listed(tx'.todo) = Listed(tx.todo) \ {h} /\ h \in Listed(tx.todo)
         /\ \A k \in Keys : tx'.work[k] = IF k = h THEN value ELSE tx.work[k]
         /\ Once(tx'.todo)
  BY <1>3, StepEffect
<1>6. PrunedSoFar
  BY <1>4 DEF Progress
<1>7. old = recs[h]
  BY <1>1, <1>5, <1>6 DEF PrunedSoFar
<1>8. PrunedSoFar'
  BY <1>2, <1>4, <1>5, <1>6, <1>7 DEF PrunedSoFar
<1> QED
  BY <1>4, <1>5, <1>8 DEF Progress

\* So is DeleteLatest's.
LEMMA ForgetOneProgresses ==
    ASSUME IInv, Progress, ForgetOne
    PROVE  Progress'
<1>1. Running("forget") /\ Step(Absent, tx.sequence)
  BY DEF ForgetOne
<1>2. /\ tx.op = "forget" /\ tx'.op = "forget" /\ tx'.sequence = tx.sequence
      /\ UNCHANGED <<recs, sequence, owner, cycleTime, clock>>
  BY <1>1, StepEffect
<1>3. PICK h \in Keys, n \in Nat :
         /\ h = Head(tx.todo) /\ tx.todo[1] = h /\ Len(tx.todo) = n + 1 /\ Len(tx'.todo) = n
         /\ \A j \in 1..n : tx'.todo[j] = tx.todo[j + 1]
         /\ Listed(tx'.todo) = Listed(tx.todo) \ {h} /\ h \in Listed(tx.todo)
         /\ \A k \in Keys : tx'.work[k] = IF k = h THEN Absent ELSE tx.work[k]
         /\ Once(tx'.todo)
  BY <1>1, StepEffect
<1>4. PICK limit \in 1..Cardinality(Keys) : ForgottenSoFar(limit)
  BY <1>2 DEF Progress
<1>5. ForgottenSoFar(limit)'
  BY <1>2, <1>3, <1>4 DEF ForgottenSoFar
<1> QED
  BY <1>2, <1>3, <1>5 DEF Progress

\* An operation starts with nothing done.
LEMMA BeginProgresses ==
    ASSUME IInv, Progress, NEW op \in Operations, NEW todo \in Seq(Keys), Begin(op, todo), Once(todo),
           op = "discover" => todo \in BookLists,
           op = "prune" => Listed(todo) = Keys,
           op = "forget" => \E limit \in 1..Cardinality(Keys) :
                               \A k \in Keys : k \in Listed(todo) <=> k \in Latest(recs, limit)
    PROVE  Progress'
<1>1. /\ UNCHANGED <<recs, sequence, owner, cycleTime, clock>>
      /\ tx' = [op |-> op, work |-> recs, sequence |-> sequence, todo |-> todo]
      /\ sequence \in Nat
  BY DEF Begin, Begun, IInv, TypeOK
<1>2. tx'.op = op /\ tx'.work = recs /\ tx'.sequence = sequence /\ tx'.todo = todo
  BY <1>1
<1>3. ASSUME op = "discover" PROVE DiscoveredSoFar(todo, 0)' /\ 0 \in 0..Len(todo)
  <2>1. Len(todo) \in Nat /\ DOMAIN todo = 1..Len(todo)
    BY LenProperties
  <2>2. OrdersNeeded(recs, todo, 0) = 0
    <3>1. PICK i \in Nat, j \in Nat : i = 0 /\ j = i + 1
      OBVIOUS
    <3> QED
      BY <3>1, OrdersNeededGrows
  <2>3. PICK n \in Nat : n = Len(todo)
    BY <2>1
  <2>4. \A j \in 1..n : ~(j <= 0) /\ 0 + j = j
    OBVIOUS
  <2>5. n - 0 = n /\ sequence + 0 = sequence /\ 0 \in 0..n
    BY <1>1
  <2>6. DiscoveredSoFar(todo, 0)'
    BY <1>1, <1>2, <2>2, <2>3, <2>4, <2>5 DEF DiscoveredSoFar
  <2> QED
    BY <2>3, <2>5, <2>6
<1>4. MarkedSoFar({})'
  BY <1>1, <1>2 DEF MarkedSoFar
<1>5. ASSUME op = "prune" PROVE PrunedSoFar'
  BY <1>1, <1>2, <1>5 DEF PrunedSoFar
<1>6. ASSUME op = "forget" PROVE \E limit \in 1..Cardinality(Keys) : ForgottenSoFar(limit)'
  <2>1. PICK limit \in 1..Cardinality(Keys) :
           \A k \in Keys : k \in Listed(todo) <=> k \in Latest(recs, limit)
    BY <1>6
  <2>2. Listed(todo) \subseteq Keys
    BY LenProperties, ElementOfSeq DEF Listed
  <2>3. ForgottenSoFar(limit)'
    BY <1>1, <1>2, <2>1, <2>2 DEF ForgottenSoFar
  <2> QED
    BY <2>3
<1>7. op = "discover" => \E books \in BookLists : \E i \in 0..Len(books) : DiscoveredSoFar(books, i)'
  BY <1>3
<1> QED
  BY <1>1, <1>2, <1>4, <1>5, <1>6, <1>7 DEF Progress

\* Nothing is under way without a transaction.
LEMMA IdleProgresses ==
    ASSUME tx = Idle, cycleTime <= clock
    PROVE  Progress
<1>1. tx.op = "idle" /\ tx.todo = <<>>
  BY DEF Idle
<1>2. Once(tx.todo)
  BY <1>1 DEF Once
<1> QED
  BY <1>1, <1>2 DEF Progress

\* DeleteLatest is given the latest records.
LEMMA ForgetBegins ==
    ASSUME IInv, Progress, NEW limit \in 1..Cardinality(Keys), BeginForget(limit)
    PROVE  Progress'
<1>1. PICK books \in BookLists :
         /\ Listed(books) = Stored(recs)
         /\ \A i, j \in DOMAIN books : i < j => ~Newer(recs, books[j], books[i])
         /\ Begin("forget", SubSeq(books, 1, IF limit > Len(books) THEN Len(books) ELSE limit))
  BY DEF BeginForget, SortedBy
<1>2. recs \in [Keys -> Decodable]
  BY <1>1 DEF Begin, IInv, TypeOK, OpenFileIsReadable, Decodable
<1>3. /\ books \in Seq(Keys) /\ DOMAIN books = 1..Len(books) /\ Len(books) \in Nat
      /\ \A i, j \in 1..Len(books) : books[i] = books[j] => i = j
  BY BookListIsSequence
<1>6. limit \in Nat
  <2>1. Cardinality(Keys) \in Nat
    BY KeysAssumption, FS_CardinalityType
  <2> QED
    BY <2>1
<1>12. PICK all \in Nat : all = Len(books)
  BY <1>3
<1>4. PICK n \in Nat : n = IF limit > all THEN all ELSE limit
  BY <1>6
<1>5. PICK todo : todo = SubSeq(books, 1, n)
  OBVIOUS
<1>7. n <= Len(books) /\ n <= limit /\ \A i \in 1..Len(books) : i <= limit <=> i <= n
  <2>1. n <= all /\ n <= limit /\ \A i \in 1..all : i <= limit <=> i <= n
    BY <1>4, <1>6
  <2> QED
    BY <1>12, <2>1
<1>8. \A i \in 1..n : books[i] \in Keys /\ i \in 1..Len(books) /\ i <= limit
  <2>1. \A i \in 1..n : i \in 1..Len(books) /\ i <= limit
    BY <1>3, <1>6, <1>7
  <2> QED
    BY <1>3, <2>1, ElementOfSeq
<1>9. todo \in Seq(Keys) /\ DOMAIN todo = 1..n /\ \A i \in 1..n : todo[i] = books[i]
  <2>1. /\ todo \in Seq(Keys) /\ Len(todo) = (IF 1 <= n THEN n - 1 + 1 ELSE 0)
        /\ \A i \in 1..n - 1 + 1 : todo[i] = books[1 + i - 1]
    BY <1>5, <1>8, SubSeqProperties
  <2>2. n - 1 + 1 = n /\ \A i \in 1..n : 1 + i - 1 = i
    OBVIOUS
  <2>3. Len(todo) = n
    BY <2>1
  <2> QED
    BY <2>1, <2>2, <2>3, LenProperties
<1>10. Once(todo)
  BY <1>3, <1>8, <1>9 DEF Once
<1>11. ASSUME NEW k \in Keys PROVE k \in Listed(todo) <=> k \in Latest(recs, limit)
  <2>1. \A i \in 1..Len(books) : books[i] \in Latest(recs, limit) <=> i <= limit
    BY <1>1, <1>2, <1>3, <1>6, LatestAreFirst
  <2>2. ASSUME k \in Listed(todo) PROVE k \in Latest(recs, limit)
    <3>1. PICK i \in 1..n : k = books[i]
      BY <1>9, <2>2 DEF Listed
    <3> QED
      BY <1>8, <2>1, <3>1
  <2>3. ASSUME k \in Latest(recs, limit) PROVE k \in Listed(todo)
    <3>1. k \in Listed(books)
      BY <1>1, <2>3 DEF Latest
    <3>2. PICK i \in 1..Len(books) : k = books[i]
      BY <1>3, <3>1 DEF Listed
    <3>3. i <= n
      BY <1>7, <2>1, <2>3, <3>2
    <3>4. i \in 1..n
      BY <1>3, <3>3
    <3> QED
      BY <1>9, <3>2, <3>4 DEF Listed
  <2> QED
    BY <2>2, <2>3
<1> QED
  BY <1>1, <1>4, <1>5, <1>9, <1>10, <1>11, <1>12, BeginProgresses

\* No step of any process makes a transaction depart from its operation.
LEMMA NextProgresses ==
    ASSUME IInv, Progress, [Next]_vars
    PROVE  Progress'
<1>0. cycleTime <= clock /\ cycleTime \in Nat /\ clock \in Nat
  BY DEF Progress, IInv, TypeOK
<1>1. CASE \E p \in Processes : Open(p)
  <2>1. tx' = Idle /\ cycleTime' = clock /\ clock' = clock
    BY <1>1 DEF Open, IInv, TransactionIsReadable
  <2>2. tx'.op = "idle" /\ tx'.todo = <<>> /\ cycleTime' <= clock'
    BY <1>0, <2>1 DEF Idle
  <2> QED
    BY <2>2 DEF Progress, Once
<1>2. CASE Crash \/ Rollback \/ Commit
  <2>1. tx'.op = "idle" /\ tx'.todo = <<>> /\ cycleTime' <= clock'
    BY <1>0, <1>2 DEF Crash, Rollback, Commit, Idle
  <2> QED
    BY <2>1 DEF Progress, Once
<1>3. CASE BeginDiscover
  <2>1. PICK books \in BookLists : Begin("discover", books)
    BY <1>3 DEF BeginDiscover
  <2>2. books \in Seq(Keys) /\ Once(books)
    BY BookListIsSequence DEF Once
  <2> QED
    BY <2>1, <2>2, BeginProgresses
<1>4. CASE BeginMark
  <2>1. PICK books \in BookLists : Begin("mark", books)
    BY <1>4 DEF BeginMark
  <2>2. books \in Seq(Keys) /\ Once(books)
    BY BookListIsSequence DEF Once
  <2> QED
    BY <2>1, <2>2, BeginProgresses
<1>5. CASE BeginPrune
  <2>1. PICK books \in BookLists : Begin("prune", books) /\ Listed(books) = Keys
    BY <1>5 DEF BeginPrune
  <2>2. books \in Seq(Keys) /\ Once(books)
    BY BookListIsSequence DEF Once
  <2> QED
    BY <2>1, <2>2, BeginProgresses
<1>6. CASE \E limit \in 1..Cardinality(Keys) : BeginForget(limit)
  BY <1>6, ForgetBegins
<1>7. CASE DiscoverOne \/ MarkOne \/ PruneOne \/ ForgetOne
  BY <1>7, DiscoverOneProgresses, MarkOneProgresses, PruneOneProgresses, ForgetOneProgresses
<1>8. CASE Tick \/ Close \/ (\E p \in Processes : OpenRejected(p)) \/ UNCHANGED vars
  <2>1. /\ UNCHANGED <<recs, sequence, cycleTime, tx>>
        /\ cycleTime' <= clock'
    BY <1>0, <1>8 DEF Tick, Close, OpenRejected, vars
  <2>2. tx.op = "discover" =>
           (\E books \in BookLists : \E i \in 0..Len(books) : DiscoveredSoFar(books, i))'
    BY <2>1 DEF Progress, DiscoveredSoFar
  <2>3. tx.op = "mark" => (\E S \in SUBSET Keys : MarkedSoFar(S))'
    BY <2>1 DEF Progress, MarkedSoFar
  <2>4. tx.op = "prune" => PrunedSoFar'
    BY <2>1 DEF Progress, PrunedSoFar
  <2>5. tx.op = "forget" => (\E limit \in 1..Cardinality(Keys) : ForgottenSoFar(limit))'
    BY <2>1 DEF Progress, ForgottenSoFar
  <2>6. Once(tx.todo)'
    BY <2>1 DEF Progress
  <2> QED
    BY <2>1, <2>2, <2>3, <2>4, <2>5, <2>6 DEF Progress
<1> QED
  BY <1>1, <1>2, <1>3, <1>4, <1>5, <1>6, <1>7, <1>8 DEF Next

\* The working copy of a transaction never departs from what its operation
\* makes of the committed records.
THEOREM TransactionsKeepPace == Spec => [](IInv /\ Progress)
<1>1. Init => Progress
  <2> SUFFICES ASSUME Init PROVE Progress
    OBVIOUS
  <2>1. tx = Idle /\ cycleTime <= clock
    BY DEF Init
  <2> QED
    BY <2>1, IdleProgresses
<1> QED
  BY <1>1, InitEstablishes, NextPreserves, NextProgresses, PTL DEF Spec

-----------------------------------------------------------------------------
(* The ledger                                                              *)

\* The operators of the ledger are the store's.
LEMMA LedgerSpeaksOfTheSame ==
    /\ \A S : Ledger!Cardinality(S) = Cardinality(S)
    /\ Ledger!BookLists = BookLists
    /\ \A r : Ledger!Stored(r) = Stored(r)
    /\ \A r, now : Ledger!MigrateAll(r, now) = MigrateAll(r, now)
    /\ \A r, books, i : Ledger!OrdersNeeded(r, books, i) = OrdersNeeded(r, books, i)
    /\ \A r, seq, books, now : Ledger!DiscoverAll(r, seq, books, now) = DiscoverAll(r, seq, books, now)
    /\ \A r, S, now : Ledger!MarkAllSent(r, S, now) = MarkAllSent(r, S, now)
    /\ \A r, now, retention : Ledger!PruneAll(r, now, retention) = PruneAll(r, now, retention)
    /\ \A r, S : Ledger!DeleteAll(r, S) = DeleteAll(r, S)
    /\ \A r, limit : Ledger!Latest(r, limit) = Latest(r, limit)
<1>0. \A S : Ledger!Cardinality(S) = Cardinality(S)
  BY Zenon DEF Ledger!Cardinality, Cardinality
<1>1. Ledger!BookLists = BookLists
  BY <1>0 DEF Ledger!BookLists, BookLists
<1>2. \A r : Ledger!Stored(r) = Stored(r)
  BY Zenon DEF Ledger!Stored, Stored
<1>3. \A r, now : Ledger!MigrateAll(r, now) = MigrateAll(r, now)
  BY Zenon DEF Ledger!MigrateAll, MigrateAll, Ledger!Migrated, Migrated
<1>4. \A r, books, i : Ledger!OrdersNeeded(r, books, i) = OrdersNeeded(r, books, i)
  BY Zenon DEF Ledger!OrdersNeeded, OrdersNeeded, Ledger!NeedsOrder, NeedsOrder,
               Ledger!Cardinality, Cardinality
<1>5. \A r, seq, books, now : Ledger!DiscoverAll(r, seq, books, now) = DiscoverAll(r, seq, books, now)
  <2>1. \A r, now, order : Ledger!Discovered(r, now, order) = Discovered(r, now, order)
    BY Zenon DEF Ledger!Discovered, Discovered, Ledger!NeedsOrder, NeedsOrder
  <2>2. \A s : Ledger!Listed(s) = Listed(s)
    BY Zenon DEF Ledger!Listed, Listed
  <2> TAKE r, seq, books, now
  <2>3. ASSUME NEW k \in Keys
        PROVE  DiscoverAll(r, seq, books, now)[k] = Ledger!DiscoverAll(r, seq, books, now)[k]
    <3>1. PICK i : i = CHOOSE j \in DOMAIN books : books[j] = k
      OBVIOUS
    <3>2. DiscoverAll(r, seq, books, now)[k]
          = IF k \in Listed(books)
            THEN LET j == CHOOSE j \in DOMAIN books : books[j] = k
                 IN  Discovered(r[k], now, seq + OrdersNeeded(r, books, j))
            ELSE r[k]
      BY SMT DEF DiscoverAll
    <3>3. Ledger!DiscoverAll(r, seq, books, now)[k]
          = IF k \in Ledger!Listed(books)
            THEN LET j == CHOOSE j \in DOMAIN books : books[j] = k
                 IN  Ledger!Discovered(r[k], now, seq + Ledger!OrdersNeeded(r, books, j))
            ELSE r[k]
      BY SMT DEF Ledger!DiscoverAll
    <3>4. DiscoverAll(r, seq, books, now)[k]
          = IF k \in Listed(books) THEN Discovered(r[k], now, seq + OrdersNeeded(r, books, i)) ELSE r[k]
      BY Zenon, <3>1, <3>2
    <3>5. Ledger!DiscoverAll(r, seq, books, now)[k]
          = IF k \in Ledger!Listed(books)
            THEN Ledger!Discovered(r[k], now, seq + Ledger!OrdersNeeded(r, books, i))
            ELSE r[k]
      BY Zenon, <3>1, <3>3
    <3> QED
      BY <1>4, <2>1, <2>2, <3>4, <3>5
  <2>4. PICK f : f = DiscoverAll(r, seq, books, now)
    OBVIOUS
  <2>5. PICK g : g = Ledger!DiscoverAll(r, seq, books, now)
    OBVIOUS
  <2>6. f = [k \in Keys |-> f[k]]
    BY <2>4 DEF DiscoverAll
  <2>7. g = [k \in Keys |-> g[k]]
    BY <2>5 DEF Ledger!DiscoverAll
  <2>8. \A k \in Keys : f[k] = g[k]
    BY <2>3, <2>4, <2>5
  <2> QED
    BY <2>4, <2>5, <2>6, <2>7, <2>8
<1>6. \A r, S, now : Ledger!MarkAllSent(r, S, now) = MarkAllSent(r, S, now)
  BY Zenon DEF Ledger!MarkAllSent, MarkAllSent, Ledger!MarkedSent, MarkedSent
<1>7. \A r, now, retention : Ledger!PruneAll(r, now, retention) = PruneAll(r, now, retention)
  BY Zenon DEF Ledger!PruneAll, PruneAll, Ledger!Expired, Expired
<1>8. \A r, S : Ledger!DeleteAll(r, S) = DeleteAll(r, S)
  BY Zenon DEF Ledger!DeleteAll, DeleteAll
<1>9. \A r, limit : Ledger!Latest(r, limit) = Latest(r, limit)
  BY Zenon DEF Ledger!Latest, Latest, Ledger!Stored, Stored, Ledger!Newer, Newer,
               Ledger!Cardinality, Cardinality
<1> QED
  BY <1>0, <1>1, <1>2, <1>3, <1>4, <1>5, <1>6, <1>7, <1>8, <1>9

\* What a commit starts from: a whole working copy and records that decode.
LEMMA CommitStarts ==
    ASSUME IInv, Progress, Commit
    PROVE  /\ tx.op \in Operations /\ Len(tx.todo) = 0 /\ Listed(tx.todo) = {}
           /\ recs \in [Keys -> Decodable] /\ tx.work \in [Keys -> Decodable]
           /\ recs' \in [Keys -> Decodable]
           /\ \A k \in Keys : recs'[k] = tx.work[k]
           /\ sequence' = tx.sequence /\ sequence \in Nat /\ UNCHANGED clock
           /\ cycleTime \in 1..clock /\ cycleTime \in Nat /\ Ledger!Usable
<1>1. tx # Idle /\ tx.op \in Operations /\ tx.todo = <<>>
  BY DEF Commit, Idle
<1>2. Len(tx.todo) = 0 /\ Listed(tx.todo) = {}
  BY <1>1 DEF Listed
<1>3. /\ recs \in [Keys -> Value] /\ tx.work \in [Keys -> Value] /\ owner # Nobody
      /\ \A k \in Keys : recs[k] \in Decodable /\ tx.work[k] \in Decodable
  BY <1>1 DEF IInv, TypeOK, Transaction, TransactionIsReadable, OpenFileIsReadable, Decodable
<1>4. recs \in [Keys -> Decodable] /\ tx.work \in [Keys -> Decodable]
  BY <1>3
<1>5. Ledger!Usable
  BY <1>3, ValuesAssumption DEF Ledger!Usable, Decodable
<1>6. /\ recs' = tx.work /\ sequence' = tx.sequence /\ UNCHANGED clock
      /\ sequence \in Nat /\ cycleTime \in 1..MaxTime /\ clock \in 1..MaxTime /\ cycleTime <= clock
  BY DEF Commit, IInv, TypeOK, Progress
<1> QED
  BY <1>1, <1>2, <1>4, <1>5, <1>6, StoreAssumption

\* A transaction of discoveries commits as one discovery of the ledger.
LEMMA CommitDiscovers ==
    ASSUME IInv, Progress, Commit, tx.op = "discover"
    PROVE  \E books \in BookLists :
              /\ recs' = DiscoverAll(recs, sequence, books, cycleTime)
              /\ sequence' = sequence + OrdersNeeded(recs, books, Len(books))
<1>1. /\ Len(tx.todo) = 0 /\ recs' \in [Keys -> Decodable]
      /\ \A k \in Keys : recs'[k] = tx.work[k]
      /\ sequence' = tx.sequence
  BY CommitStarts
<1>2. PICK books \in BookLists : \E i \in 0..Len(books) : DiscoveredSoFar(books, i)
  BY DEF Progress
<1>3. DOMAIN books = 1..Len(books) /\ Len(books) \in Nat
  BY BookListIsSequence
<1>4. PICK all \in Nat : all = Len(books)
  BY <1>3
<1>5. PICK i \in 0..Len(books) : DiscoveredSoFar(books, i)
  BY <1>2
<1>6. i = all
  <2>1. 0 = all - i /\ i \in 0..all
    BY <1>1, <1>4, <1>5 DEF DiscoveredSoFar
  <2> QED
    BY <2>1
<1>7. \A j \in 1..all :
         tx.work[books[j]] = Discovered(recs[books[j]], cycleTime, sequence + OrdersNeeded(recs, books, j))
  <2> TAKE j \in 1..all
  <2>1. j <= i
    BY <1>6
  <2> QED
    BY <1>4, <1>5, <2>1 DEF DiscoveredSoFar
<1>8. \A k \in Keys : recs'[k] = IF k \in Listed(books)
                                 THEN LET j == CHOOSE j \in DOMAIN books : books[j] = k
                                      IN  Discovered(recs[k], cycleTime, sequence + OrdersNeeded(recs, books, j))
                                 ELSE recs[k]
  <2> TAKE k \in Keys
  <2>1. CASE k \in Listed(books)
    <3>1. \E j \in DOMAIN books : books[j] = k
      BY <2>1 DEF Listed
    <3>2. PICK j : j = CHOOSE n \in DOMAIN books : books[n] = k
      OBVIOUS
    <3>3. j \in DOMAIN books /\ books[j] = k
      BY <3>1, <3>2
    <3>4. recs'[k] = Discovered(recs[k], cycleTime, sequence + OrdersNeeded(recs, books, j))
      BY <1>1, <1>3, <1>4, <1>7, <3>3
    <3> QED
      BY Zenon, <2>1, <3>2, <3>4
  <2>2. CASE k \notin Listed(books)
    BY <1>1, <1>5, <2>2 DEF DiscoveredSoFar
  <2> QED
    BY <2>1, <2>2
<1>9. recs' = DiscoverAll(recs, sequence, books, cycleTime)
  <2>1. PICK f : f = DiscoverAll(recs, sequence, books, cycleTime)
    OBVIOUS
  <2>2. \A k \in Keys : f[k] = recs'[k]
    BY <1>8, <2>1 DEF DiscoverAll
  <2>3. f = [k \in Keys |-> f[k]]
    BY <2>1 DEF DiscoverAll
  <2> QED
    BY <1>1, <2>1, <2>2, <2>3
<1>10. sequence' = sequence + OrdersNeeded(recs, books, Len(books))
  BY <1>1, <1>4, <1>5, <1>6 DEF DiscoveredSoFar
<1> QED
  BY <1>9, <1>10

\* A transaction of MarkSent commits as one step of the ledger.
LEMMA CommitMarks ==
    ASSUME IInv, Progress, Commit, tx.op = "mark"
    PROVE  \E S \in SUBSET Stored(recs) :
              recs' = MarkAllSent(recs, S, cycleTime) /\ sequence' = sequence
<1>1. PICK S \in SUBSET Keys : MarkedSoFar(S)
  BY DEF Progress
<1>2. \A k \in Keys : recs'[k] = IF k \in S THEN MarkedSent(recs[k], cycleTime) ELSE recs[k]
  BY <1>1, CommitStarts DEF MarkedSoFar
<1>3. recs' = MarkAllSent(recs, S, cycleTime)
  BY <1>2, CommitStarts DEF MarkAllSent
<1> QED
  BY <1>1, <1>3, CommitStarts DEF MarkedSoFar

\* A transaction of Prune commits as one step of the ledger.
LEMMA CommitPrunes ==
    ASSUME IInv, Progress, Commit, tx.op = "prune"
    PROVE  recs' = PruneAll(recs, cycleTime, Retention) /\ sequence' = sequence
<1>1. PrunedSoFar
  BY DEF Progress
<1>2. \A k \in Keys : recs'[k] = IF Expired(recs[k], cycleTime, Retention) THEN Absent ELSE recs[k]
  BY <1>1, CommitStarts DEF PrunedSoFar
<1>3. recs' = PruneAll(recs, cycleTime, Retention)
  BY <1>2, CommitStarts DEF PruneAll
<1> QED
  BY <1>1, <1>3, CommitStarts DEF PrunedSoFar

\* A transaction of DeleteLatest commits as one step of the ledger.
LEMMA CommitForgets ==
    ASSUME IInv, Progress, Commit, tx.op = "forget"
    PROVE  \E limit \in 1..Cardinality(Keys) :
              recs' = DeleteAll(recs, Latest(recs, limit)) /\ sequence' = sequence
<1>1. PICK limit \in 1..Cardinality(Keys) : ForgottenSoFar(limit)
  BY DEF Progress
<1>2. \A k \in Keys : recs'[k] = IF k \in Latest(recs, limit) THEN Absent ELSE recs[k]
  BY <1>1, CommitStarts DEF ForgottenSoFar
<1>3. recs' = DeleteAll(recs, Latest(recs, limit))
  BY <1>2, CommitStarts DEF DeleteAll
<1> QED
  BY <1>1, <1>3, CommitStarts DEF ForgottenSoFar

\* Every step of the store is a step of the ledger or none.
LEMMA LedgerSteps ==
    ASSUME IInv, Progress, [Next]_vars
    PROVE  [Ledger!Next]_(Ledger!vars)
<1>1. CASE \E p \in Processes : Open(p)
  <2>1. Ledger!Migrate
    BY <1>1, LedgerSpeaksOfTheSame DEF Open, Ledger!Migrate
  <2> QED
    BY <2>1 DEF Ledger!Next
<1>2. CASE Commit
  <2>1. tx.op \in Operations /\ cycleTime \in 1..clock /\ Ledger!Usable /\ UNCHANGED clock
    BY <1>2, CommitStarts
  <2>2. ASSUME tx.op = "discover" PROVE Ledger!Discover
    BY <1>2, <2>1, <2>2, CommitDiscovers, LedgerSpeaksOfTheSame DEF Ledger!Discover
  <2>3. ASSUME tx.op = "mark" PROVE Ledger!Mark
    BY <1>2, <2>1, <2>3, CommitMarks, LedgerSpeaksOfTheSame DEF Ledger!Mark
  <2>4. ASSUME tx.op = "prune" PROVE Ledger!Prune
    BY <1>2, <2>1, <2>4, CommitPrunes, LedgerSpeaksOfTheSame DEF Ledger!Prune
  <2>5. ASSUME tx.op = "forget" PROVE Ledger!Forget
    BY <1>2, <2>1, <2>5, CommitForgets, LedgerSpeaksOfTheSame DEF Ledger!Forget
  <2> QED
    BY <2>1, <2>2, <2>3, <2>4, <2>5 DEF Ledger!Next
<1>3. CASE Tick
  BY <1>3 DEF Tick, Ledger!Tick, Ledger!Next
<1>4. CASE \/ Close \/ Crash \/ Rollback \/ UNCHANGED vars \/ \E p \in Processes : OpenRejected(p)
  BY <1>4 DEF Close, Crash, Rollback, OpenRejected, vars, Ledger!vars
<1>5. CASE BeginDiscover \/ BeginMark \/ BeginPrune \/ \E limit \in 1..Cardinality(Keys) : BeginForget(limit)
  BY <1>5 DEF BeginDiscover, BeginMark, BeginPrune, BeginForget, Begin, Ledger!vars
<1>6. CASE DiscoverOne \/ MarkOne \/ PruneOne \/ ForgetOne
  BY <1>6 DEF DiscoverOne, MarkOne, PruneOne, ForgetOne, Step, Ledger!vars
<1> QED
  BY <1>1, <1>2, <1>3, <1>4, <1>5, <1>6 DEF Next

\* The store implements the ledger: whatever is cancelled, lost in a crash or
\* done by another process in between, each operation takes effect on all its
\* listings at one instant, the commit, or not at all.
THEOREM LedgerImplemented == Spec => ImplementsLedger
<1>1. Init => Ledger!Init
  BY DEF Init, Ledger!Init
<1> QED
  BY <1>1, TransactionsKeepPace, LedgerSteps, PTL DEF Spec, ImplementsLedger, Ledger!Spec

-----------------------------------------------------------------------------
(* What a discovery leaves                                                 *)

\* Between two transactions the records are the last commit's.
LEMMA RecordsAreCommitted ==
    ASSUME IInv, [Next]_vars
    PROVE  \/ Commit
           \/ \E p \in Processes : Open(p)
           \/ UNCHANGED recs
<1>1. CASE \/ Close \/ Crash \/ Rollback \/ Tick \/ UNCHANGED vars \/ \E p \in Processes : OpenRejected(p)
  BY <1>1 DEF Close, Crash, Rollback, Tick, OpenRejected, vars
<1>2. CASE BeginDiscover \/ BeginMark \/ BeginPrune \/ \E limit \in 1..Cardinality(Keys) : BeginForget(limit)
  BY <1>2 DEF BeginDiscover, BeginMark, BeginPrune, BeginForget, Begin
<1>3. CASE DiscoverOne \/ MarkOne \/ PruneOne \/ ForgetOne
  BY <1>3 DEF DiscoverOne, MarkOne, PruneOne, ForgetOne, Step
<1> QED
  BY <1>1, <1>2, <1>3 DEF Next

\* A committed record is a new discovery, or the old record with what
\* identifies it; only a record that was never observed gets a time later.
LEMMA CommittedRecord ==
    ASSUME IInv, Progress, Commit, NEW k \in Keys, recs'[k] \in Record
    PROVE  /\ recs[k] \notin Record => recs'[k].observedAt = cycleTime
           /\ recs[k] \in Record =>
                 /\ recs[k].observedAt # 0 => recs'[k].observedAt = recs[k].observedAt
                 /\ recs[k].observedAt = 0 => recs'[k].observedAt \in {0, cycleTime}
                 /\ recs[k].queueOrder # 0 => recs'[k].queueOrder = recs[k].queueOrder
                 /\ recs[k].sent => recs'[k].sent
<1>1. /\ recs'[k] = tx.work[k] /\ tx.op \in Operations
      /\ recs[k] \in Record \cup {Absent}
  BY CommitStarts DEF Decodable
<1> DEFINE Holds ==
             /\ recs[k] \notin Record => recs'[k].observedAt = cycleTime
             /\ recs[k] \in Record =>
                   /\ recs[k].observedAt # 0 => recs'[k].observedAt = recs[k].observedAt
                   /\ recs[k].observedAt = 0 => recs'[k].observedAt \in {0, cycleTime}
                   /\ recs[k].queueOrder # 0 => recs'[k].queueOrder = recs[k].queueOrder
                   /\ recs[k].sent => recs'[k].sent
<1> SUFFICES Holds
  OBVIOUS
<1>2. ASSUME recs'[k] = recs[k] PROVE Holds
  BY <1>2
<1>3. ASSUME NEW order, recs'[k] = Discovered(recs[k], cycleTime, order) PROVE Holds
  <2>1. CASE recs[k] = Absent
    BY <1>3, <2>1, ValuesAssumption DEF Discovered
  <2>2. CASE recs[k] \in Record
    <3>1. recs[k] # Absent
      BY <2>2, ValuesAssumption
    <3> QED
      BY <1>3, <2>2, <3>1 DEF Discovered, NeedsOrder, Record
  <2> QED
    BY <1>1, <2>1, <2>2
<1>4. ASSUME recs[k] \in Record, recs'[k] = MarkedSent(recs[k], cycleTime) PROVE Holds
  BY <1>4 DEF MarkedSent, Record
<1> HIDE DEF Holds
<1>5. CASE tx.op = "discover"
  <2>1. PICK books \in BookLists : \E i \in 0..Len(books) : DiscoveredSoFar(books, i)
    BY <1>5 DEF Progress
  <2>2. PICK i \in 0..Len(books) : DiscoveredSoFar(books, i)
    BY <2>1
  <2>3. CASE k \in Listed(books)
    <3>1. PICK j \in 1..Len(books) : books[j] = k
      BY <2>3, BookListIsSequence DEF Listed
    <3>2. PICK order : order = sequence + OrdersNeeded(recs, books, j)
      OBVIOUS
    <3>3. tx.work[k] = recs[k] \/ tx.work[k] = Discovered(recs[k], cycleTime, order)
      BY <2>2, <3>1, <3>2 DEF DiscoveredSoFar
    <3> QED
      BY <1>1, <1>2, <1>3, <3>3
  <2>4. CASE k \notin Listed(books)
    BY <1>1, <1>2, <2>2, <2>4 DEF DiscoveredSoFar
  <2> QED
    BY <2>3, <2>4
<1>6. CASE tx.op = "mark"
  <2>1. PICK S \in SUBSET Keys : MarkedSoFar(S)
    BY <1>6 DEF Progress
  <2>2. tx.work[k] = recs[k] \/ (recs[k] \in Record /\ tx.work[k] = MarkedSent(recs[k], cycleTime))
    BY <1>1, <2>1 DEF MarkedSoFar, Stored
  <2> QED
    BY <1>1, <1>2, <1>4, <2>2
<1>7. CASE tx.op = "prune"
  BY <1>1, <1>2, <1>7, ValuesAssumption DEF Progress, PrunedSoFar
<1>8. CASE tx.op = "forget"
  <2>1. PICK limit \in 1..Cardinality(Keys) : ForgottenSoFar(limit)
    BY <1>8 DEF Progress
  <2> QED
    BY <1>1, <1>2, <2>1, ValuesAssumption DEF ForgottenSoFar
<1> QED
  BY <1>1, <1>5, <1>6, <1>7, <1>8

\* Opening the file leaves a record as it was.
LEMMA OpenedValue ==
    ASSUME IInv, NEW p \in Processes, Open(p), NEW k \in Keys
    PROVE  /\ recs[k] \in Record => recs'[k] = recs[k]
           /\ recs[k] = Absent => recs'[k] = Absent
           /\ recs'[k] # LegacyMarker
           /\ recs'[k] \in Record /\ recs[k] \notin Record =>
                 /\ recs[k] = LegacyMarker
                 /\ recs'[k].observedAt = clock /\ recs'[k].queueOrder = 0 /\ recs'[k].sent
<1>1. recs' = [j \in Keys |-> Migrated(recs[j], clock)] /\ recs[k] # Corrupt
  BY DEF Open, MigrateAll
<1>2. recs'[k] = Migrated(recs[k], clock)
  BY <1>1
<1>3. recs[k] \in Value /\ clock \in Nat
  BY DEF IInv, TypeOK
<1>4. CASE recs[k] = LegacyMarker
  <2>1. recs'[k] = [observedAt |-> clock, sentAt |-> clock, queueOrder |-> 0, sent |-> TRUE]
    BY <1>2, <1>4 DEF Migrated
  <2>2. recs'[k] \in Record
    BY <1>3, <2>1 DEF Record
  <2>3. recs'[k].observedAt = clock /\ recs'[k].queueOrder = 0 /\ recs'[k].sent
    BY <2>1
  <2>4. recs[k] \notin Record /\ recs[k] # Absent /\ recs'[k] # LegacyMarker
    BY Zenon, <1>4, <2>2, ValuesAssumption
  <2> QED
    BY Zenon, <1>4, <2>3, <2>4
<1>5. CASE recs[k] # LegacyMarker
  BY <1>1, <1>2, <1>3, <1>5 DEF Migrated, Value
<1> QED
  BY <1>4, <1>5

\* Every record of an existing file says when it was observed.
ObservedFiles == \A v \in InitialValues : v \in Record => v.observedAt # 0

\* Every record says when it was observed.
Observed == \A k \in Keys : recs[k] \in Record => recs[k].observedAt # 0

\* Every step leaves every record with the time it was observed.
LEMMA StaysObserved ==
    ASSUME IInv, Progress, Observed, [Next]_vars
    PROVE  Observed'
<1>0. cycleTime \in Nat \ {0} /\ clock \in Nat \ {0}
  BY StoreAssumption DEF IInv, TypeOK
<1>1. CASE Commit
  <2> SUFFICES ASSUME NEW k \in Keys, recs'[k] \in Record PROVE recs'[k].observedAt # 0
    BY DEF Observed
  <2> QED
    BY <1>0, <1>1, CommittedRecord DEF Observed
<1>2. CASE \E p \in Processes : Open(p)
  <2> SUFFICES ASSUME NEW k \in Keys, recs'[k] \in Record PROVE recs'[k].observedAt # 0
    BY DEF Observed
  <2> QED
    BY <1>0, <1>2, OpenedValue DEF Observed
<1>3. CASE UNCHANGED recs
  BY <1>3 DEF Observed
<1> QED
  BY <1>1, <1>2, <1>3, RecordsAreCommitted

\* What identifies a discovery survives every later step until the record is
\* deleted, in every file whose records say when they were observed.
THEOREM DiscoveriesStay ==
    ASSUME ObservedFiles
    PROVE  Spec => DiscoveryIsStable
<1> DEFINE Kept(k) ==
             recs[k] \in Record /\ recs'[k] \in Record =>
                /\ recs'[k].observedAt = recs[k].observedAt
                /\ recs[k].queueOrder # 0 => recs'[k].queueOrder = recs[k].queueOrder
                /\ recs[k].sent => recs'[k].sent
<1>1. Init => Observed
  BY DEF Init, Observed, ObservedFiles
<1>2. IInv /\ Progress /\ Observed /\ [Next]_vars => Observed'
  BY StaysObserved
<1>3. IInv /\ Progress /\ Observed /\ [Next]_vars => \A k \in Keys : Kept(k)
  <2> SUFFICES ASSUME IInv, Progress, Observed, [Next]_vars, NEW k \in Keys PROVE Kept(k)
    OBVIOUS
  <2>1. CASE Commit
    BY <2>1, CommittedRecord DEF Observed
  <2>2. CASE \E p \in Processes : Open(p)
    BY <2>2, OpenedValue
  <2>3. CASE UNCHANGED recs
    BY <2>3
  <2> QED
    BY <2>1, <2>2, <2>3, RecordsAreCommitted
<1>4. IInv /\ Progress /\ Observed /\ [Next]_vars => [\A k \in Keys : Kept(k)]_vars
  BY <1>3
<1>5. [][\A k \in Keys : Kept(k)]_vars => DiscoveryIsStable
  BY PTL DEF DiscoveryIsStable
<1> HIDE DEF Kept
<1> QED
  BY <1>1, <1>2, <1>4, <1>5, TransactionsKeepPace, PTL DEF Spec

-----------------------------------------------------------------------------
(* The queue in time                                                       *)

\* An existing file has nothing left to deliver: its records were observed by
\* the time the clock starts and are sent.
DeliveredFiles ==
    \A v \in InitialValues : v \in Record => v.sent /\ v.observedAt = 1

\* At time t, every record was observed, and one without a queue order is sent.
InTime(r, t) ==
    \A k \in Keys : r[k] \in Record =>
        /\ r[k].observedAt # 0 /\ r[k].observedAt <= t
        /\ r[k].queueOrder = 0 => r[k].sent

\* A record that precedes another in the queue was not observed after it.
InQueue(r) ==
    \A a, b \in Keys :
        r[a] \in Record /\ r[b] \in Record /\ r[a].queueOrder < r[b].queueOrder
        => r[a].observedAt <= r[b].observedAt

\* A file that still holds markers has handed out no queue order.
MarkersFirst ==
    (\E k \in Keys : recs[k] = LegacyMarker)
    => \A k \in Keys : recs[k] \in Record => recs[k].queueOrder = 0

\* What was observed, was observed in the order of the queue and not later
\* than now, now being the wall clock for the file and the time its cycle began
\* for its owner.
Times ==
    /\ MarkersFirst
    /\ InTime(recs, clock) /\ InQueue(recs)
    /\ owner # Nobody => InTime(recs, cycleTime)
    /\ tx # Idle => InTime(tx.work, cycleTime) /\ InQueue(tx.work)

\* Time does no harm.
LEMMA TimePasses ==
    ASSUME NEW r \in [Keys -> Value], NEW t \in Nat, NEW u \in Nat, t <= u, InTime(r, t)
    PROVE  InTime(r, u)
BY DEF InTime, Record

\* Dealing with one listing keeps the records in time and in the queue when the
\* value it leaves is the old record with what identifies it, or is observed
\* now with a queue order above all others.
LEMMA StepKeepsTime ==
    ASSUME NEW work \in [Keys -> Decodable], NEW seq \in Nat, NEW t \in Nat \ {0}, NEW h \in Keys,
           NEW value \in Decodable, NEW next \in Nat,
           OrdersAllocated(work, seq), InTime(work, t), InQueue(work),
           value \in Record =>
              \/ /\ work[h] \in Record
                 /\ value.queueOrder = work[h].queueOrder /\ value.observedAt = work[h].observedAt
                 /\ work[h].sent => value.sent
              \/ value.queueOrder = next /\ seq < next /\ value.observedAt = t
    PROVE  InTime([work EXCEPT ![h] = value], t) /\ InQueue([work EXCEPT ![h] = value])
<1>1. PICK new : new = [work EXCEPT ![h] = value]
  OBVIOUS
<1>2. \A k \in Keys : new[k] = IF k = h THEN value ELSE work[k]
  BY <1>1
<1>3. \A r \in Record : r.queueOrder \in Nat /\ r.observedAt \in Nat
  BY DEF Record
<1>4. ASSUME NEW k \in Keys, new[k] \in Record
      PROVE  /\ new[k].observedAt # 0 /\ new[k].observedAt <= t
             /\ new[k].queueOrder = 0 => new[k].sent
  <2>1. CASE k = h
    BY <2>1, <1>2, <1>3, <1>4 DEF InTime
  <2>2. CASE k # h
    BY <2>2, <1>2, <1>4 DEF InTime
  <2> QED
    BY <2>1, <2>2
<1>5. ASSUME NEW a \in Keys, NEW b \in Keys, new[a] \in Record, new[b] \in Record,
             new[a].queueOrder < new[b].queueOrder
      PROVE  new[a].observedAt <= new[b].observedAt
  <2>1. CASE a # h /\ b # h
    BY <2>1, <1>2, <1>5 DEF InQueue
  <2>2. CASE a = h /\ b # h
    <3>1. new[a] = value /\ new[b] = work[b] /\ work[b] \in Record
      BY <2>2, <1>2, <1>5
    <3>2. work[b].queueOrder <= seq
      BY <3>1 DEF OrdersAllocated
    <3> QED
      BY <3>1, <3>2, <1>3, <1>5 DEF InQueue
  <2>3. CASE a # h /\ b = h
    <3>1. new[b] = value /\ new[a] = work[a] /\ work[a] \in Record
      BY <2>3, <1>2, <1>5
    <3>2. work[a].observedAt <= t
      BY <3>1 DEF InTime
    <3> QED
      BY <3>1, <3>2, <1>3, <1>5 DEF InQueue
  <2>4. CASE a = h /\ b = h
    BY <2>4, <1>3, <1>5
  <2> QED
    BY <2>1, <2>2, <2>3, <2>4
<1> QED
  BY <1>1, <1>4, <1>5 DEF InTime, InQueue

\* One iteration of any loop.
LEMMA StepKeepsTimes ==
    ASSUME IInv, Times, NEW op \in Operations, Running(op),
           NEW value \in Decodable, NEW next \in Nat, Step(value, next),
           value \in Record =>
              \/ /\ tx.work[Head(tx.todo)] \in Record
                 /\ value.queueOrder = tx.work[Head(tx.todo)].queueOrder
                 /\ value.observedAt = tx.work[Head(tx.todo)].observedAt
                 /\ tx.work[Head(tx.todo)].sent => value.sent
              \/ value.queueOrder = next /\ tx.sequence < next /\ value.observedAt = cycleTime
    PROVE  Times'
<1>1. /\ tx # Idle /\ tx.work \in [Keys -> Decodable] /\ tx.sequence \in Nat
      /\ Head(tx.todo) \in Keys
      /\ OrdersAllocated(tx.work, tx.sequence)
  BY RunningTransaction
<1>2. cycleTime \in Nat \ {0} /\ InTime(tx.work, cycleTime) /\ InQueue(tx.work) /\ tx \in Transaction
  BY <1>1, StoreAssumption DEF Times, IInv, TypeOK
<1>3. PICK h \in Keys : h = Head(tx.todo)
  BY <1>1
<1>4. PICK new : new = [tx.work EXCEPT ![h] = value]
  OBVIOUS
<1>5. InTime(new, cycleTime) /\ InQueue(new)
  BY <1>1, <1>2, <1>3, <1>4, StepKeepsTime
<1>6. tx'.work = new /\ UNCHANGED <<recs, sequence, owner, cycleTime, clock>>
  <2>1. tx' = [tx EXCEPT !.work[h] = value, !.sequence = next, !.todo = Tail(tx.todo)]
    BY <1>3 DEF Step
  <2> QED
    BY <1>2, <1>4, <2>1 DEF Step, Transaction
<1>7. InTime(recs, clock)' /\ InQueue(recs)' /\ MarkersFirst'
  BY <1>6 DEF Times, MarkersFirst, InTime, InQueue
<1>8. owner' # Nobody => InTime(recs, cycleTime)'
  BY <1>6 DEF Times, InTime
<1>9. InTime(tx'.work, cycleTime') /\ InQueue(tx'.work)
  BY <1>5, <1>6
<1> QED
  BY <1>7, <1>8, <1>9 DEF Times, InTime, InQueue

\* Opening the file.
LEMMA OpenKeepsTimes ==
    ASSUME IInv, Times, NEW p \in Processes, Open(p)
    PROVE  Times'
<1>1. cycleTime' = clock /\ UNCHANGED <<sequence, tx, clock>> /\ tx = Idle /\ clock \in Nat \ {0}
  BY StoreAssumption DEF Open, IInv, TypeOK, TransactionIsReadable
<1>2. \A k \in Keys : recs'[k] \in Record =>
         \/ recs[k] \in Record /\ recs'[k] = recs[k]
         \/ recs[k] = LegacyMarker /\ recs'[k].observedAt = clock /\ recs'[k].queueOrder = 0 /\ recs'[k].sent
  BY OpenedValue
<1>3. \A k \in Keys : recs'[k] # LegacyMarker
  BY OpenedValue
<1>4. InTime(recs', clock)
  BY <1>1, <1>2 DEF Times, InTime
<1>5. InQueue(recs')
  <2> SUFFICES ASSUME NEW a \in Keys, NEW b \in Keys, recs'[a] \in Record, recs'[b] \in Record,
                      recs'[a].queueOrder < recs'[b].queueOrder
               PROVE  recs'[a].observedAt <= recs'[b].observedAt
    BY DEF InQueue
  <2>1. CASE recs[a] = LegacyMarker \/ recs[b] = LegacyMarker
    <3>1. recs'[a].queueOrder = 0 /\ recs'[b].queueOrder = 0
      BY <1>2, <2>1 DEF Times, MarkersFirst
    <3> QED
      BY <3>1
  <2>2. CASE recs[a] # LegacyMarker /\ recs[b] # LegacyMarker
    <3>1. /\ recs[a] \in Record /\ recs'[a] = recs[a]
          /\ recs[b] \in Record /\ recs'[b] = recs[b]
      BY <1>2, <2>2
    <3> QED
      BY <3>1 DEF Times, InQueue
  <2> QED
    BY <2>1, <2>2
<1>6. MarkersFirst'
  BY <1>3 DEF MarkersFirst
<1>7. tx' = Idle'
  BY <1>1 DEF Idle
<1>8. InTime(recs, clock)' /\ InQueue(recs)' /\ InTime(recs, cycleTime)'
  BY <1>1, <1>4, <1>5
<1> QED
  BY <1>6, <1>7, <1>8 DEF Times

\* A commit.
LEMMA CommitKeepsTimes ==
    ASSUME IInv, Progress, Times, Commit
    PROVE  Times'
<1>1. /\ tx # Idle /\ tx' = Idle /\ recs' = tx.work /\ UNCHANGED <<owner, cycleTime, clock>>
      /\ tx.work \in [Keys -> Decodable]
      /\ cycleTime \in Nat /\ clock \in Nat /\ cycleTime <= clock
  <2>1. tx # Idle
    BY DEF Commit, Idle
  <2>2. cycleTime \in Nat /\ clock \in Nat /\ cycleTime <= clock
    BY StoreAssumption DEF IInv, TypeOK, Progress
  <2> QED
    BY <2>1, <2>2, CommitStarts DEF Commit
<1>2. tx.work \in [Keys -> Value]
  BY <1>1 DEF Decodable, Value
<1>3. InTime(tx.work, cycleTime) /\ InQueue(tx.work) /\ InTime(tx.work, clock)
  BY <1>1, <1>2, TimePasses DEF Times
<1>4. MarkersFirst'
  BY <1>1, ValuesAssumption DEF MarkersFirst, Decodable
<1>5. InTime(recs, clock)' /\ InQueue(recs)' /\ InTime(recs, cycleTime)'
  BY <1>1, <1>3
<1>6. tx' = Idle'
  BY <1>1 DEF Idle
<1> QED
  BY <1>4, <1>5, <1>6 DEF Times

\* Every step keeps what was observed in time and in the queue.
LEMMA NextKeepsTimes ==
    ASSUME IInv, Progress, Times, [Next]_vars
    PROVE  Times'
<1>0. cycleTime \in Nat \ {0} /\ clock \in Nat \ {0} /\ recs \in [Keys -> Value]
  BY StoreAssumption DEF IInv, TypeOK
<1>1. CASE \E p \in Processes : Open(p)
  BY <1>1, OpenKeepsTimes
<1>2. CASE Commit
  BY <1>2, CommitKeepsTimes
<1>3. CASE Crash \/ Rollback
  <2>1. tx' = Idle' /\ UNCHANGED <<recs, cycleTime, clock>> /\ owner' \in {owner, Nobody}
    BY <1>3 DEF Crash, Rollback, Idle
  <2> QED
    BY <2>1 DEF Times, MarkersFirst, InTime, InQueue
<1>4. CASE \/ BeginDiscover \/ BeginMark \/ BeginPrune
           \/ \E limit \in 1..Cardinality(Keys) : BeginForget(limit)
  <2>1. PICK op, todo : Begin(op, todo)
    BY <1>4 DEF BeginDiscover, BeginMark, BeginPrune, BeginForget
  <2>2. /\ owner # Nobody /\ UNCHANGED <<recs, sequence, owner, cycleTime, clock>>
        /\ tx'.work = recs
    BY <2>1 DEF Begin, Begun
  <2>3. InTime(recs, clock)' /\ InQueue(recs)' /\ InTime(recs, cycleTime)' /\ MarkersFirst'
    BY <2>2 DEF Times, MarkersFirst, InTime, InQueue
  <2>4. InTime(tx'.work, cycleTime') /\ InQueue(tx'.work)
    BY <2>2 DEF Times
  <2> QED
    BY <2>3, <2>4 DEF Times
<1>5. CASE DiscoverOne
  <2>1. PICK old : old = tx.work[Head(tx.todo)]
    OBVIOUS
  <2>2. PICK next : next = IF NeedsOrder(old) THEN tx.sequence + 1 ELSE tx.sequence
    OBVIOUS
  <2>3. Running("discover") /\ Step(Discovered(old, cycleTime, next), next)
    BY <1>5, <2>1, <2>2 DEF DiscoverOne
  <2>4. old \in Decodable /\ tx.sequence \in Nat /\ tx # Idle /\ Head(tx.todo) \in Keys
    BY <2>1, <2>3, RunningTransaction
  <2>5. next \in Nat /\ (NeedsOrder(old) => tx.sequence < next)
    BY <2>2, <2>4
  <2>6. old \in Record => ~NeedsOrder(old)
    <3>1. old \in Record => (old.queueOrder = 0 => old.sent)
      BY <2>1, <2>4 DEF Times, InTime
    <3> QED
      BY <3>1, ValuesAssumption DEF NeedsOrder
  <2>7. PICK value : value = Discovered(old, cycleTime, next)
    OBVIOUS
  <2>8. value \in Decodable
    BY <1>0, <2>4, <2>5, <2>7, DiscoveredRecord DEF Decodable
  <2>9. ASSUME old \in Record
        PROVE  /\ value.queueOrder = old.queueOrder /\ value.observedAt = old.observedAt
               /\ old.sent => value.sent
    BY <2>6, <2>7, <2>9, ValuesAssumption DEF Discovered, Record
  <2>10. ASSUME old = Absent
         PROVE  value.queueOrder = next /\ tx.sequence < next /\ value.observedAt = cycleTime
    BY <2>5, <2>7, <2>10 DEF Discovered, NeedsOrder
  <2>11. old \in Record \/ old = Absent
    BY <2>4 DEF Decodable
  <2> QED
    BY <2>1, <2>3, <2>5, <2>7, <2>8, <2>9, <2>10, <2>11, StepKeepsTimes
<1>6. CASE MarkOne
  <2>1. PICK old : old = tx.work[Head(tx.todo)]
    OBVIOUS
  <2>2. Running("mark") /\ old # Absent /\ Step(MarkedSent(old, cycleTime), tx.sequence)
    BY <1>6, <2>1 DEF MarkOne
  <2>3. old \in Record /\ tx.sequence \in Nat /\ tx # Idle /\ Head(tx.todo) \in Keys
    BY <2>1, <2>2, RunningTransaction DEF Decodable
  <2>4. old.observedAt # 0
    BY <2>1, <2>3 DEF Times, InTime
  <2>5. PICK value : value = MarkedSent(old, cycleTime)
    OBVIOUS
  <2>6. /\ value \in Decodable /\ value.queueOrder = old.queueOrder
        /\ value.observedAt = old.observedAt /\ value.sent
    BY <1>0, <2>3, <2>4, <2>5 DEF MarkedSent, Record, Decodable
  <2> QED
    BY <2>1, <2>2, <2>3, <2>5, <2>6, StepKeepsTimes
<1>7. CASE PruneOne
  <2>1. PICK old : old = tx.work[Head(tx.todo)]
    OBVIOUS
  <2>2. PICK value : value = IF Expired(old, cycleTime, Retention) THEN Absent ELSE old
    OBVIOUS
  <2>3. Running("prune") /\ Step(value, tx.sequence)
    BY <1>7, <2>1, <2>2 DEF PruneOne
  <2>4. old \in Decodable /\ tx.sequence \in Nat
    BY <2>1, <2>3, RunningTransaction
  <2>5. value \in Decodable /\ (value \in Record => value = old)
    BY <2>2, <2>4, ValuesAssumption DEF Decodable
  <2> QED
    BY <2>1, <2>3, <2>4, <2>5, StepKeepsTimes
<1>8. CASE ForgetOne
  <2>1. Running("forget") /\ Step(Absent, tx.sequence)
    BY <1>8 DEF ForgetOne
  <2>2. Absent \in Decodable /\ Absent \notin Record /\ tx.sequence \in Nat
    BY <2>1, RunningTransaction, ValuesAssumption DEF Decodable
  <2> QED
    BY <2>1, <2>2, StepKeepsTimes
<1>9. CASE Tick
  <2>1. PICK later \in Nat : later = clock + 1
    BY <1>0
  <2>2. clock' = later /\ UNCHANGED <<recs, sequence, owner, cycleTime, tx>>
    BY <1>9, <2>1 DEF Tick
  <2>3. InTime(recs, later)
    BY <1>0, <2>1, TimePasses DEF Times
  <2>4. InTime(recs, clock)'
    BY <2>2, <2>3
  <2>5. MarkersFirst' /\ InQueue(recs)' /\ (owner # Nobody => InTime(recs, cycleTime))'
    BY <2>2 DEF Times, MarkersFirst, InTime, InQueue
  <2>6. (tx # Idle => InTime(tx.work, cycleTime) /\ InQueue(tx.work))'
    BY <2>2 DEF Times, InTime, InQueue, Idle
  <2> QED
    BY <2>4, <2>5, <2>6 DEF Times
<1>10. CASE Close
  BY <1>10 DEF Close, Times, MarkersFirst, InTime, InQueue, Idle
<1>11. CASE UNCHANGED vars \/ \E p \in Processes : OpenRejected(p)
  BY <1>11 DEF OpenRejected, vars, Times, MarkersFirst, InTime, InQueue, Idle
<1> QED
  BY <1>1, <1>2, <1>3, <1>4, <1>5, <1>6, <1>7, <1>8, <1>9, <1>10, <1>11 DEF Next

\* What the store adds to a file with nothing left to deliver is in time and in
\* the queue.
THEOREM TimesHold ==
    ASSUME DeliveredFiles
    PROVE  Spec => [](IInv /\ Progress /\ Times)
<1>1. Init => Times
  <2> SUFFICES ASSUME Init PROVE Times
    OBVIOUS
  <2>1. \A k \in Keys : recs[k] \in Record =>
           recs[k].queueOrder = 0 /\ recs[k].sent /\ recs[k].observedAt = 1
    BY StoreAssumption DEF Init, DeliveredFiles
  <2>2. MarkersFirst /\ InTime(recs, clock) /\ InQueue(recs)
    BY <2>1 DEF Init, MarkersFirst, InTime, InQueue
  <2> QED
    BY <2>2 DEF Init, Times
<1>2. IInv /\ Progress /\ Times /\ [Next]_vars => Times'
  BY NextKeepsTimes
<1> QED
  BY <1>1, <1>2, TransactionsKeepPace, PTL DEF Spec

\* In such a file, queue order is discovery order.
THEOREM QueueIsInDiscoveryOrder ==
    ASSUME DeliveredFiles
    PROVE  Spec => []QueueFollowsDiscovery
<1>1. Times => QueueFollowsDiscovery
  BY DEF Times, InQueue, QueueFollowsDiscovery
<1> QED
  BY <1>1, TimesHold, PTL

\* The comparator of Pending is a strict total order on the pending records:
\* each of them has a queue order of its own.
THEOREM PendingIsInOneOrder ==
    ASSUME DeliveredFiles
    PROVE  Spec => []PendingOrderIsTotal
<1>1. IInv /\ Times => PendingOrderIsTotal
  <2> SUFFICES ASSUME IInv, Times, owner # Nobody,
                      NEW a \in PendingKeys(recs), NEW b \in PendingKeys(recs), NEW c \in PendingKeys(recs)
               PROVE  /\ a # b => (PendingBefore(recs, a, b) <=> ~PendingBefore(recs, b, a))
                      /\ PendingBefore(recs, a, b) /\ PendingBefore(recs, b, c)
                         => PendingBefore(recs, a, c)
    BY DEF PendingOrderIsTotal
  <2>1. \A k \in PendingKeys(recs) :
           /\ k \in Keys /\ recs[k] \in Record /\ recs[k].queueOrder \in Nat \ {0}
           /\ recs[k].observedAt \in Nat /\ k \in Nat
    <3> SUFFICES ASSUME NEW k \in PendingKeys(recs)
                 PROVE  /\ k \in Keys /\ recs[k] \in Record /\ recs[k].queueOrder \in Nat \ {0}
                        /\ recs[k].observedAt \in Nat /\ k \in Nat
      OBVIOUS
    <3>1. k \in Keys /\ recs[k] \in Record /\ ~recs[k].sent
      BY DEF PendingKeys, Stored, IInv, OpenFileIsReadable
    <3>2. recs[k].queueOrder # 0
      BY <3>1 DEF Times, InTime
    <3> QED
      BY <3>1, <3>2, KeysAssumption DEF Record
  <2>2. \A j, k \in PendingKeys(recs) : j # k => recs[j].queueOrder # recs[k].queueOrder
    BY <2>1 DEF IInv, QueueOrdersUnique, OrdersAllocated
  <2>3. \A j, k \in PendingKeys(recs) :
           PendingBefore(recs, j, k) <=> recs[j].queueOrder < recs[k].queueOrder
    <3> SUFFICES ASSUME NEW j \in PendingKeys(recs), NEW k \in PendingKeys(recs)
                 PROVE  PendingBefore(recs, j, k) <=> recs[j].queueOrder < recs[k].queueOrder
      OBVIOUS
    <3>1. CASE j = k
      BY <2>1, <3>1 DEF PendingBefore
    <3>2. CASE j # k
      <4>1. recs[j].queueOrder # recs[k].queueOrder
        BY <2>2, <3>2
      <4> QED
        BY <2>1, <4>1 DEF PendingBefore
    <3> QED
      BY <3>1, <3>2
  <2>4. PICK x \in Nat : x = recs[a].queueOrder
    BY <2>1
  <2>5. PICK y \in Nat : y = recs[b].queueOrder
    BY <2>1
  <2>6. PICK z \in Nat : z = recs[c].queueOrder
    BY <2>1
  <2>7. a # b => x # y
    BY <2>2, <2>4, <2>5
  <2>8. /\ PendingBefore(recs, a, b) <=> x < y
        /\ PendingBefore(recs, b, a) <=> y < x
        /\ PendingBefore(recs, b, c) <=> y < z
        /\ PendingBefore(recs, a, c) <=> x < z
    BY <2>3, <2>4, <2>5, <2>6
  <2> QED
    BY <2>7, <2>8
<1> QED
  BY <1>1, TimesHold, PTL

\* What DeleteLatest leaves was not observed after what it removes.
THEOREM ForgetsTheLatest ==
    ASSUME DeliveredFiles
    PROVE  Spec => ForgetReversesDiscovery
<1> DEFINE Reversed ==
             tx.op = "forget" =>
                \A a, b \in Keys :
                   /\ recs[a] \in Record /\ recs'[a] = Absent
                   /\ recs'[b] \in Record
                   => recs[b].observedAt <= recs[a].observedAt
<1>1. IInv /\ Progress /\ Times /\ [Next]_vars => Reversed
  <2> SUFFICES ASSUME IInv, Progress, Times, [Next]_vars, tx.op = "forget",
                      NEW a \in Keys, NEW b \in Keys,
                      recs[a] \in Record, recs'[a] = Absent, recs'[b] \in Record
               PROVE  recs[b].observedAt <= recs[a].observedAt
    OBVIOUS
  <2>1. recs[a] # Absent
    BY ValuesAssumption
  <2>2. Commit
    <3>1. tx # Idle
      BY DEF Idle
    <3>2. owner # Nobody
      BY <3>1 DEF IInv, TransactionIsReadable
    <3>3. ~UNCHANGED recs
      BY <2>1
    <3> QED
      BY <3>2, <3>3, RecordsAreCommitted DEF Open
  <2>3. PICK limit \in 1..Cardinality(Keys) : recs' = DeleteAll(recs, Latest(recs, limit))
    BY <2>2, CommitForgets
  <2>4. limit \in Nat
    <3>1. Cardinality(Keys) \in Nat
      BY KeysAssumption, FS_CardinalityType
    <3> QED
      BY <3>1
  <2>5. \A k \in Keys : recs'[k] = IF k \in Latest(recs, limit) THEN Absent ELSE recs[k]
    BY <2>3 DEF DeleteAll
  <2>6. a \in Latest(recs, limit) /\ b \notin Latest(recs, limit) /\ recs'[b] = recs[b]
    BY <2>1, <2>5, ValuesAssumption
  <2>7. recs \in [Keys -> Decodable] /\ b \in Stored(recs) /\ recs[b] \in Record
    BY <2>2, <2>6, CommitStarts, ValuesAssumption DEF Stored
  <2>8. Newer(recs, a, b)
    BY <2>4, <2>6, <2>7, LatestIsNewer
  <2>9. PICK q \in Nat : q = recs[a].queueOrder
    BY DEF Record
  <2>10. PICK s \in Nat : s = recs[b].queueOrder
    BY <2>7 DEF Record
  <2>11. PICK o \in Nat : o = recs[a].observedAt
    BY DEF Record
  <2>12. PICK u \in Nat : u = recs[b].observedAt
    BY <2>7 DEF Record
  <2>13. s < q => u <= o
    BY <2>7, <2>9, <2>10, <2>11, <2>12 DEF Times, InQueue
  <2>14. q > s \/ (q = s /\ o > u) \/ (q = s /\ o = u /\ a > b)
    BY <2>8, <2>9, <2>10, <2>11, <2>12 DEF Newer
  <2>15. u <= o
    BY <2>13, <2>14
  <2> QED
    BY <2>11, <2>12, <2>15
<1>2. IInv /\ Progress /\ Times /\ [Next]_vars => [Reversed]_vars
  BY <1>1
<1>3. [][Reversed]_vars => ForgetReversesDiscovery
  BY PTL DEF ForgetReversesDiscovery
<1> HIDE DEF Reversed
<1> QED
  BY <1>2, <1>3, TimesHold, PTL DEF Spec
=============================================================================
