------------------------- MODULE DigestCycleProofs --------------------------
(***************************************************************************)
(* Whatever processes share a state file, whatever fails and whenever they *)
(* die: what is still to be delivered stays pending, every copy the chat   *)
(* gets is accounted for, a delivered listing is not repeated while it is  *)
(* retained, and the digest implements the at-least-once outbox.           *)
(***************************************************************************)
EXTENDS DigestCycle, FiniteSetTheorems, SequenceTheorems, WellFoundedInduction, TLAPS

\* The records of a bucket all of whose values decode.
Decodable == Record \cup {Absent}

\* A process that has no job, or waits for the file.
Resting(p) == job[p].pc \in {"idle", "opening"}

\* A listing that is not, or not any more, stored as sent.
Unsettled(k) == recs[k] = Absent \/ ~recs[k].sent

\* What k needs of the clock once it was delivered and then pruned.
Outlasts(time, k) == Unsettled(k) /\ lastMarked[k] # 0 => time > lastMarked[k] + Retention

\* Stored records were given queue orders, sent ones carry the time they were
\* last marked with, and the others were marked too long ago to matter.
RecordsInOrder ==
    \A k \in Keys :
        /\ recs[k] # Absent => recs[k].queueOrder > 0
        /\ recs[k] # Absent /\ recs[k].sent => recs[k].sentAt = lastMarked[k]
        /\ Outlasts(clock, k)

\* The messages left to deliver: pending, and each listing in one of them.
Undelivered(p) ==
    /\ job[p].chunks # <<>>
    /\ \A i \in DOMAIN job[p].chunks : Listed(job[p].chunks[i]) \subseteq PendingKeys(recs)
    /\ \A i, j \in DOMAIN job[p].chunks :
          i # j => Listed(job[p].chunks[i]) \cap Listed(job[p].chunks[j]) = {}

\* The buttons a digest has left, less the one it was started from, and its
\* sounds: all of it is done by its last message.
Told(p, last) ==
    /\ job[p].sounds = IF last THEN 1 ELSE 0
    /\ job[p].buttons = (IF job[p].kind = "refresh" THEN -1 ELSE 0) + (IF last THEN 1 ELSE 0)

\* What a digest has told its chat, at each place it can be.
SoundsAndButtons(p) ==
    /\ job[p].kind = "refresh" => job[p].buttons <= 0
    /\ job[p].pc \in {"idle", "opening", "pruning", "fetching", "recording", "loading",
                      "removing", "forgetting"} => job[p].buttons = 0 /\ job[p].sounds = 0
    /\ job[p].pc = "removing" => job[p].kind = "refresh"
    /\ job[p].pc = "forgetting" => job[p].kind = "forget"
    /\ job[p].pc \in {"sending", "waiting"} => Told(p, FALSE)
    /\ job[p].pc = "marking" => Told(p, IsLast(p))
    /\ job[p].pc = "finished" /\ job[p].kind # "forget" => Told(p, TRUE)

\* The model's bound of the bucket sequence leaves room for what was fetched.
Room(p) == sequence + Cardinality(Listed(job[p].books) \ Stored(recs)) <= MaxSequence

\* A process has a job under way exactly while it has the file open.
JobInv(p) ==
    /\ Resting(p) <=> owner # p
    /\ ~Resting(p) => /\ job[p].cycleTime \in 1..clock
                      /\ \A k \in Keys : Outlasts(job[p].cycleTime, k)
    /\ At(p, "recording") => Room(p)
    /\ Delivering(p) => Undelivered(p)
    /\ SoundsAndButtons(p)

\* The inductive invariant.
IInv ==
    /\ TypeOK
    /\ RecordsInOrder
    /\ \A p \in Processes : JobInv(p)
    /\ CopiesAreAccountedFor

-----------------------------------------------------------------------------
(* Lists of listings                                                       *)

\* A set of natural numbers has a least element: what an induction over the
\* naturals is replaced with in these proofs.
LEMMA LeastNumber ==
    ASSUME NEW S, S \subseteq Nat, S # {}
    PROVE  \E m \in S : \A n \in S : m <= n
<1> DEFINE Less == OpToRel(<, Nat)
<1>1. PICK m \in S : \A n \in S : ~(<<n, m>> \in Less)
  <2>1. IsWellFoundedOn(Less, Nat)
    BY NatLessThanWellFounded
  <2> HIDE DEF Less
  <2> QED
    BY <2>1, WFMin
<1>2. ASSUME NEW n \in S, n < m PROVE FALSE
  <2>1. <<n, m>> \in Nat \X Nat /\ <<n, m>>[1] < <<n, m>>[2]
    BY <1>2
  <2> QED
    BY <1>1, <2>1 DEF OpToRel
<1> QED
  BY <1>2

\* A list of distinct listings is a sequence of keys, no longer than they are many.
LEMMA BookListIsSequence ==
    ASSUME NEW s \in BookLists
    PROVE  /\ s \in Seq(Keys) /\ DOMAIN s = 1..Len(s)
           /\ Len(s) \in Nat /\ Len(s) <= Cardinality(Keys)
           /\ \A i, j \in 1..Len(s) : s[i] = s[j] => i = j
           /\ Listed(s) \subseteq Keys
<1>1. Cardinality(Keys) \in Nat
  BY KeysAssumption, FS_CardinalityType
<1>2. PICK n \in 0..Cardinality(Keys) :
         s \in [1..n -> Keys] /\ \A i, j \in 1..n : s[i] = s[j] => i = j
  BY DEF BookLists
<1>3. n \in Nat /\ s \in Seq(Keys) /\ Len(s) = n /\ n <= Cardinality(Keys)
  BY <1>1, <1>2, LenProperties, SeqDef
<1> QED
  BY <1>2, <1>3 DEF Listed

\* A sequence of distinct keys is such a list.
LEMMA SequenceIsBookList ==
    ASSUME NEW n \in Nat, n <= Cardinality(Keys), NEW s \in [1..n -> Keys],
           \A i, j \in 1..n : s[i] = s[j] => i = j
    PROVE  s \in BookLists
<1>1. Cardinality(Keys) \in Nat
  BY KeysAssumption, FS_CardinalityType
<1> QED
  BY <1>1 DEF BookLists

\* So is the empty one.
LEMMA NoBooks == <<>> \in BookLists /\ Listed(<<>>) = {}
<1>1. Cardinality(Keys) \in Nat
  BY KeysAssumption, FS_CardinalityType
<1>2. <<>> \in [1..0 -> Keys]
  OBVIOUS
<1> QED
  BY <1>1, <1>2 DEF BookLists, Listed

-----------------------------------------------------------------------------
(* The operations on all records                                           *)

\* A listing that needs a queue order is the first, or a later one, to get one.
LEMMA OrdersNeededBounds ==
    ASSUME NEW db, NEW books \in BookLists, NEW i \in 0..Len(books)
    PROVE  /\ OrdersNeeded(db, books, i) \in Nat
           /\ i # 0 /\ NeedsOrder(db[books[i]]) => OrdersNeeded(db, books, i) > 0
<1> DEFINE S == { j \in 1..i : NeedsOrder(db[books[j]]) }
<1>1. i \in Nat
  BY BookListIsSequence
<1>2. IsFiniteSet(S) /\ Cardinality(S) \in Nat
  <2>1. IsFiniteSet(1..i)
    BY <1>1, FS_Interval
  <2>2. IsFiniteSet(S)
    BY <2>1, FS_Subset
  <2> QED
    BY <2>2, FS_CardinalityType
<1>3. i # 0 /\ NeedsOrder(db[books[i]]) => i \in S
  BY <1>1
<1>4. OrdersNeeded(db, books, i) = Cardinality(S)
  BY DEF OrdersNeeded
<1> HIDE DEF S
<1>5. i # 0 /\ NeedsOrder(db[books[i]]) => Cardinality(S) # 0
  BY <1>2, <1>3, FS_EmptySet
<1> QED
  BY <1>2, <1>4, <1>5

\* What RecordDiscovered leaves of each record: a new one for a listing that
\* had none, and the delivery state of every other.
LEMMA DiscoverAllRecords ==
    ASSUME NEW db \in [Keys -> Decodable], NEW last \in Nat,
           NEW books \in BookLists, NEW now \in Nat, NEW k \in Keys
    PROVE  LET r == DiscoverAll(db, last, books, now)[k]
           IN  /\ r \in Decodable
               /\ db[k] # Absent =>
                     /\ r # Absent /\ r.sent = db[k].sent /\ r.sentAt = db[k].sentAt
                     /\ db[k].queueOrder > 0 => r.queueOrder > 0
               /\ db[k] = Absent /\ k \notin Listed(books) => r = Absent
               /\ db[k] = Absent /\ k \in Listed(books) =>
                     r # Absent /\ ~r.sent /\ r.queueOrder > 0
<1> DEFINE r == DiscoverAll(db, last, books, now)[k]
<1>1. CASE k \notin Listed(books)
  BY <1>1 DEF DiscoverAll, Decodable
<1>2. CASE k \in Listed(books)
  <2> DEFINE i == CHOOSE i \in DOMAIN books : books[i] = k
             n == last + OrdersNeeded(db, books, i)
  <2>1. i \in DOMAIN books /\ books[i] = k
    BY <1>2 DEF Listed
  <2>2. r = Discovered(db[k], now, n)
    BY <1>2 DEF DiscoverAll
  <2> HIDE DEF i, r
  <2>3. n \in Nat /\ (NeedsOrder(db[k]) => n > 0)
    <3>1. i \in 0..Len(books) /\ i # 0
      BY <2>1, BookListIsSequence
    <3>2. /\ OrdersNeeded(db, books, i) \in Nat
          /\ NeedsOrder(db[books[i]]) => OrdersNeeded(db, books, i) > 0
      BY <3>1, OrdersNeededBounds
    <3> QED
      BY <2>1, <3>2
  <2> HIDE DEF n
  <2>4. CASE db[k] = Absent
    <3>1. r \in Record /\ ~r.sent /\ r.queueOrder > 0
      BY <2>2, <2>3, <2>4 DEF Discovered, NeedsOrder, Record
    <3> QED
      BY <1>2, <2>4, <3>1, ValuesAssumption DEF Decodable, r
  <2>5. CASE db[k] # Absent
    <3>1. db[k] \in Record
      BY <2>5 DEF Decodable
    <3>2. r \in Record /\ r.sent = db[k].sent /\ r.sentAt = db[k].sentAt
          /\ (db[k].queueOrder > 0 => r.queueOrder > 0)
      BY <2>2, <2>3, <2>5, <3>1 DEF Discovered, NeedsOrder, Record
    <3> QED
      BY <2>5, <3>2, ValuesAssumption DEF Decodable, r
  <2> QED
    BY <2>4, <2>5
<1> QED
  BY <1>1, <1>2

\* MarkSent settles the listings of a message and leaves their queue orders.
LEMMA MarkAllSentRecords ==
    ASSUME NEW db \in [Keys -> Decodable], NEW S, NEW now \in Nat, NEW k \in Keys,
           k \in S => db[k] # Absent
    PROVE  LET r == MarkAllSent(db, S, now)[k]
           IN  /\ r \in Decodable
               /\ k \notin S => r = db[k]
               /\ k \in S => /\ r # Absent /\ r.sent /\ r.sentAt = now
                             /\ r.queueOrder = db[k].queueOrder
<1> DEFINE r == MarkAllSent(db, S, now)[k]
<1>1. CASE k \notin S
  BY <1>1 DEF MarkAllSent
<1>2. CASE k \in S
  <2>1. db[k] \in Record /\ r = MarkedSent(db[k], now)
    BY <1>2 DEF MarkAllSent, Decodable
  <2>2. r \in Record /\ r.sent /\ r.sentAt = now /\ r.queueOrder = db[k].queueOrder
    BY <2>1 DEF MarkedSent, Record
  <2> QED
    BY <1>2, <2>2, ValuesAssumption DEF Decodable
<1> QED
  BY <1>1, <1>2

\* Prune removes nothing but what was sent, and remembered long enough.
LEMMA PruneAllRecords ==
    ASSUME NEW db \in [Keys -> Decodable], NEW now \in Nat, NEW retention \in Nat, NEW k \in Keys
    PROVE  LET r == PruneAll(db, now, retention)[k]
           IN  /\ r \in Decodable
               /\ \/ r = db[k]
                  \/ /\ r = Absent /\ db[k] # Absent /\ db[k].sent
                     /\ db[k].sentAt # 0 /\ db[k].sentAt + retention < now
BY DEF PruneAll, Expired, Decodable

-----------------------------------------------------------------------------
(* Telegram's answers, and messages                                        *)

\* A call that succeeded was served, and one that is to be repeated was not.
LEMMA AnswersMean == Successes \subseteq {TRUE} /\ Retries \subseteq {FALSE} /\ Failures \subseteq BOOLEAN
<1>1. ASSUME NEW a \in Answers, NEW c \in BOOLEAN
      PROVE  /\ CallError(a, c).kind = "none" => a.body = "reply" /\ a.code = 0
             /\ CallError(a, c).retryAfter > 0 => a.body = "reply" /\ a.code = 429
  <2> DEFINE e == Normalize(a, c)
  <2>1. \/ a.body = "reply"
        \/ a.body \in {"none", "broken"} /\ a.code = 0
        \/ a.body \in {"oversized", "garbled"} /\ a.code = 0
    BY DEF Answers, Unanswered
  <2>2. /\ Error("none") = [kind |-> "none", retryAfter |-> 0]
        /\ Error("request") = [kind |-> "request", retryAfter |-> 0]
        /\ Error("other") = [kind |-> "other", retryAfter |-> 0]
        /\ Error("rejected") = [kind |-> "rejected", retryAfter |-> 0]
    BY DEF Error
  <2>3. /\ e.kind = "none" => a.body = "reply" /\ a.code = 0
        /\ e.retryAfter > 0 => a.body = "reply" /\ a.code = 429
    <3>1. CASE a.body = "reply" /\ a.code = 0
      BY <2>2, <3>1 DEF Normalize
    <3>2. CASE a.body \in {"none", "broken"} /\ a.code = 0
      <4>1. e = Error("request")
        BY <3>2 DEF Normalize
      <4> QED
        BY <2>2, <4>1
    <3>3. CASE a.body \in {"oversized", "garbled"} /\ a.code = 0
      <4>1. e \in {Error("request"), Error("other")}
        BY <3>3 DEF Normalize
      <4> QED
        BY <2>2, <4>1
    <3>4. CASE a.body = "reply" /\ a.code # 0 /\ c
      BY <2>2, <3>4 DEF Normalize
    <3>5. CASE a.body = "reply" /\ a.code # 0 /\ ~c
      BY <2>2, <3>5 DEF Normalize
    <3> QED
      BY <2>1, <3>1, <3>2, <3>3, <3>4, <3>5
  <2>4. CallError(a, c) \in {e, Error("rejected")}
    BY DEF CallError
  <2> HIDE DEF e
  <2> QED
    BY <2>2, <2>3, <2>4
<1>2. ASSUME NEW o \in Outcomes
      PROVE  /\ o.error.kind = "none" => o.taken = TRUE
             /\ o.error.retryAfter > 0 => o.taken = FALSE
             /\ o.taken \in BOOLEAN
  <2>1. PICK a \in Answers : \E t \in Taken(a), c \in BOOLEAN : o = [taken |-> t, error |-> CallError(a, c)]
    BY <1>2 DEF Outcomes
  <2>2. PICK t \in Taken(a), c \in BOOLEAN : o = [taken |-> t, error |-> CallError(a, c)]
    BY <2>1
  <2>3. o.taken = t /\ o.error = CallError(a, c)
    BY <2>2
  <2>4. a.body = "reply" /\ a.code = 0 => t = TRUE
    BY DEF Taken
  <2>5. ASSUME a.body = "reply", a.code = 429 PROVE t = FALSE
    <3>1. (a.code = 0) = FALSE
      BY <2>5
    <3>2. Taken(a) = {FALSE}
      BY <2>5, <3>1, Zenon DEF Taken
    <3> QED
      BY <3>2
  <2>6. t \in BOOLEAN
    BY DEF Taken
  <2>7. /\ o.error.kind = "none" => a.body = "reply" /\ a.code = 0
        /\ o.error.retryAfter > 0 => a.body = "reply" /\ a.code = 429
    <3>1. /\ CallError(a, c).kind = "none" => a.body = "reply" /\ a.code = 0
          /\ CallError(a, c).retryAfter > 0 => a.body = "reply" /\ a.code = 429
      BY <1>1
    <3> QED
      BY <2>3, <3>1
  <2> QED
    BY <2>3, <2>4, <2>5, <2>6, <2>7
<1> QED
  BY <1>2 DEF Successes, Retries, Failures

\* Cutting a list into messages puts every listing into one of them at most.
LEMMA ChunkingsSplit ==
    ASSUME NEW list \in BookLists, NEW chunks \in Chunkings(list)
    PROVE  /\ chunks \in Seq(BookLists) /\ chunks # <<>>
           /\ \A i \in DOMAIN chunks : Listed(chunks[i]) \subseteq Listed(list)
           /\ \A i, j \in DOMAIN chunks :
                 i # j => Listed(chunks[i]) \cap Listed(chunks[j]) = {}
<1>1. /\ list \in Seq(Keys) /\ DOMAIN list = 1..Len(list)
      /\ Len(list) \in Nat /\ Len(list) <= Cardinality(Keys) /\ Cardinality(Keys) \in Nat
      /\ \A i, j \in 1..Len(list) : list[i] = list[j] => i = j
  BY BookListIsSequence, KeysAssumption, FS_CardinalityType
<1>2. PICK n \in 1..Len(list) + 2 :
         chunks \in { [i \in 1..n |-> SubSeq(list, cut[i-1] + 1, cut[i])]
                      : cut \in { c \in [0..n -> 0..Len(list)] :
                                     /\ c[0] = 0 /\ c[n] = Len(list)
                                     /\ \A i \in 1..n :
                                           c[i-1] < c[i] \/ (c[i-1] = c[i] /\ i \in {1, n}) } }
  BY DEF Chunkings
<1>3. PICK cut \in [0..n -> 0..Len(list)] :
         /\ \A i \in 1..n : cut[i-1] <= cut[i]
         /\ chunks = [i \in 1..n |-> SubSeq(list, cut[i-1] + 1, cut[i])]
  <2>1. PICK c \in [0..n -> 0..Len(list)] :
           /\ \A i \in 1..n : c[i-1] < c[i] \/ (c[i-1] = c[i] /\ i \in {1, n})
           /\ chunks = [i \in 1..n |-> SubSeq(list, c[i-1] + 1, c[i])]
    BY <1>2
  <2>2. ASSUME NEW i \in 1..n PROVE c[i-1] <= c[i]
    <3>1. i - 1 \in 0..n /\ i \in 0..n
      BY <1>1
    <3>2. c[i-1] \in Nat /\ c[i] \in Nat
      BY <1>1, <2>1, <3>1
    <3>3. c[i-1] < c[i] \/ c[i-1] = c[i]
      BY <2>1
    <3> QED
      BY <3>2, <3>3
  <2> QED
    BY <2>1, <2>2
<1>4. n \in Nat /\ n # 0
  BY <1>1
\* The cuts go up: a first one that goes down has none before it to go up from.
<1>5. ASSUME NEW i \in 0..n, NEW j \in i..n PROVE cut[i] <= cut[j]
  <2> DEFINE Down == { m \in i..n : ~(cut[i] <= cut[m]) }
  <2> SUFFICES ASSUME Down # {} PROVE FALSE
    BY <1>4
  <2>1. PICK m \in Down : \A x \in Down : m <= x
    <3>1. Down \subseteq Nat
      BY <1>4
    <3> HIDE DEF Down
    <3> QED
      BY <3>1, LeastNumber
  <2>5. cut[i] <= cut[i] /\ m \in i..n /\ ~(cut[i] <= cut[m])
    BY <1>1, <1>3, <1>4, <2>1
  <2>2. m \in 1..n /\ m - 1 \in i..n /\ m - 1 \in 0..n /\ m \in 0..n
    BY <1>4, <2>5
  <2>3. cut[m-1] <= cut[m] /\ cut[i] <= cut[m-1]
    BY <1>3, <1>4, <2>1, <2>2
  <2>4. cut[i] \in Nat /\ cut[m-1] \in Nat /\ cut[m] \in Nat /\ ~(cut[i] <= cut[m])
    BY <1>1, <1>3, <2>1, <2>2
  <2> QED
    BY <2>3, <2>4
<1>6. ASSUME NEW i \in 1..n
      PROVE  LET length == cut[i] - cut[i-1]
             IN  /\ length \in Nat /\ length <= Len(list)
                 /\ Len(chunks[i]) = length
                 /\ chunks[i] \in [1..length -> Keys]
                 /\ \A x \in 1..length : cut[i-1] + x \in 1..Len(list) /\ chunks[i][x] = list[cut[i-1] + x]
  <2>1. cut[i] \in 0..Len(list) /\ cut[i-1] \in 0..Len(list) /\ cut[i-1] <= cut[i] /\ i \in Nat
    BY <1>3, <1>4
  <2> DEFINE a == cut[i-1]
             b == cut[i]
  <2>2. a \in Nat /\ b \in Nat /\ a <= b /\ b <= Len(list)
    BY <1>1, <2>1
  <2>3. chunks[i] = SubSeq(list, a + 1, b)
    BY <1>3
  <2> HIDE DEF a, b
  <2>4. \A x \in a + 1 .. b : list[x] \in Keys
    BY <1>1, <2>2, ElementOfSeq
  <2>5. /\ chunks[i] \in Seq(Keys) /\ Len(chunks[i]) = b - a
        /\ \A x \in 1..b - a : chunks[i][x] = list[a + x]
    BY <2>2, <2>3, <2>4, SubSeqProperties
  <2>6. chunks[i] \in [1..b - a -> Keys]
    BY <2>5, LenProperties
  <2>7. \A x \in 1..b - a : a + x \in 1..Len(list)
    BY <1>1, <2>2
  <2> QED
    BY <1>1, <2>2, <2>5, <2>6, <2>7 DEF a, b
<1>7. ASSUME NEW i \in 1..n PROVE chunks[i] \in BookLists
  <2> DEFINE length == cut[i] - cut[i-1]
             a == cut[i-1]
  <2>1. /\ length \in Nat /\ length <= Cardinality(Keys) /\ a \in Nat
        /\ chunks[i] \in [1..length -> Keys]
        /\ \A x \in 1..length : a + x \in 1..Len(list) /\ chunks[i][x] = list[a + x]
    <3>1. a \in Nat
      BY <1>1, <1>3, <1>4
    <3>2. length \in Nat /\ length <= Len(list) /\ chunks[i] \in [1..length -> Keys]
      BY <1>6
    <3>3. \A x \in 1..length : a + x \in 1..Len(list) /\ chunks[i][x] = list[a + x]
      BY <1>6
    <3>4. Cardinality(Keys) \in Nat
      BY KeysAssumption, FS_CardinalityType
    <3> HIDE DEF length
    <3>5. length <= Cardinality(Keys)
      BY <1>1, <3>2, <3>4
    <3> QED
      BY <3>1, <3>2, <3>3, <3>5
  <2> HIDE DEF length, a
  <2>2. ASSUME NEW x \in 1..length, NEW y \in 1..length, chunks[i][x] = chunks[i][y]
        PROVE  x = y
    <3>1. /\ a + x \in 1..Len(list) /\ a + y \in 1..Len(list)
          /\ list[a + x] = list[a + y]
      BY <2>1, <2>2
    <3>2. a + x = a + y
      BY <1>1, <3>1, Zenon
    <3> QED
      BY <2>1, <3>2
  <2> QED
    BY <2>1, <2>2, SequenceIsBookList
<1>8. chunks \in Seq(BookLists) /\ chunks # <<>> /\ DOMAIN chunks = 1..n
  <2>1. chunks \in [1..n -> BookLists]
    BY <1>3, <1>7
  <2> QED
    BY <1>4, <2>1, SeqDef
<1>9. \A i \in 0..n : cut[i] \in Nat
  BY <1>1, <1>3
<1>10. ASSUME NEW i \in 1..n, NEW k \in Listed(chunks[i])
       PROVE  \E x \in 1..Len(list) : cut[i-1] < x /\ x <= cut[i] /\ k = list[x]
  <2> DEFINE a == cut[i-1]
             b == cut[i]
  <2>1. a \in Nat /\ b \in Nat
    BY <1>4, <1>9
  <2>2. PICK y \in 1..b - a : k = chunks[i][y]
    BY <1>6, <1>10 DEF Listed
  <2>3. a + y \in 1..Len(list) /\ k = list[a + y]
    BY <1>6, <2>2
  <2> HIDE DEF a, b
  <2>4. a < a + y /\ a + y <= b
    BY <2>1, <2>2
  <2> QED
    BY <2>3, <2>4 DEF a, b
<1>11. \A i \in 1..n : Listed(chunks[i]) \subseteq Listed(list)
  BY <1>1, <1>10 DEF Listed
<1>12. ASSUME NEW i \in 1..n, NEW j \in 1..n, i < j,
              NEW k \in Listed(chunks[i]), k \in Listed(chunks[j])
       PROVE  FALSE
  <2>1. PICK x \in 1..Len(list) : x <= cut[i] /\ k = list[x]
    BY <1>10
  <2>2. PICK y \in 1..Len(list) : cut[j-1] < y /\ k = list[y]
    BY <1>10, <1>12
  <2>3. cut[i] <= cut[j-1] /\ cut[i] \in Nat /\ cut[j-1] \in Nat
    BY <1>4, <1>5, <1>9, <1>12
  <2>4. x < y
    BY <1>1, <2>1, <2>2, <2>3
  <2>5. x = y
    BY <1>1, <2>1, <2>2
  <2> QED
    BY <1>1, <2>4, <2>5
<1>13. ASSUME NEW i \in 1..n, NEW j \in 1..n, i # j
       PROVE  Listed(chunks[i]) \cap Listed(chunks[j]) = {}
  <2>1. i < j \/ j < i
    BY <1>4, <1>13
  <2> QED
    BY <1>12, <2>1
<1> QED
  BY <1>8, <1>11, <1>13

-----------------------------------------------------------------------------
(* One process moves                                                       *)

\* The other processes' jobs stay as they are.
OthersStay(p) == \A q \in Processes \ {p} : job'[q] = job[q]

\* A process that goes on to another step keeps the rest of its job.
LEMMA GotoJob ==
    ASSUME TypeOK, NEW p \in Processes, NEW pc \in Steps, Goto(p, pc)
    PROVE  /\ job' \in [Processes -> Job] /\ OthersStay(p)
           /\ job'[p].pc = pc /\ job'[p].kind = job[p].kind
           /\ job'[p].cycleTime = job[p].cycleTime /\ job'[p].books = job[p].books
           /\ job'[p].failed = job[p].failed /\ job'[p].unfit = job[p].unfit
           /\ job'[p].chunks = job[p].chunks
           /\ job'[p].buttons = job[p].buttons /\ job'[p].sounds = job[p].sounds
<1>1. job \in [Processes -> Job] /\ job[p] \in Job
  BY DEF TypeOK
<1>2. [job[p] EXCEPT !.pc = pc] \in Job
  BY <1>1 DEF Job
<1>3. job' = [job EXCEPT ![p] = [job[p] EXCEPT !.pc = pc]]
  BY DEF Goto
<1> QED
  BY <1>1, <1>2, <1>3 DEF Job, OthersStay

\* A process takes up a job, and no other process does anything.
LEMMA NewJob ==
    ASSUME TypeOK, NEW p \in Processes, NEW j \in Job, job' = [job EXCEPT ![p] = j]
    PROVE  job' \in [Processes -> Job] /\ job'[p] = j /\ OthersStay(p)
BY DEF TypeOK, OthersStay

\* A process starts with the job of one that rests.
LEMMA NoJobIsJob ==
    /\ NoJob \in Job
    /\ \A kind \in Kinds : [NoJob EXCEPT !.pc = "opening", !.kind = kind] \in Job
<1>1. <<>> \in Seq(BookLists)
  OBVIOUS
<1>2. 0 \in 0..MaxTime
  BY CycleAssumption
<1>3. NoJob \in Job
  BY <1>1, <1>2, NoBooks DEF NoJob, Job, Steps, Kinds
<1> QED
  BY <1>3 DEF Job, Steps

\* The fields of a process's job.
LEMMA JobFields ==
    ASSUME TypeOK, NEW p \in Processes
    PROVE  /\ job[p] \in Job
           /\ job[p].pc \in Steps /\ job[p].kind \in Kinds /\ job[p].cycleTime \in 0..MaxTime
           /\ job[p].books \in BookLists /\ job[p].failed \subseteq Keys /\ job[p].unfit \subseteq Keys
           /\ job[p].chunks \in Seq(BookLists)
           /\ job[p].buttons \in -1..1 /\ job[p].sounds \in 0..1
BY DEF TypeOK, Job

\* The others do not have the file open, and rest.
LEMMA OthersRest ==
    ASSUME IInv, NEW p \in Processes, owner = p, OthersStay(p), owner' \in {p, Nobody}
    PROVE  \A q \in Processes \ {p} : JobInv(q)' /\ Resting(q) /\ Resting(q)'
<1> SUFFICES ASSUME NEW q \in Processes \ {p} PROVE JobInv(q)' /\ Resting(q) /\ Resting(q)'
  OBVIOUS
<1>1. JobInv(q) /\ job'[q] = job[q] /\ owner' # q
  BY CycleAssumption DEF IInv, OthersStay
<1>2. Resting(q) /\ Resting(q)'
  BY <1>1 DEF JobInv, Resting
<1>3. SoundsAndButtons(q)'
  BY <1>1, <1>2 DEF JobInv, SoundsAndButtons, Resting
<1> QED
  BY <1>1, <1>2, <1>3 DEF JobInv, Resting, At, Delivering

\* Who delivers k: the owner of the file alone.
Marking(p, k) == At(p, "marking") /\ k \in InChunk(p)

\* The copies are accounted for when the owner of the file accounts for each.
LEMMA OwnerAccounts ==
    ASSUME IInv, NEW p \in Processes, owner = p, OthersStay(p), owner' \in {p, Nobody},
           \A k \in Keys :
              copies'[k] = lostAcks'[k] +
                 IF (recs'[k] # Absent /\ recs'[k].sent) \/ Marking(p, k)' THEN 1 ELSE 0
    PROVE  CopiesAreAccountedFor'
<1>1. \A q \in Processes \ {p}, k \in Keys : ~Marking(q, k)'
  BY OthersRest DEF Resting, Marking, At
<1> QED
  BY <1>1 DEF CopiesAreAccountedFor, Marking

\* The owner of the file accounts for every copy.
LEMMA OwnerAccounted ==
    ASSUME IInv, NEW p \in Processes, owner = p, NEW k \in Keys
    PROVE  copies[k] = lostAcks[k] +
              IF (recs[k] # Absent /\ recs[k].sent) \/ Marking(p, k) THEN 1 ELSE 0
<1>1. \A q \in Processes \ {p} : ~Marking(q, k)
  BY DEF IInv, JobInv, Resting, Marking, At
<1> QED
  BY <1>1 DEF IInv, CopiesAreAccountedFor, Marking

\* A step that leaves the records, the counts and the clock alone, of a process
\* that is not marking and does not begin to.
LEMMA QuietStep ==
    ASSUME IInv, NEW p \in Processes, OthersStay(p),
           UNCHANGED <<recs, sequence, clock, copies, lostAcks, lastMarked>>,
           owner' = owner \/ (owner \in {p, Nobody} /\ owner' \in {p, Nobody}),
           faults' \in 0..MaxFaults, bare' \in BOOLEAN,
           ~At(p, "marking"), ~At(p, "marking")',
           job' \in [Processes -> Job], JobInv(p)'
    PROVE  IInv'
<1>1. owner' \in Processes \cup {Nobody} /\ \A q \in Processes \ {p} : owner = q <=> owner' = q
  BY CycleAssumption DEF IInv, TypeOK
<1>2. TypeOK'
  BY <1>1 DEF IInv, TypeOK
<1>3. RecordsInOrder'
  BY DEF IInv, RecordsInOrder, Outlasts, Unsettled
<1>4. ASSUME NEW q \in Processes \ {p} PROVE JobInv(q)'
  <2>1. job'[q] = job[q] /\ JobInv(q)
    BY DEF OthersStay, IInv
  <2>2. /\ Resting(q)' <=> Resting(q)
        /\ SoundsAndButtons(q)' <=> SoundsAndButtons(q)
        /\ Undelivered(q)' <=> Undelivered(q)
        /\ Room(q)' <=> Room(q)
    BY <2>1 DEF Resting, SoundsAndButtons, Told, IsLast, Undelivered, PendingKeys, Stored, Room
  <2> QED
    BY <1>1, <2>1, <2>2 DEF JobInv, Outlasts, Unsettled, At, Delivering
<1>5. CopiesAreAccountedFor'
  <2>1. ASSUME NEW q \in Processes, NEW k \in Keys PROVE Marking(q, k)' <=> Marking(q, k)
    BY DEF OthersStay, Marking, At, InChunk
  <2> QED
    BY <2>1 DEF IInv, CopiesAreAccountedFor, Marking
<1> QED
  BY <1>2, <1>3, <1>4, <1>5 DEF IInv

-----------------------------------------------------------------------------
(* The steps that leave the records and the counts alone                   *)

\* A process is started.
LEMMA StartStep ==
    ASSUME IInv, NEW p \in Processes, NEW kind \in Kinds, Start(p, kind)
    PROVE  IInv'
<1>1. /\ At(p, "idle") /\ job' = [job EXCEPT ![p] = [NoJob EXCEPT !.pc = "opening", !.kind = kind]]
      /\ UNCHANGED <<recs, sequence, owner, clock, faults, copies, lostAcks, lastMarked, bare>>
  BY DEF Start, store, history
<1>2. PICK j \in Job : /\ job' = [job EXCEPT ![p] = j]
                       /\ j.pc = "opening" /\ j.buttons = 0 /\ j.sounds = 0
  BY <1>1, NoJobIsJob DEF NoJob
<1>3. job' \in [Processes -> Job] /\ job'[p] = j /\ OthersStay(p)
  BY <1>2, NewJob DEF IInv
<1>4. owner # p
  BY <1>1 DEF IInv, JobInv, Resting, At
<1>5. JobInv(p)'
  <2>1. Resting(p)' /\ owner' # p
    BY <1>1, <1>2, <1>3, <1>4 DEF Resting
  <2>2. SoundsAndButtons(p)'
    BY <1>2, <1>3 DEF SoundsAndButtons, Told
  <2> QED
    BY <1>2, <1>3, <2>1, <2>2 DEF JobInv, At, Delivering
<1> QED
  BY <1>1, <1>2, <1>3, <1>5, QuietStep DEF At, IInv, TypeOK

\* A process gets the lock of the file, and reads the time.
LEMMA OpenStep ==
    ASSUME IInv, NEW p \in Processes, Open(p)
    PROVE  IInv'
<1>1. /\ At(p, "opening") /\ owner = Nobody /\ owner' = p
      /\ job' = [job EXCEPT ![p].cycleTime = clock,
                            ![p].pc = IF job[p].kind = "forget" THEN "forgetting" ELSE "pruning"]
      /\ UNCHANGED <<recs, sequence, clock, faults, copies, lostAcks, lastMarked, bare>>
  BY DEF Open, store, history
<1>2. clock \in 1..MaxTime /\ job[p] \in Job /\ TypeOK
  BY JobFields DEF IInv, TypeOK
<1>3. PICK j \in Job :
         /\ job' = [job EXCEPT ![p] = j] /\ j.cycleTime = clock /\ j.kind = job[p].kind
         /\ j.pc = IF job[p].kind = "forget" THEN "forgetting" ELSE "pruning"
         /\ j.buttons = job[p].buttons /\ j.sounds = job[p].sounds
  <2> DEFINE pc == IF job[p].kind = "forget" THEN "forgetting" ELSE "pruning"
  <2>1. clock \in 0..MaxTime /\ pc \in Steps
    BY <1>2 DEF Steps
  <2>2. [job[p] EXCEPT !.cycleTime = clock, !.pc = pc] \in Job
    BY <1>2, <2>1 DEF Job
  <2>3. job' = [job EXCEPT ![p] = [job[p] EXCEPT !.cycleTime = clock, !.pc = pc]]
    BY <1>1
  <2> QED
    BY <1>2, <2>2, <2>3 DEF Job
<1>4. job' \in [Processes -> Job] /\ job'[p] = j /\ OthersStay(p)
  BY <1>2, <1>3, NewJob
<1>5. JobInv(p)'
  <2>1. ~Resting(p)' /\ owner' = p
    BY <1>1, <1>3, <1>4 DEF Resting
  <2>2. clock \in 1..clock /\ \A k \in Keys : Outlasts(clock, k)
    BY <1>2 DEF IInv, RecordsInOrder
  <2>3. SoundsAndButtons(p)'
    BY <1>1, <1>3, <1>4 DEF IInv, JobInv, At, SoundsAndButtons
  <2> QED
    BY <1>1, <1>3, <1>4, <2>1, <2>2, <2>3 DEF JobInv, At, Delivering, Outlasts, Unsettled
<1> QED
  BY <1>1, <1>2, <1>3, <1>4, <1>5, QuietStep DEF At, TypeOK

\* A process gives the lock up, or has waited for it too long.
LEMMA EndStep ==
    ASSUME IInv, NEW p \in Processes, OpenTimesOut(p) \/ Close(p)
    PROVE  IInv'
<1>1. /\ ~At(p, "marking") /\ job' = [job EXCEPT ![p] = NoJob]
      /\ UNCHANGED <<recs, sequence, clock, faults, copies, lostAcks, lastMarked, bare>>
  BY DEF OpenTimesOut, Close, At, store, history
<1>2. owner' # p /\ (owner' = owner \/ (owner = p /\ owner' = Nobody))
  BY CycleAssumption DEF OpenTimesOut, Close, At, IInv, JobInv, Resting
<1>3. job' \in [Processes -> Job] /\ job'[p] = NoJob /\ OthersStay(p)
  BY <1>1, NoJobIsJob, NewJob DEF IInv
<1>4. JobInv(p)'
  BY <1>2, <1>3 DEF JobInv, Resting, At, Delivering, SoundsAndButtons, NoJob
<1> QED
  BY <1>1, <1>2, <1>3, <1>4, QuietStep DEF At, NoJob, IInv, TypeOK

\* A process past the opening of the file owns it.
LEMMA Owns ==
    ASSUME IInv, NEW p \in Processes, ~Resting(p)
    PROVE  /\ owner = p /\ TypeOK /\ job[p].cycleTime \in 1..clock
           /\ \A k \in Keys : Outlasts(job[p].cycleTime, k)
           /\ SoundsAndButtons(p)
BY DEF IInv, JobInv

\* The pages are fetched.
LEMMA FetchStep ==
    ASSUME IInv, NEW p \in Processes, Fetch(p)
    PROVE  IInv'
<1>1. PICK books \in BookLists, unfit \in SUBSET Keys, failed \in SUBSET Keys :
         /\ sequence + Cardinality(Listed(books) \ Stored(recs)) <= MaxSequence
         /\ job' = [job EXCEPT ![p].pc = "recording", ![p].books = books,
                               ![p].failed = failed, ![p].unfit = unfit]
  BY DEF Fetch
<1>2. /\ At(p, "fetching") /\ faults' \in 0..MaxFaults
      /\ UNCHANGED <<recs, sequence, owner, clock, copies, lostAcks, lastMarked, bare>>
  BY CycleAssumption DEF Fetch, Fault, store, history, IInv, TypeOK
<1>3. /\ owner = p /\ TypeOK /\ job[p].cycleTime \in 1..clock
      /\ \A k \in Keys : Outlasts(job[p].cycleTime, k)
      /\ job[p].buttons = 0 /\ job[p].sounds = 0 /\ job[p] \in Job
  BY <1>2, Owns, JobFields DEF At, Resting, SoundsAndButtons
<1>4. PICK j \in Job : /\ job' = [job EXCEPT ![p] = j]
                       /\ j.pc = "recording" /\ j.books = books /\ j.cycleTime = job[p].cycleTime
                       /\ j.buttons = 0 /\ j.sounds = 0
  <2> DEFINE j == [job[p] EXCEPT !.pc = "recording", !.books = books,
                                 !.failed = failed, !.unfit = unfit]
  <2>1. j \in Job
    BY <1>3 DEF Job, Steps
  <2>2. job' = [job EXCEPT ![p] = j]
    BY <1>1
  <2> QED
    BY <1>3, <2>1, <2>2 DEF Job
<1>5. job' \in [Processes -> Job] /\ job'[p] = j /\ OthersStay(p)
  BY <1>3, <1>4, NewJob
<1>6. JobInv(p)'
  <2>1. ~Resting(p)' /\ owner' = p /\ Room(p)'
    BY <1>1, <1>2, <1>3, <1>4, <1>5 DEF Resting, Room, Stored
  <2>2. SoundsAndButtons(p)'
    BY <1>4, <1>5 DEF SoundsAndButtons, Told
  <2> QED
    BY <1>2, <1>3, <1>4, <1>5, <2>1, <2>2 DEF JobInv, At, Delivering, Outlasts, Unsettled
<1> QED
  BY <1>2, <1>3, <1>4, <1>5, <1>6, QuietStep DEF At, TypeOK

\* The pending listings are read and cut into messages.
LEMMA LoadStep ==
    ASSUME IInv, NEW p \in Processes, Load(p)
    PROVE  IInv'
<1>1. PICK list \in BookLists :
         /\ Listed(list) = (PendingKeys(recs) \ job[p].failed) \ job[p].unfit
         /\ \E chunks \in Chunkings(list) :
               job' = [job EXCEPT
                         ![p].chunks = chunks, ![p].failed = {}, ![p].unfit = {},
                         ![p].pc = IF job[p].kind = "refresh" THEN "removing" ELSE "sending"]
  BY DEF Load
<1>2. PICK chunks \in Chunkings(list) :
         job' = [job EXCEPT
                   ![p].chunks = chunks, ![p].failed = {}, ![p].unfit = {},
                   ![p].pc = IF job[p].kind = "refresh" THEN "removing" ELSE "sending"]
  BY <1>1
<1>3. /\ At(p, "loading")
      /\ UNCHANGED <<recs, sequence, owner, clock, faults, copies, lostAcks, lastMarked, bare>>
  BY DEF Load, store, history
<1>4. /\ owner = p /\ TypeOK /\ job[p].cycleTime \in 1..clock
      /\ \A k \in Keys : Outlasts(job[p].cycleTime, k)
      /\ job[p].buttons = 0 /\ job[p].sounds = 0 /\ job[p] \in Job
  BY <1>3, Owns, JobFields DEF At, Resting, SoundsAndButtons
<1>5. /\ chunks \in Seq(BookLists) /\ chunks # <<>>
      /\ \A i \in DOMAIN chunks : Listed(chunks[i]) \subseteq Listed(list)
      /\ \A i, j \in DOMAIN chunks : i # j => Listed(chunks[i]) \cap Listed(chunks[j]) = {}
  BY ChunkingsSplit
<1>6. PICK j \in Job :
         /\ job' = [job EXCEPT ![p] = j] /\ j.chunks = chunks /\ j.cycleTime = job[p].cycleTime
         /\ j.kind = job[p].kind /\ j.buttons = 0 /\ j.sounds = 0
         /\ j.pc = IF job[p].kind = "refresh" THEN "removing" ELSE "sending"
  <2> DEFINE pc == IF job[p].kind = "refresh" THEN "removing" ELSE "sending"
             j == [job[p] EXCEPT !.chunks = chunks, !.failed = {}, !.unfit = {}, !.pc = pc]
  <2>1. pc \in Steps
    BY DEF Steps
  <2>2. j \in Job
    BY <1>4, <1>5, <2>1 DEF Job
  <2>3. job' = [job EXCEPT ![p] = j]
    BY <1>2
  <2> QED
    BY <1>4, <2>2, <2>3 DEF Job
<1>7. job' \in [Processes -> Job] /\ job'[p] = j /\ OthersStay(p)
  BY <1>4, <1>6, NewJob
<1>8. JobInv(p)'
  <2>1. ~Resting(p)' /\ owner' = p
    BY <1>3, <1>4, <1>6, <1>7 DEF Resting
  <2>2. Undelivered(p)'
    <3>1. \A i \in DOMAIN chunks : Listed(chunks[i]) \subseteq PendingKeys(recs)
      BY <1>1, <1>5
    <3> QED
      BY <1>3, <1>5, <1>6, <1>7, <3>1 DEF Undelivered, PendingKeys, Stored
  <2>3. SoundsAndButtons(p)'
    BY <1>6, <1>7 DEF SoundsAndButtons, Told
  <2> QED
    BY <1>3, <1>4, <1>6, <1>7, <2>1, <2>2, <2>3 DEF JobInv, At, Outlasts, Unsettled
<1> QED
  BY <1>3, <1>4, <1>6, <1>7, <1>8, QuietStep DEF At, TypeOK

\* A digest that fails, or waits for another attempt or makes it.
LEMMA TurnStep ==
    ASSUME IInv, NEW p \in Processes,
           StepFails(p) \/ RemoveFails(p) \/ RateLimited(p) \/ WaitOver(p)
    PROVE  IInv'
<1>1. PICK pc \in Steps :
         /\ Goto(p, pc) /\ faults' \in 0..MaxFaults /\ bare' \in BOOLEAN
         /\ \/ pc = "failed" /\ job[p].pc # "idle" /\ job[p].pc # "opening"
            \/ pc \in {"sending", "waiting"} /\ job[p].pc \in {"sending", "waiting"}
         /\ job[p].pc # "marking"
         /\ UNCHANGED <<recs, sequence, owner, clock, copies, lostAcks, lastMarked>>
  <2>1. Fault => faults' \in 0..MaxFaults
    BY CycleAssumption DEF Fault, IInv, TypeOK
  <2>3. CASE StepFails(p)
    BY <2>1, <2>3 DEF StepFails, Steps, At, store, history, IInv, TypeOK
  <2>4. CASE RemoveFails(p)
    <3>1. bare' \in BOOLEAN
      BY <2>4 DEF RemoveFails, IInv, TypeOK
    <3> QED
      BY <2>1, <2>4, <3>1 DEF RemoveFails, Steps, At, store
  <2>2. CASE RateLimited(p) \/ WaitOver(p)
    BY <2>2, AnswersMean
       DEF RateLimited, WaitOver, Post, Steps, At, store, history, IInv, TypeOK
  <2> QED
    BY <2>2, <2>3, <2>4
<1>2. /\ owner = p /\ TypeOK /\ job[p].cycleTime \in 1..clock
      /\ \A k \in Keys : Outlasts(job[p].cycleTime, k)
      /\ SoundsAndButtons(p)
  BY <1>1, Owns DEF Resting
<1>3. /\ job' \in [Processes -> Job] /\ OthersStay(p)
      /\ job'[p].pc = pc /\ job'[p].kind = job[p].kind
      /\ job'[p].cycleTime = job[p].cycleTime /\ job'[p].chunks = job[p].chunks
      /\ job'[p].buttons = job[p].buttons /\ job'[p].sounds = job[p].sounds
  BY <1>1, <1>2, GotoJob
<1>4. JobInv(p)'
  <2>1. ~Resting(p)' /\ owner' = p
    BY <1>1, <1>2, <1>3 DEF Resting
  <2>2. SoundsAndButtons(p)'
    BY <1>1, <1>2, <1>3 DEF SoundsAndButtons, Told
  <2>3. Delivering(p)' => Undelivered(p)'
    BY <1>1, <1>3 DEF Delivering, IInv, JobInv, Undelivered, PendingKeys, Stored
  <2> QED
    BY <1>1, <1>2, <1>3, <2>1, <2>2, <2>3 DEF JobInv, At, Outlasts, Unsettled
<1> QED
  BY <1>1, <1>2, <1>3, <1>4, QuietStep DEF At

\* A refresh removes the button it was started from.
LEMMA RemoveStep ==
    ASSUME IInv, NEW p \in Processes, RemoveButton(p)
    PROVE  IInv'
<1>1. /\ At(p, "removing") /\ job' = [job EXCEPT ![p].pc = "sending", ![p].buttons = @ - 1]
      /\ bare' = TRUE
      /\ UNCHANGED <<recs, sequence, owner, clock, faults, copies, lostAcks, lastMarked>>
  BY DEF RemoveButton, store
<1>2. /\ owner = p /\ TypeOK /\ job[p].cycleTime \in 1..clock
      /\ \A k \in Keys : Outlasts(job[p].cycleTime, k)
      /\ job[p].buttons = 0 /\ job[p].sounds = 0 /\ job[p].kind = "refresh" /\ job[p] \in Job
  BY <1>1, Owns, JobFields DEF At, Resting, SoundsAndButtons
<1>3. PICK j \in Job :
         /\ job' = [job EXCEPT ![p] = j] /\ j.chunks = job[p].chunks
         /\ j.cycleTime = job[p].cycleTime
         /\ j.kind = "refresh" /\ j.buttons = -1 /\ j.sounds = 0 /\ j.pc = "sending"
  <2> DEFINE left == job[p].buttons - 1
             j == [job[p] EXCEPT !.pc = "sending", !.buttons = left]
  <2>1. left \in -1..1 /\ left = -1
    BY <1>2
  <2>2. job' = [job EXCEPT ![p] = j]
    BY <1>1
  <2> HIDE DEF left
  <2>3. j \in Job
    BY <1>2, <2>1 DEF Job, Steps
  <2> QED
    BY <1>2, <2>1, <2>2, <2>3 DEF Job
<1>4. job' \in [Processes -> Job] /\ job'[p] = j /\ OthersStay(p)
  BY <1>2, <1>3, NewJob
<1>5. JobInv(p)'
  <2>1. ~Resting(p)' /\ owner' = p
    BY <1>1, <1>2, <1>3, <1>4 DEF Resting
  <2>2. Undelivered(p)'
    BY <1>1, <1>3, <1>4 DEF At, Delivering, IInv, JobInv, Undelivered, PendingKeys, Stored
  <2>3. SoundsAndButtons(p)'
    BY <1>3, <1>4 DEF SoundsAndButtons, Told
  <2> QED
    BY <1>1, <1>2, <1>3, <1>4, <2>1, <2>2, <2>3 DEF JobInv, At, Outlasts, Unsettled
<1> QED
  BY <1>1, <1>2, <1>3, <1>4, <1>5, QuietStep DEF At, TypeOK

-----------------------------------------------------------------------------
(* The steps that change the records or the counts                         *)

\* Bump counts one more copy of each listing of a set; Clear forgets them.
LEMMA Counts ==
    ASSUME NEW f \in [Keys -> Nat], NEW S
    PROVE  /\ Bump(f, S) \in [Keys -> Nat] /\ Clear(f, S) \in [Keys -> Nat]
           /\ \A k \in Keys : /\ Bump(f, S)[k] = IF k \in S THEN f[k] + 1 ELSE f[k]
                              /\ Clear(f, S)[k] = IF k \in S THEN 0 ELSE f[k]
BY DEF Bump, Clear

\* What is done to the records and the counts of the file's owner is right when
\* it is right for each listing.
LEMMA OwnerStep ==
    ASSUME IInv, NEW p \in Processes, owner = p, owner' \in {p, Nobody}, OthersStay(p),
           job' \in [Processes -> Job], JobInv(p)',
           recs' \in [Keys -> Decodable], sequence' \in 0..MaxSequence,
           copies' \in [Keys -> Nat], lostAcks' \in [Keys -> Nat],
           lastMarked' \in [Keys -> 0..MaxTime],
           UNCHANGED clock, faults' \in 0..MaxFaults, bare' \in BOOLEAN,
           \A k \in Keys :
              /\ recs'[k] # Absent => recs'[k].queueOrder > 0
              /\ recs'[k] # Absent /\ recs'[k].sent => recs'[k].sentAt = lastMarked'[k]
              /\ Outlasts(clock, k)'
              /\ copies'[k] = lostAcks'[k] +
                    IF (recs'[k] # Absent /\ recs'[k].sent) \/ Marking(p, k)' THEN 1 ELSE 0
    PROVE  IInv'
<1>1. TypeOK'
  BY DEF IInv, TypeOK, Decodable
<1>2. RecordsInOrder'
  BY DEF RecordsInOrder
<1>3. \A q \in Processes : JobInv(q)'
  BY OthersRest
<1>4. CopiesAreAccountedFor'
  BY OwnerAccounts
<1> QED
  BY <1>1, <1>2, <1>3, <1>4 DEF IInv

\* Old deliveries are forgotten, with their copies: none of them is pending.
LEMMA PruneStep ==
    ASSUME IInv, NEW p \in Processes, Prune(p)
    PROVE  IInv'
<1> DEFINE gone == Stored(recs) \ Stored(recs')
<1>1. /\ At(p, "pruning") /\ Goto(p, "fetching")
      /\ recs' = PruneAll(recs, job[p].cycleTime, Retention)
      /\ copies' = Clear(copies, gone) /\ lostAcks' = Clear(lostAcks, gone)
      /\ UNCHANGED <<sequence, owner, clock, faults, lastMarked, bare>>
  BY DEF Prune
<1>2. /\ owner = p /\ TypeOK /\ job[p].cycleTime \in 1..clock
      /\ \A k \in Keys : Outlasts(job[p].cycleTime, k)
      /\ SoundsAndButtons(p)
  BY <1>1, Owns DEF At, Resting
<1>3. /\ recs \in [Keys -> Decodable] /\ clock \in Nat /\ job[p].cycleTime \in Nat
      /\ Retention \in Nat /\ lastMarked \in [Keys -> Nat] /\ job[p].cycleTime <= clock
  BY <1>2, CycleAssumption DEF TypeOK, Decodable
<1>4. /\ job' \in [Processes -> Job] /\ OthersStay(p)
      /\ job'[p].pc = "fetching" /\ job'[p].kind = job[p].kind
      /\ job'[p].cycleTime = job[p].cycleTime
      /\ job'[p].buttons = job[p].buttons /\ job'[p].sounds = job[p].sounds
  BY <1>1, <1>2, GotoJob DEF Steps
<1>5. ASSUME NEW k \in Keys
      PROVE  /\ recs'[k] \in Decodable
             /\ \/ recs'[k] = recs[k]
                \/ /\ recs'[k] = Absent /\ recs[k] # Absent /\ recs[k].sent
                   /\ recs[k].sentAt + Retention < job[p].cycleTime
  BY <1>1, <1>3, PruneAllRecords
<1>6. recs' \in [Keys -> Decodable]
  BY <1>1, <1>5 DEF PruneAll
<1>7. ASSUME NEW k \in Keys
      PROVE  /\ recs'[k] # Absent => recs'[k].queueOrder > 0
             /\ recs'[k] # Absent /\ recs'[k].sent => recs'[k].sentAt = lastMarked'[k]
             /\ Outlasts(clock, k)' /\ Outlasts(job[p].cycleTime, k)'
  <2>1. CASE recs'[k] = recs[k]
    BY <1>1, <1>2, <1>4, <2>1 DEF IInv, RecordsInOrder, Outlasts, Unsettled
  <2>2. CASE recs'[k] = Absent /\ recs[k] # Absent /\ recs[k].sent
             /\ recs[k].sentAt + Retention < job[p].cycleTime
    <3>1. lastMarked[k] + Retention < job[p].cycleTime /\ lastMarked[k] \in Nat
      BY <1>3, <2>2 DEF IInv, RecordsInOrder
    <3>2. lastMarked[k] + Retention < clock
      BY <1>3, <3>1
    <3> QED
      BY <1>1, <1>4, <2>2, <3>1, <3>2 DEF Outlasts
  <2> QED
    BY <1>5, <2>1, <2>2
<1>8. copies' \in [Keys -> Nat] /\ lostAcks' \in [Keys -> Nat]
  BY <1>1, <1>2, Counts DEF TypeOK
<1>9. ASSUME NEW k \in Keys
      PROVE  copies'[k] = lostAcks'[k] +
                IF (recs'[k] # Absent /\ recs'[k].sent) \/ Marking(p, k)' THEN 1 ELSE 0
  <2>1. ~Marking(p, k) /\ ~Marking(p, k)'
    BY <1>1, <1>4 DEF Marking, At
  <2>2. copies[k] = lostAcks[k] + IF recs[k] # Absent /\ recs[k].sent THEN 1 ELSE 0
    BY <1>2, <2>1, OwnerAccounted
  <2>3. /\ copies'[k] = IF k \in gone THEN 0 ELSE copies[k]
        /\ lostAcks'[k] = IF k \in gone THEN 0 ELSE lostAcks[k]
    BY <1>1, <1>2, Counts DEF TypeOK
  <2>4. k \in gone <=> recs[k] # Absent /\ recs'[k] = Absent
    BY DEF Stored
  <2> QED
    BY <1>5, <2>1, <2>2, <2>3, <2>4
<1>10. JobInv(p)'
  <2>1. ~Resting(p)' /\ owner' = p
    BY <1>1, <1>2, <1>4 DEF Resting
  <2>2. SoundsAndButtons(p)'
    BY <1>1, <1>2, <1>4 DEF At, SoundsAndButtons, Told
  <2>3. \A k \in Keys : Outlasts(job[p].cycleTime, k)'
    BY <1>7
  <2> QED
    BY <1>1, <1>2, <1>4, <2>1, <2>2, <2>3 DEF JobInv, At, Delivering, Outlasts
<1> QED
  BY <1>1, <1>2, <1>4, <1>6, <1>7, <1>8, <1>9, <1>10, OwnerStep DEF TypeOK

\* The latest records are deleted, with their copies.
LEMMA ForgetStep ==
    ASSUME IInv, NEW p \in Processes, Forget(p)
    PROVE  IInv'
<1>1. PICK gone \in SUBSET Keys :
         /\ recs' = DeleteAll(recs, gone) /\ copies' = Clear(copies, gone)
         /\ lostAcks' = Clear(lostAcks, gone) /\ lastMarked' = Clear(lastMarked, gone)
  BY DEF Forget, Latest, Stored
<1>2. At(p, "forgetting") /\ Goto(p, "finished") /\ UNCHANGED <<sequence, owner, clock, faults, bare>>
  BY DEF Forget
<1>3. /\ owner = p /\ TypeOK /\ job[p].cycleTime \in 1..clock
      /\ \A k \in Keys : Outlasts(job[p].cycleTime, k)
      /\ SoundsAndButtons(p)
  BY <1>2, Owns DEF At, Resting
<1>4. /\ job' \in [Processes -> Job] /\ OthersStay(p)
      /\ job'[p].pc = "finished" /\ job'[p].kind = job[p].kind
      /\ job'[p].cycleTime = job[p].cycleTime
      /\ job'[p].buttons = job[p].buttons /\ job'[p].sounds = job[p].sounds
  BY <1>2, <1>3, GotoJob DEF Steps
<1>5. /\ recs' \in [Keys -> Decodable] /\ copies' \in [Keys -> Nat] /\ lostAcks' \in [Keys -> Nat]
      /\ lastMarked' \in [Keys -> 0..MaxTime]
      /\ \A k \in Keys :
            IF k \in gone
            THEN recs'[k] = Absent /\ copies'[k] = 0 /\ lostAcks'[k] = 0 /\ lastMarked'[k] = 0
            ELSE /\ recs'[k] = recs[k] /\ copies'[k] = copies[k]
                 /\ lostAcks'[k] = lostAcks[k] /\ lastMarked'[k] = lastMarked[k]
  BY <1>1, <1>3, CycleAssumption DEF TypeOK, Decodable, DeleteAll, Clear
<1>6. ASSUME NEW k \in Keys
      PROVE  /\ recs'[k] # Absent => recs'[k].queueOrder > 0
             /\ recs'[k] # Absent /\ recs'[k].sent => recs'[k].sentAt = lastMarked'[k]
             /\ Outlasts(clock, k)' /\ Outlasts(job[p].cycleTime, k)'
  BY <1>2, <1>3, <1>4, <1>5 DEF IInv, RecordsInOrder, Outlasts, Unsettled
<1>7. ASSUME NEW k \in Keys
      PROVE  copies'[k] = lostAcks'[k] +
                IF (recs'[k] # Absent /\ recs'[k].sent) \/ Marking(p, k)' THEN 1 ELSE 0
  <2>1. ~Marking(p, k) /\ ~Marking(p, k)'
    BY <1>2, <1>4 DEF Marking, At
  <2>2. copies[k] = lostAcks[k] + IF recs[k] # Absent /\ recs[k].sent THEN 1 ELSE 0
    BY <1>3, <2>1, OwnerAccounted
  <2> QED
    BY <1>5, <2>1, <2>2
<1>8. JobInv(p)'
  <2>1. ~Resting(p)' /\ owner' = p
    BY <1>2, <1>3, <1>4 DEF Resting
  <2>2. SoundsAndButtons(p)'
    BY <1>2, <1>3, <1>4 DEF At, SoundsAndButtons, Told
  <2>3. \A k \in Keys : Outlasts(job[p].cycleTime, k)'
    BY <1>6
  <2> QED
    BY <1>2, <1>3, <1>4, <2>1, <2>2, <2>3 DEF JobInv, At, Delivering, Outlasts
<1> QED
  BY <1>2, <1>3, <1>4, <1>5, <1>6, <1>7, <1>8, OwnerStep DEF TypeOK

\* A discovery takes a number for each listing that had none, as it was when
\* the listings were fetched.
LEMMA DiscoveryFits ==
    ASSUME IInv, NEW p \in Processes, At(p, "recording"),
           NEW books \in BookLists, Listed(books) = Recordable(p)
    PROVE  sequence + OrdersNeeded(recs, books, Len(books)) \in 0..MaxSequence
<1> DEFINE n == Len(books)
           Need == { i \in 1..n : NeedsOrder(recs[books[i]]) }
           New == Listed(job[p].books) \ Stored(recs)
<1>1. /\ TypeOK /\ sequence \in Nat /\ MaxSequence \in Nat
      /\ sequence + Cardinality(New) <= MaxSequence
      /\ Listed(job[p].books) \subseteq Keys
  <2>1. job[p].books \in BookLists /\ TypeOK
    BY JobFields DEF IInv
  <2>2. Listed(job[p].books) \subseteq Keys
    BY <2>1, BookListIsSequence
  <2>3. Room(p)
    BY DEF IInv, JobInv
  <2>4. sequence \in Nat /\ MaxSequence \in Nat
    BY <2>1, CycleAssumption DEF TypeOK
  <2> QED
    BY <2>1, <2>2, <2>3, <2>4 DEF Room
<1>2. /\ n \in Nat /\ DOMAIN books = 1..n
      /\ \A i, j \in 1..n : books[i] = books[j] => i = j
      /\ \A i \in 1..n : books[i] \in Keys
  BY BookListIsSequence, ElementOfSeq
<1>3. IsFiniteSet(New) /\ Cardinality(New) \in Nat
  <2>1. IsFiniteSet(New)
    BY <1>1, KeysAssumption, FS_Subset
  <2> QED
    BY <2>1, FS_CardinalityType
<1>4. ASSUME NEW i \in Need PROVE i \in 1..n /\ books[i] \in New
  <2>1. books[i] \in Keys /\ books[i] \in Listed(books)
    BY <1>2 DEF Listed
  <2>2. recs[books[i]] = Absent
    <3>1. recs[books[i]] # Absent => recs[books[i]].queueOrder > 0 /\ recs[books[i]] \in Record
      BY <1>1, <2>1 DEF IInv, RecordsInOrder, TypeOK
    <3> QED
      BY <1>4, <3>1 DEF NeedsOrder, Record
  <2> QED
    BY <2>1, <2>2 DEF Recordable, Stored
<1> DEFINE f == [i \in Need |-> books[i]]
<1>5. f \in Injection(Need, New)
  <2>1. f \in [Need -> New]
    BY <1>4
  <2>2. \A i, j \in Need : f[i] = f[j] => i = j
    BY <1>2, <1>4
  <2> QED
    BY <2>1, <2>2 DEF Injection, IsInjective
<1>6. Cardinality(Need) \in Nat /\ Cardinality(Need) <= Cardinality(New)
  <2> HIDE DEF Need, New, f
  <2>1. IsFiniteSet(Need) /\ Cardinality(Need) <= Cardinality(New)
    BY <1>3, <1>5, FS_Injection
  <2> QED
    BY <2>1, FS_CardinalityType
<1>7. OrdersNeeded(recs, books, n) = Cardinality(Need)
  BY DEF OrdersNeeded
<1> HIDE DEF Need, New
<1> QED
  BY <1>1, <1>3, <1>6, <1>7

\* The fetched listings are recorded: new ones have no copies yet.
LEMMA DiscoverStep ==
    ASSUME IInv, NEW p \in Processes, Discover(p)
    PROVE  IInv'
<1>1. PICK books \in BookLists :
         /\ Listed(books) = Recordable(p)
         /\ recs' = DiscoverAll(recs, sequence, books, job[p].cycleTime)
         /\ sequence' = sequence + OrdersNeeded(recs, books, Len(books))
  BY DEF Discover
<1>2. /\ At(p, "recording")
      /\ job' = [job EXCEPT ![p].pc = "loading", ![p].books = <<>>,
                            ![p].failed = @ \cup (Listed(job[p].books) \ Recordable(p))]
      /\ UNCHANGED <<owner, clock, faults, copies, lostAcks, lastMarked, bare>>
  BY DEF Discover, history
<1>3. /\ owner = p /\ TypeOK /\ job[p].cycleTime \in 1..clock
      /\ \A k \in Keys : Outlasts(job[p].cycleTime, k)
      /\ job[p].buttons = 0 /\ job[p].sounds = 0 /\ job[p] \in Job
      /\ job[p].failed \subseteq Keys /\ job[p].books \in BookLists
  BY <1>2, Owns, JobFields DEF At, Resting, SoundsAndButtons
<1>4. PICK j \in Job : /\ job' = [job EXCEPT ![p] = j]
                       /\ j.pc = "loading" /\ j.cycleTime = job[p].cycleTime
                       /\ j.buttons = 0 /\ j.sounds = 0
  <2> DEFINE lost == job[p].failed \cup (Listed(job[p].books) \ Recordable(p))
             j == [job[p] EXCEPT !.pc = "loading", !.books = <<>>, !.failed = lost]
  <2>1. lost \in SUBSET Keys
    BY <1>3, BookListIsSequence
  <2>2. job' = [job EXCEPT ![p] = j]
    BY <1>2
  <2> HIDE DEF lost
  <2>3. j \in Job
    BY <1>3, <2>1, NoBooks DEF Job, Steps
  <2> QED
    BY <1>3, <2>2, <2>3 DEF Job
<1>5. job' \in [Processes -> Job] /\ job'[p] = j /\ OthersStay(p)
  BY <1>3, <1>4, NewJob
<1>6. sequence' \in 0..MaxSequence
  BY <1>1, <1>2, DiscoveryFits
<1>7. /\ recs \in [Keys -> Decodable] /\ sequence \in Nat /\ job[p].cycleTime \in Nat
      /\ lastMarked \in [Keys -> Nat]
  BY <1>3 DEF TypeOK, Decodable
<1>8. ASSUME NEW k \in Keys
      PROVE  /\ recs'[k] \in Decodable
             /\ recs[k] # Absent =>
                   /\ recs'[k] # Absent /\ recs'[k].sent = recs[k].sent
                   /\ recs'[k].sentAt = recs[k].sentAt
                   /\ recs[k].queueOrder > 0 => recs'[k].queueOrder > 0
             /\ recs[k] = Absent =>
                   recs'[k] = Absent \/ (recs'[k] # Absent /\ ~recs'[k].sent /\ recs'[k].queueOrder > 0)
  BY <1>1, <1>7, DiscoverAllRecords
<1>9. recs' \in [Keys -> Decodable]
  BY <1>1, <1>8 DEF DiscoverAll
<1>10. ASSUME NEW k \in Keys
       PROVE  /\ Unsettled(k)' <=> Unsettled(k)
              /\ recs'[k] # Absent => recs'[k].queueOrder > 0
              /\ recs'[k] # Absent /\ recs'[k].sent => recs'[k].sentAt = lastMarked'[k]
  BY <1>2, <1>8 DEF IInv, RecordsInOrder, Unsettled
<1>11. \A k \in Keys : Outlasts(clock, k)' /\ Outlasts(job[p].cycleTime, k)'
  BY <1>2, <1>3, <1>4, <1>5, <1>10 DEF IInv, RecordsInOrder, Outlasts
<1>12. ASSUME NEW k \in Keys
       PROVE  copies'[k] = lostAcks'[k] +
                 IF (recs'[k] # Absent /\ recs'[k].sent) \/ Marking(p, k)' THEN 1 ELSE 0
  <2>1. ~Marking(p, k) /\ ~Marking(p, k)'
    BY <1>2, <1>4, <1>5 DEF Marking, At
  <2>2. copies[k] = lostAcks[k] + IF recs[k] # Absent /\ recs[k].sent THEN 1 ELSE 0
    BY <1>3, <2>1, OwnerAccounted
  <2> QED
    BY <1>2, <1>10, <2>1, <2>2 DEF Unsettled
<1>13. JobInv(p)'
  <2>1. ~Resting(p)' /\ owner' = p
    BY <1>2, <1>3, <1>4, <1>5 DEF Resting
  <2>2. SoundsAndButtons(p)'
    BY <1>4, <1>5 DEF SoundsAndButtons, Told
  <2> QED
    BY <1>2, <1>3, <1>4, <1>5, <1>11, <2>1, <2>2 DEF JobInv, At, Delivering, Outlasts
<1> QED
  BY <1>2, <1>3, <1>5, <1>6, <1>9, <1>10, <1>11, <1>12, <1>13, OwnerStep DEF TypeOK

-----------------------------------------------------------------------------
(* Delivering                                                              *)

\* The messages that are left, without the first.
LEMMA TailOfChunks ==
    ASSUME NEW chunks \in Seq(BookLists), chunks # <<>>
    PROVE  /\ 1 \in DOMAIN chunks /\ Head(chunks) = chunks[1]
           /\ Tail(chunks) \in Seq(BookLists)
           /\ Tail(chunks) = <<>> <=> Len(chunks) = 1
           /\ \A i \in DOMAIN Tail(chunks) :
                 /\ i + 1 \in DOMAIN chunks /\ i + 1 # 1
                 /\ Tail(chunks)[i] = chunks[i + 1]
<1>1. /\ Len(chunks) \in Nat \ {0} /\ DOMAIN chunks = 1..Len(chunks)
      /\ Tail(chunks) \in Seq(BookLists) /\ Len(Tail(chunks)) = Len(chunks) - 1
      /\ \A i \in 1..Len(Tail(chunks)) : Tail(chunks)[i] = chunks[i + 1]
  BY EmptySeq, LenProperties, HeadTailProperties
<1>2. DOMAIN Tail(chunks) = 1..Len(Tail(chunks))
  BY <1>1, LenProperties
<1>3. Head(chunks) = chunks[1]
  OBVIOUS
<1>4. Tail(chunks) = <<>> <=> Len(Tail(chunks)) = 0
  BY <1>1, EmptySeq
<1> QED
  BY <1>1, <1>2, <1>3, <1>4

\* The next message, after one that leaves what follows it as it was.
LEMMA NextChunkJob ==
    ASSUME NEW j \in Job, j.chunks # <<>>
    PROVE  /\ NextChunk(j) \in Job
           /\ NextChunk(j).chunks = Tail(j.chunks)
           /\ NextChunk(j).pc = IF Len(j.chunks) = 1 THEN "finished" ELSE "sending"
           /\ NextChunk(j).pc = "sending" => NextChunk(j).chunks # <<>>
           /\ NextChunk(j).kind = j.kind /\ NextChunk(j).cycleTime = j.cycleTime
           /\ NextChunk(j).buttons = j.buttons /\ NextChunk(j).sounds = j.sounds
<1> DEFINE t == Tail(j.chunks)
           pc == IF t = <<>> THEN "finished" ELSE "sending"
<1>1. j.chunks \in Seq(BookLists)
  BY DEF Job
<1>2. t \in Seq(BookLists) /\ (t = <<>> <=> Len(j.chunks) = 1)
  BY <1>1, TailOfChunks
<1>3. NextChunk(j) = [j EXCEPT !.chunks = t, !.pc = pc]
  BY DEF NextChunk
<1>4. pc \in Steps
  BY DEF Steps
<1> HIDE DEF t
<1>5. NextChunk(j) \in Job
  BY <1>2, <1>3, <1>4 DEF Job
<1> QED
  BY <1>2, <1>3, <1>5 DEF Job, t

\* A message that Telegram accepts.
LEMMA AcceptedJob ==
    ASSUME IInv, NEW p \in Processes, At(p, "sending")
    PROVE  /\ Accepted(p) \in Job /\ Accepted(p).chunks = job[p].chunks
           /\ Accepted(p).kind = job[p].kind /\ Accepted(p).cycleTime = job[p].cycleTime
           /\ Accepted(p).sounds = IF IsLast(p) THEN 1 ELSE 0
           /\ Accepted(p).buttons =
                 (IF job[p].kind = "refresh" THEN -1 ELSE 0) + (IF IsLast(p) THEN 1 ELSE 0)
<1>1. job[p] \in Job /\ Told(p, FALSE)
  BY JobFields DEF At, IInv, JobInv, SoundsAndButtons
<1> DEFINE buttons == IF IsLast(p) THEN job[p].buttons + 1 ELSE job[p].buttons
           sounds == IF IsLast(p) THEN job[p].sounds + 1 ELSE job[p].sounds
<1>2. /\ buttons \in -1..1 /\ sounds \in 0..1
      /\ sounds = (IF IsLast(p) THEN 1 ELSE 0)
      /\ buttons = (IF job[p].kind = "refresh" THEN -1 ELSE 0) + (IF IsLast(p) THEN 1 ELSE 0)
  BY <1>1 DEF Told
<1>3. Accepted(p) = [job[p] EXCEPT !.buttons = buttons, !.sounds = sounds]
  BY DEF Accepted
<1> HIDE DEF buttons, sounds
<1>4. Accepted(p) \in Job
  BY <1>1, <1>2, <1>3 DEF Job
<1> QED
  BY <1>1, <1>2, <1>3, <1>4 DEF Job

\* What a process that delivers knows.
LEMMA DeliveringOwner ==
    ASSUME IInv, NEW p \in Processes, job[p].pc \in {"sending", "marking"}
    PROVE  /\ owner = p /\ TypeOK /\ job[p] \in Job /\ job[p].cycleTime \in 1..clock
           /\ \A k \in Keys : Outlasts(job[p].cycleTime, k)
           /\ SoundsAndButtons(p)
           /\ job[p].chunks \in Seq(BookLists) /\ job[p].chunks # <<>>
           /\ Undelivered(p)
           /\ InChunk(p) = Listed(job[p].chunks[1]) /\ InChunk(p) \subseteq PendingKeys(recs)
<1>1. /\ owner = p /\ TypeOK /\ job[p].cycleTime \in 1..clock
      /\ \A k \in Keys : Outlasts(job[p].cycleTime, k)
      /\ SoundsAndButtons(p)
  BY Owns DEF Resting
<1>2. job[p] \in Job /\ job[p].chunks \in Seq(BookLists) /\ Undelivered(p)
  BY <1>1, JobFields DEF IInv, JobInv, Delivering
<1>3. 1 \in DOMAIN job[p].chunks /\ Head(job[p].chunks) = job[p].chunks[1]
  BY <1>2, TailOfChunks DEF Undelivered
<1> QED
  BY <1>1, <1>2, <1>3 DEF Undelivered, InChunk

\* A message is sent: each of its listings has one more copy, and its marking
\* is due.
LEMMA SendStep ==
    ASSUME IInv, NEW p \in Processes, Send(p)
    PROVE  IInv'
<1>1. /\ At(p, "sending") /\ Post(p, TRUE)
      /\ job' = [job EXCEPT ![p] = IF InChunk(p) = {} THEN NextChunk(Accepted(p))
                                   ELSE [Accepted(p) EXCEPT !.pc = "marking"]]
      /\ UNCHANGED <<recs, sequence, owner, clock, faults, lostAcks, lastMarked>>
  BY AnswersMean DEF Send, store
<1>2. /\ owner = p /\ TypeOK /\ job[p] \in Job /\ job[p].cycleTime \in 1..clock
      /\ \A k \in Keys : Outlasts(job[p].cycleTime, k)
      /\ SoundsAndButtons(p)
      /\ job[p].chunks \in Seq(BookLists) /\ job[p].chunks # <<>>
      /\ Undelivered(p) /\ InChunk(p) \subseteq PendingKeys(recs)
  BY <1>1, DeliveringOwner DEF At
<1>3. copies' = Bump(copies, InChunk(p)) /\ bare' \in BOOLEAN
  BY <1>1, <1>2 DEF Post, TypeOK
<1>4. PICK j \in Job :
         /\ job' = [job EXCEPT ![p] = j]
         /\ j.kind = job[p].kind /\ j.cycleTime = job[p].cycleTime
         /\ j.sounds = IF IsLast(p) THEN 1 ELSE 0
         /\ j.buttons = (IF job[p].kind = "refresh" THEN -1 ELSE 0) + (IF IsLast(p) THEN 1 ELSE 0)
         /\ IF InChunk(p) = {}
            THEN /\ j.chunks = Tail(job[p].chunks)
                 /\ j.pc = IF IsLast(p) THEN "finished" ELSE "sending"
                 /\ j.pc = "sending" => j.chunks # <<>>
            ELSE j.chunks = job[p].chunks /\ j.pc = "marking"
  <2>1. /\ Accepted(p) \in Job /\ Accepted(p).chunks = job[p].chunks
        /\ Accepted(p).kind = job[p].kind /\ Accepted(p).cycleTime = job[p].cycleTime
        /\ Accepted(p).sounds = IF IsLast(p) THEN 1 ELSE 0
        /\ Accepted(p).buttons =
              (IF job[p].kind = "refresh" THEN -1 ELSE 0) + (IF IsLast(p) THEN 1 ELSE 0)
    BY <1>1, AcceptedJob
  <2>2. CASE InChunk(p) = {}
    <3>1. job' = [job EXCEPT ![p] = NextChunk(Accepted(p))]
      BY <1>1, <2>2
    <3> DEFINE a == Accepted(p)
               j == NextChunk(a)
    <3>2. a \in Job /\ a.chunks = job[p].chunks /\ a.chunks # <<>>
      BY <1>2, <2>1
    <3>3. /\ a.kind = job[p].kind /\ a.cycleTime = job[p].cycleTime
          /\ a.sounds = IF IsLast(p) THEN 1 ELSE 0
          /\ a.buttons = (IF job[p].kind = "refresh" THEN -1 ELSE 0) + (IF IsLast(p) THEN 1 ELSE 0)
      BY <2>1
    <3> HIDE DEF a
    <3>4. /\ j \in Job
          /\ j.chunks = Tail(a.chunks)
          /\ j.pc = IF Len(a.chunks) = 1 THEN "finished" ELSE "sending"
          /\ j.pc = "sending" => j.chunks # <<>>
          /\ j.kind = a.kind /\ j.cycleTime = a.cycleTime
          /\ j.buttons = a.buttons /\ j.sounds = a.sounds
      BY <3>2, NextChunkJob
    <3>5. job' = [job EXCEPT ![p] = j]
      BY <3>1 DEF a
    <3>6. IsLast(p) <=> Len(a.chunks) = 1
      BY <3>2 DEF IsLast
    <3> HIDE DEF j
    <3> QED
      BY <2>2, <3>2, <3>3, <3>4, <3>5, <3>6
  <2>3. CASE InChunk(p) # {}
    <3>1. job' = [job EXCEPT ![p] = [Accepted(p) EXCEPT !.pc = "marking"]]
      BY <1>1, <2>3
    <3>2. [Accepted(p) EXCEPT !.pc = "marking"] \in Job
      BY <2>1 DEF Job, Steps
    <3> QED
      BY <2>1, <2>3, <3>1, <3>2 DEF Job
  <2> QED
    BY <2>2, <2>3
<1>5. job' \in [Processes -> Job] /\ job'[p] = j /\ OthersStay(p)
  BY <1>2, <1>4, NewJob
<1>6. IsLast(p) <=> Len(job[p].chunks) = 1
  BY DEF IsLast
<1>7. JobInv(p)'
  <2>1. ~Resting(p)' /\ owner' = p
    BY <1>1, <1>2, <1>4, <1>5 DEF Resting
  <2>2. SoundsAndButtons(p)'
    <3>1. CASE InChunk(p) = {}
      BY <1>4, <1>5, <3>1 DEF SoundsAndButtons, Told
    <3>2. CASE InChunk(p) # {}
      <4>1. IsLast(p)' <=> IsLast(p)
        BY <1>4, <1>5, <3>2 DEF IsLast
      <4> QED
        BY <1>4, <1>5, <3>2, <4>1 DEF SoundsAndButtons, Told
    <3> QED
      BY <3>1, <3>2
  <2>3. Delivering(p)' => Undelivered(p)'
    <3>1. CASE InChunk(p) = {} /\ j.pc = "sending"
      <4>1. \A i \in DOMAIN Tail(job[p].chunks) :
               i + 1 \in DOMAIN job[p].chunks /\ Tail(job[p].chunks)[i] = job[p].chunks[i + 1]
        BY <1>2, TailOfChunks
      <4>2. DOMAIN Tail(job[p].chunks) \subseteq Nat
        <5>1. Tail(job[p].chunks) \in Seq(BookLists)
          BY <1>2, TailOfChunks
        <5> QED
          BY <5>1, LenProperties
      <4>3. \A i, h \in DOMAIN Tail(job[p].chunks) : i # h => i + 1 # h + 1
        BY <4>2
      <4>4. job'[p].chunks = Tail(job[p].chunks) /\ job'[p].chunks # <<>> /\ recs' = recs
        BY <1>1, <1>4, <1>5, <3>1
      <4>5. PendingKeys(recs)' = PendingKeys(recs)
        BY <4>4 DEF PendingKeys, Stored
      <4>6. \A i \in DOMAIN Tail(job[p].chunks) : Listed(Tail(job[p].chunks)[i]) \subseteq PendingKeys(recs)
        BY <1>2, <4>1 DEF Undelivered
      <4>7. \A i, h \in DOMAIN Tail(job[p].chunks) :
               i # h => Listed(Tail(job[p].chunks)[i]) \cap Listed(Tail(job[p].chunks)[h]) = {}
        BY <1>2, <4>1, <4>3 DEF Undelivered
      <4> QED
        BY <4>4, <4>5, <4>6, <4>7 DEF Undelivered
    <3>2. CASE InChunk(p) # {}
      BY <1>1, <1>2, <1>4, <1>5, <3>2 DEF Undelivered, PendingKeys, Stored
    <3> QED
      BY <1>4, <1>5, <3>1, <3>2 DEF Delivering
  <2> QED
    BY <1>1, <1>2, <1>4, <1>5, <2>1, <2>2, <2>3 DEF JobInv, At, Outlasts, Unsettled
<1>8. copies' \in [Keys -> Nat]
  BY <1>2, <1>3, Counts DEF TypeOK
<1>9. ASSUME NEW k \in Keys
      PROVE  copies'[k] = lostAcks'[k] +
                IF (recs'[k] # Absent /\ recs'[k].sent) \/ Marking(p, k)' THEN 1 ELSE 0
  <2>1. ~Marking(p, k)
    BY <1>1 DEF Marking, At
  <2>2. copies[k] = lostAcks[k] + IF recs[k] # Absent /\ recs[k].sent THEN 1 ELSE 0
    BY <1>2, <2>1, OwnerAccounted
  <2>3. copies'[k] = IF k \in InChunk(p) THEN copies[k] + 1 ELSE copies[k]
    BY <1>3 DEF Bump
  <2>4. Marking(p, k)' <=> k \in InChunk(p)
    <3>1. CASE InChunk(p) = {}
      BY <1>4, <1>5, <3>1 DEF Marking, At
    <3>2. CASE InChunk(p) # {}
      BY <1>4, <1>5, <3>2 DEF Marking, At, InChunk
    <3> QED
      BY <3>1, <3>2
  <2>5. k \in InChunk(p) => ~(recs[k] # Absent /\ recs[k].sent)
    BY <1>2 DEF PendingKeys
  <2>6. copies[k] \in Nat /\ lostAcks[k] \in Nat /\ lostAcks' = lostAcks /\ recs' = recs
    BY <1>1, <1>2 DEF TypeOK
  <2>7. CASE k \in InChunk(p)
    BY <2>2, <2>3, <2>4, <2>5, <2>6, <2>7
  <2>8. CASE k \notin InChunk(p)
    BY <2>2, <2>3, <2>4, <2>6, <2>8
  <2> QED
    BY <2>7, <2>8
<1>10. ASSUME NEW k \in Keys
       PROVE  /\ recs'[k] # Absent => recs'[k].queueOrder > 0
              /\ recs'[k] # Absent /\ recs'[k].sent => recs'[k].sentAt = lastMarked'[k]
              /\ Outlasts(clock, k)'
  BY <1>1 DEF IInv, RecordsInOrder, Outlasts, Unsettled
<1> QED
  BY <1>1, <1>2, <1>3, <1>5, <1>7, <1>8, <1>9, <1>10, OwnerStep DEF TypeOK, Decodable

\* A message is not sent, or Telegram's answer is lost: its copies are lost
\* acknowledgements.
LEMMA SendFailsStep ==
    ASSUME IInv, NEW p \in Processes, SendFails(p)
    PROVE  IInv'
<1>1. PICK taken \in BOOLEAN :
         /\ At(p, "sending") /\ Fault /\ Post(p, taken)
         /\ lostAcks' = IF taken THEN Bump(lostAcks, InChunk(p)) ELSE lostAcks
         /\ job' = [job EXCEPT ![p] = [IF taken THEN Accepted(p) ELSE job[p] EXCEPT !.pc = "failed"]]
         /\ UNCHANGED <<recs, sequence, owner, clock, lastMarked>>
  BY AnswersMean DEF SendFails, store
<1>2. /\ owner = p /\ TypeOK /\ job[p] \in Job /\ job[p].cycleTime \in 1..clock
      /\ \A k \in Keys : Outlasts(job[p].cycleTime, k)
      /\ SoundsAndButtons(p) /\ InChunk(p) \subseteq PendingKeys(recs)
  BY <1>1, DeliveringOwner DEF At
<1>3. bare' \in BOOLEAN /\ faults' \in 0..MaxFaults
  BY <1>1, <1>2, CycleAssumption DEF Post, Fault, TypeOK
<1>4. PICK j \in Job :
         /\ job' = [job EXCEPT ![p] = j]
         /\ j.pc = "failed" /\ j.kind = job[p].kind /\ j.cycleTime = job[p].cycleTime
         /\ j.kind = "refresh" => j.buttons <= 0
  <2> DEFINE a == IF taken THEN Accepted(p) ELSE job[p]
             j == [a EXCEPT !.pc = "failed"]
  <2>1. /\ a \in Job /\ a.kind = job[p].kind /\ a.cycleTime = job[p].cycleTime
        /\ a.kind = "refresh" => a.buttons <= 0
    <3>1. CASE taken
      BY <1>1, <3>1, AcceptedJob
    <3>2. CASE ~taken
      BY <1>2, <3>2 DEF SoundsAndButtons
    <3> QED
      BY <3>1, <3>2
  <2>2. job' = [job EXCEPT ![p] = j]
    BY <1>1
  <2> HIDE DEF a
  <2>3. j \in Job
    BY <2>1 DEF Job, Steps
  <2> QED
    BY <2>1, <2>2, <2>3 DEF Job
<1>5. job' \in [Processes -> Job] /\ job'[p] = j /\ OthersStay(p)
  BY <1>2, <1>4, NewJob
<1>6. JobInv(p)'
  <2>1. ~Resting(p)' /\ owner' = p
    BY <1>1, <1>2, <1>4, <1>5 DEF Resting
  <2>2. SoundsAndButtons(p)'
    BY <1>4, <1>5 DEF SoundsAndButtons
  <2> QED
    BY <1>1, <1>2, <1>4, <1>5, <2>1, <2>2 DEF JobInv, At, Delivering, Outlasts, Unsettled
<1>7. copies' \in [Keys -> Nat] /\ lostAcks' \in [Keys -> Nat]
  BY <1>1, <1>2, Counts DEF Post, TypeOK
<1>8. ASSUME NEW k \in Keys
      PROVE  copies'[k] = lostAcks'[k] +
                IF (recs'[k] # Absent /\ recs'[k].sent) \/ Marking(p, k)' THEN 1 ELSE 0
  <2>1. ~Marking(p, k) /\ ~Marking(p, k)'
    BY <1>1, <1>4, <1>5 DEF Marking, At
  <2>2. copies[k] = lostAcks[k] + IF recs[k] # Absent /\ recs[k].sent THEN 1 ELSE 0
    BY <1>2, <2>1, OwnerAccounted
  <2>3. \/ copies'[k] = copies[k] /\ lostAcks'[k] = lostAcks[k]
        \/ copies'[k] = copies[k] + 1 /\ lostAcks'[k] = lostAcks[k] + 1
    BY <1>1 DEF Post, Bump
  <2>4. copies[k] \in Nat /\ lostAcks[k] \in Nat /\ recs' = recs
    BY <1>1, <1>2 DEF TypeOK
  <2> QED
    BY <2>1, <2>2, <2>3, <2>4
<1>9. ASSUME NEW k \in Keys
      PROVE  /\ recs'[k] # Absent => recs'[k].queueOrder > 0
             /\ recs'[k] # Absent /\ recs'[k].sent => recs'[k].sentAt = lastMarked'[k]
             /\ Outlasts(clock, k)'
  BY <1>1 DEF IInv, RecordsInOrder, Outlasts, Unsettled
<1> QED
  BY <1>1, <1>2, <1>3, <1>5, <1>6, <1>7, <1>8, <1>9, OwnerStep DEF TypeOK, Decodable

\* A message is marked: its listings are sent.
LEMMA MarkStep ==
    ASSUME IInv, NEW p \in Processes, Mark(p)
    PROVE  IInv'
<1>1. /\ At(p, "marking")
      /\ recs' = MarkAllSent(recs, InChunk(p), job[p].cycleTime)
      /\ lastMarked' = [k \in Keys |-> IF k \in InChunk(p) THEN job[p].cycleTime ELSE lastMarked[k]]
      /\ job' = [job EXCEPT ![p] = NextChunk(job[p])]
      /\ UNCHANGED <<sequence, owner, clock, faults, copies, lostAcks, bare>>
  BY DEF Mark
<1>2. /\ owner = p /\ TypeOK /\ job[p] \in Job /\ job[p].cycleTime \in 1..clock
      /\ \A k \in Keys : Outlasts(job[p].cycleTime, k)
      /\ SoundsAndButtons(p)
      /\ job[p].chunks \in Seq(BookLists) /\ job[p].chunks # <<>> /\ Undelivered(p)
      /\ InChunk(p) = Listed(job[p].chunks[1]) /\ InChunk(p) \subseteq PendingKeys(recs)
  BY <1>1, DeliveringOwner DEF At
<1>3. /\ recs \in [Keys -> Decodable] /\ job[p].cycleTime \in Nat
      /\ lastMarked \in [Keys -> Nat] /\ job[p].cycleTime \in 0..MaxTime
  BY <1>2, JobFields DEF TypeOK, Decodable
<1>4. PICK j \in Job :
         /\ job' = [job EXCEPT ![p] = j] /\ j.chunks = Tail(job[p].chunks)
         /\ j.pc = IF IsLast(p) THEN "finished" ELSE "sending"
         /\ j.pc = "sending" => j.chunks # <<>>
         /\ j.kind = job[p].kind /\ j.cycleTime = job[p].cycleTime
         /\ j.buttons = job[p].buttons /\ j.sounds = job[p].sounds
  <2> DEFINE j == NextChunk(job[p])
  <2>1. /\ j \in Job
        /\ j.chunks = Tail(job[p].chunks)
        /\ j.pc = IF Len(job[p].chunks) = 1 THEN "finished" ELSE "sending"
        /\ j.pc = "sending" => j.chunks # <<>>
        /\ j.kind = job[p].kind /\ j.cycleTime = job[p].cycleTime
        /\ j.buttons = job[p].buttons /\ j.sounds = job[p].sounds
    BY <1>2, NextChunkJob
  <2>2. job' = [job EXCEPT ![p] = j]
    BY <1>1
  <2> HIDE DEF j
  <2> QED
    BY <2>1, <2>2 DEF IsLast
<1>5. job' \in [Processes -> Job] /\ job'[p] = j /\ OthersStay(p)
  BY <1>2, <1>4, NewJob
<1>6. ASSUME NEW k \in Keys
      PROVE  /\ recs'[k] \in Decodable
             /\ k \notin InChunk(p) => recs'[k] = recs[k] /\ lastMarked'[k] = lastMarked[k]
             /\ k \in InChunk(p) =>
                   /\ recs[k] # Absent /\ ~recs[k].sent
                   /\ recs'[k] # Absent /\ recs'[k].sent /\ recs'[k].sentAt = job[p].cycleTime
                   /\ recs'[k].queueOrder = recs[k].queueOrder
                   /\ lastMarked'[k] = job[p].cycleTime
  <2>1. k \in InChunk(p) => recs[k] # Absent /\ ~recs[k].sent
    BY <1>2 DEF PendingKeys, Stored
  <2>2. /\ recs'[k] \in Decodable
        /\ k \notin InChunk(p) => recs'[k] = recs[k]
        /\ k \in InChunk(p) => /\ recs'[k] # Absent /\ recs'[k].sent
                               /\ recs'[k].sentAt = job[p].cycleTime
                               /\ recs'[k].queueOrder = recs[k].queueOrder
    BY <1>1, <1>3, <2>1, MarkAllSentRecords
  <2>3. lastMarked'[k] = IF k \in InChunk(p) THEN job[p].cycleTime ELSE lastMarked[k]
    BY <1>1
  <2> QED
    BY <2>1, <2>2, <2>3
<1>7. /\ recs' \in [Keys -> Decodable] /\ lastMarked' \in [Keys -> 0..MaxTime]
  BY <1>1, <1>2, <1>3, <1>6 DEF MarkAllSent, TypeOK
<1>8. ASSUME NEW k \in Keys
      PROVE  /\ recs'[k] # Absent => recs'[k].queueOrder > 0
             /\ recs'[k] # Absent /\ recs'[k].sent => recs'[k].sentAt = lastMarked'[k]
             /\ Outlasts(clock, k)' /\ Outlasts(job[p].cycleTime, k)'
  <2>1. /\ recs[k] # Absent => recs[k].queueOrder > 0
        /\ recs[k] # Absent /\ recs[k].sent => recs[k].sentAt = lastMarked[k]
        /\ Outlasts(clock, k) /\ Outlasts(job[p].cycleTime, k)
        /\ clock' = clock /\ job'[p].cycleTime = job[p].cycleTime
    BY <1>1, <1>2, <1>4, <1>5 DEF IInv, RecordsInOrder
  <2> QED
    BY <1>6, <2>1 DEF Outlasts, Unsettled
<1>9. ASSUME NEW k \in Keys
      PROVE  copies'[k] = lostAcks'[k] +
                IF (recs'[k] # Absent /\ recs'[k].sent) \/ Marking(p, k)' THEN 1 ELSE 0
  <2>1. (Marking(p, k) <=> k \in InChunk(p)) /\ ~Marking(p, k)'
    BY <1>1, <1>4, <1>5 DEF Marking, At
  <2>2. copies[k] = lostAcks[k] + IF (recs[k] # Absent /\ recs[k].sent) \/ Marking(p, k) THEN 1 ELSE 0
    BY <1>2, OwnerAccounted
  <2> QED
    BY <1>1, <1>6, <2>1, <2>2
<1>10. SoundsAndButtons(p)'
  <2>1. Told(p, IsLast(p))
    BY <1>1, <1>2 DEF SoundsAndButtons, At
  <2>2. /\ job'[p].sounds = job[p].sounds /\ job'[p].buttons = job[p].buttons
        /\ job'[p].kind = job[p].kind /\ job'[p].pc = IF IsLast(p) THEN "finished" ELSE "sending"
    BY <1>4, <1>5
  <2> QED
    BY <1>2, <2>1, <2>2 DEF SoundsAndButtons, Told
<1>11. ASSUME Delivering(p)' PROVE Undelivered(p)'
  <2> DEFINE rest == Tail(job[p].chunks)
  <2>1. \A i \in DOMAIN rest : /\ i + 1 \in DOMAIN job[p].chunks /\ i + 1 # 1 /\ i \in Nat
                               /\ rest[i] = job[p].chunks[i + 1]
    <3>1. /\ rest \in Seq(BookLists)
          /\ \A i \in DOMAIN rest : /\ i + 1 \in DOMAIN job[p].chunks /\ i + 1 # 1
                                    /\ rest[i] = job[p].chunks[i + 1]
      BY <1>2, TailOfChunks
    <3> QED
      BY <3>1, LenProperties
  <2>2. 1 \in DOMAIN job[p].chunks
    BY <1>2, TailOfChunks
  <2>3. ASSUME NEW i \in DOMAIN rest, NEW k \in Listed(rest[i]) PROVE k \in PendingKeys(recs)'
    <3>1. Listed(job[p].chunks[i + 1]) \subseteq PendingKeys(recs)
      BY <1>2, <2>1 DEF Undelivered
    <3>2. Listed(job[p].chunks[i + 1]) \cap Listed(job[p].chunks[1]) = {}
      BY <1>2, <2>1, <2>2 DEF Undelivered
    <3>3. k \in PendingKeys(recs) /\ k \notin InChunk(p)
      BY <1>2, <2>1, <2>3, <3>1, <3>2
    <3> QED
      BY <1>6, <3>3 DEF PendingKeys, Stored
  <2>4. \A i, h \in DOMAIN rest : i # h => Listed(rest[i]) \cap Listed(rest[h]) = {}
    <3>1. \A i, h \in DOMAIN rest : i # h => i + 1 # h + 1
      BY <2>1
    <3> QED
      BY <1>2, <2>1, <3>1 DEF Undelivered
  <2>5. job'[p].chunks = rest /\ job'[p].chunks # <<>>
    BY <1>4, <1>5, <1>11 DEF Delivering
  <2> QED
    BY <2>3, <2>4, <2>5 DEF Undelivered
<1>12. JobInv(p)'
  <2>1. ~Resting(p)' /\ owner' = p
    BY <1>1, <1>2, <1>4, <1>5 DEF Resting
  <2>2. \A k \in Keys : Outlasts(job[p].cycleTime, k)'
    BY <1>8
  <2>3. job'[p].cycleTime = job[p].cycleTime /\ clock' = clock /\ job'[p].pc # "recording"
    BY <1>1, <1>4, <1>5
  <2> QED
    BY <1>2, <1>10, <1>11, <2>1, <2>2, <2>3 DEF JobInv, At, Outlasts
<1> QED
  BY <1>1, <1>2, <1>5, <1>7, <1>8, <1>9, <1>12, OwnerStep DEF TypeOK

\* Marking fails: the copies of the message become lost acknowledgements.
LEMMA MarkFailsStep ==
    ASSUME IInv, NEW p \in Processes, MarkFails(p)
    PROVE  IInv'
<1>1. /\ At(p, "marking") /\ Fault /\ Goto(p, "failed")
      /\ lostAcks' = Bump(lostAcks, InChunk(p))
      /\ UNCHANGED <<recs, sequence, owner, clock, copies, lastMarked, bare>>
  BY DEF MarkFails, store
<1>2. /\ owner = p /\ TypeOK /\ job[p] \in Job /\ job[p].cycleTime \in 1..clock
      /\ \A k \in Keys : Outlasts(job[p].cycleTime, k)
      /\ SoundsAndButtons(p) /\ InChunk(p) \subseteq PendingKeys(recs)
  BY <1>1, DeliveringOwner DEF At
<1>3. /\ job' \in [Processes -> Job] /\ OthersStay(p)
      /\ job'[p].pc = "failed" /\ job'[p].kind = job[p].kind
      /\ job'[p].cycleTime = job[p].cycleTime /\ job'[p].buttons = job[p].buttons
  BY <1>1, <1>2, GotoJob DEF Steps
<1>4. JobInv(p)'
  <2>1. ~Resting(p)' /\ owner' = p
    BY <1>1, <1>2, <1>3 DEF Resting
  <2>2. SoundsAndButtons(p)'
    BY <1>2, <1>3 DEF SoundsAndButtons
  <2> QED
    BY <1>1, <1>2, <1>3, <2>1, <2>2 DEF JobInv, At, Delivering, Outlasts, Unsettled
<1>5. lostAcks' \in [Keys -> Nat] /\ faults' \in 0..MaxFaults
  BY <1>1, <1>2, CycleAssumption, Counts DEF Fault, TypeOK
<1>6. ASSUME NEW k \in Keys
      PROVE  copies'[k] = lostAcks'[k] +
                IF (recs'[k] # Absent /\ recs'[k].sent) \/ Marking(p, k)' THEN 1 ELSE 0
  <2>1. (Marking(p, k) <=> k \in InChunk(p)) /\ ~Marking(p, k)'
    BY <1>1, <1>3 DEF Marking, At
  <2>2. copies[k] = lostAcks[k] + IF (recs[k] # Absent /\ recs[k].sent) \/ Marking(p, k) THEN 1 ELSE 0
    BY <1>2, OwnerAccounted
  <2>3. k \in InChunk(p) => ~(recs[k] # Absent /\ recs[k].sent)
    BY <1>2 DEF PendingKeys
  <2>4. lostAcks'[k] = IF k \in InChunk(p) THEN lostAcks[k] + 1 ELSE lostAcks[k]
    BY <1>1 DEF Bump
  <2>5. copies[k] \in Nat /\ lostAcks[k] \in Nat /\ recs' = recs /\ copies' = copies
    BY <1>1, <1>2 DEF TypeOK
  <2>6. CASE k \in InChunk(p)
    BY <2>1, <2>2, <2>3, <2>4, <2>5, <2>6
  <2>7. CASE k \notin InChunk(p)
    BY <2>1, <2>2, <2>4, <2>5, <2>7
  <2> QED
    BY <2>6, <2>7
<1>7. ASSUME NEW k \in Keys
      PROVE  /\ recs'[k] # Absent => recs'[k].queueOrder > 0
             /\ recs'[k] # Absent /\ recs'[k].sent => recs'[k].sentAt = lastMarked'[k]
             /\ Outlasts(clock, k)'
  BY <1>1 DEF IInv, RecordsInOrder, Outlasts, Unsettled
<1> QED
  BY <1>1, <1>2, <1>3, <1>4, <1>5, <1>6, <1>7, OwnerStep DEF TypeOK, Decodable

\* A process dies; copies it was about to mark become lost acknowledgements.
LEMMA CrashStep ==
    ASSUME IInv, NEW p \in Processes, Crash(p)
    PROVE  IInv'
<1>1. /\ ~At(p, "idle") /\ Fault
      /\ owner' = IF owner = p THEN Nobody ELSE owner
      /\ lostAcks' = IF At(p, "marking") THEN Bump(lostAcks, InChunk(p)) ELSE lostAcks
      /\ job' = [job EXCEPT ![p] = NoJob]
      /\ UNCHANGED <<recs, sequence, clock, copies, lastMarked, bare>>
  BY DEF Crash, store
<1>2. TypeOK /\ faults' \in 0..MaxFaults /\ owner' # p
  BY <1>1, CycleAssumption DEF Fault, IInv, TypeOK
<1>3. job' \in [Processes -> Job] /\ job'[p] = NoJob /\ OthersStay(p)
  BY <1>1, <1>2, NoJobIsJob, NewJob
<1>4. JobInv(p)'
  BY <1>2, <1>3 DEF JobInv, Resting, At, Delivering, SoundsAndButtons, NoJob
<1>5. ~At(p, "marking")'
  BY <1>3 DEF At, NoJob
<1>6. CASE owner # p
  <2>1. ~At(p, "marking")
    BY <1>6 DEF IInv, JobInv, Resting, At
  <2> QED
    BY <1>1, <1>2, <1>3, <1>4, <1>5, <1>6, <2>1, QuietStep DEF TypeOK
<1>7. CASE owner = p
  <2>1. lostAcks' \in [Keys -> Nat]
    BY <1>1, <1>2, Counts DEF TypeOK
  <2>2. ASSUME NEW k \in Keys
        PROVE  copies'[k] = lostAcks'[k] +
                  IF (recs'[k] # Absent /\ recs'[k].sent) \/ Marking(p, k)' THEN 1 ELSE 0
    <3>1. copies[k] = lostAcks[k] + IF (recs[k] # Absent /\ recs[k].sent) \/ Marking(p, k) THEN 1 ELSE 0
      BY <1>7, OwnerAccounted
    <3>2. ~Marking(p, k)'
      BY <1>5 DEF Marking
    <3>3. Marking(p, k) => ~(recs[k] # Absent /\ recs[k].sent)
      BY DeliveringOwner DEF Marking, At, PendingKeys
    <3>4. lostAcks'[k] = IF Marking(p, k) THEN lostAcks[k] + 1 ELSE lostAcks[k]
      BY <1>1 DEF Marking, Bump
    <3>5. copies[k] \in Nat /\ lostAcks[k] \in Nat /\ recs' = recs /\ copies' = copies
      BY <1>1, <1>2 DEF TypeOK
    <3>6. CASE Marking(p, k)
      BY <3>1, <3>2, <3>3, <3>4, <3>5, <3>6
    <3>7. CASE ~Marking(p, k)
      BY <3>1, <3>2, <3>4, <3>5, <3>7
    <3> QED
      BY <3>6, <3>7
  <2>3. ASSUME NEW k \in Keys
        PROVE  /\ recs'[k] # Absent => recs'[k].queueOrder > 0
               /\ recs'[k] # Absent /\ recs'[k].sent => recs'[k].sentAt = lastMarked'[k]
               /\ Outlasts(clock, k)'
    BY <1>1 DEF IInv, RecordsInOrder, Outlasts, Unsettled
  <2> QED
    BY <1>1, <1>2, <1>3, <1>4, <1>7, <2>1, <2>2, <2>3, OwnerStep DEF TypeOK, Decodable
<1> QED
  BY <1>6, <1>7

\* Time passes.
LEMMA TickStep ==
    ASSUME IInv, Tick
    PROVE  IInv'
<1>1. /\ clock < MaxTime /\ clock' = clock + 1
      /\ UNCHANGED <<recs, sequence, owner, job, faults, copies, lostAcks, lastMarked, bare>>
  BY DEF Tick, store, history
<1>2. TypeOK /\ MaxTime \in Nat /\ clock \in Nat /\ clock >= 1 /\ clock' \in 1..MaxTime
      /\ Retention \in Nat /\ lastMarked \in [Keys -> Nat]
  BY <1>1, CycleAssumption DEF IInv, TypeOK
<1>3. TypeOK'
  BY <1>1, <1>2 DEF TypeOK
<1>4. \A k \in Keys, t \in Nat : Outlasts(t, k)' <=> Outlasts(t, k)
  BY <1>1 DEF Outlasts, Unsettled
<1>5. RecordsInOrder'
  <2>1. ASSUME NEW k \in Keys PROVE Outlasts(clock, k)'
    <3>1. Outlasts(clock, k) /\ lastMarked[k] + Retention \in Nat
      BY <1>2 DEF IInv, RecordsInOrder
    <3>2. clock > lastMarked[k] + Retention => clock' > lastMarked[k] + Retention
      BY <1>1, <1>2, <3>1
    <3> QED
      BY <1>1, <3>1, <3>2 DEF Outlasts, Unsettled
  <2> QED
    BY <1>1, <2>1 DEF IInv, RecordsInOrder
<1>6. ASSUME NEW p \in Processes PROVE JobInv(p)'
  <2>1. /\ Resting(p)' <=> Resting(p)
        /\ SoundsAndButtons(p)' <=> SoundsAndButtons(p)
        /\ Undelivered(p)' <=> Undelivered(p)
        /\ Room(p)' <=> Room(p)
        /\ Delivering(p)' <=> Delivering(p)
    BY <1>1 DEF Resting, SoundsAndButtons, Told, IsLast, Undelivered, PendingKeys, Stored, Room,
                Delivering
  <2>2. job[p].cycleTime \in 1..clock => job[p].cycleTime \in 1..clock'
    BY <1>1, <1>2
  <2>3. JobInv(p)
    BY DEF IInv
  <2> QED
    BY <1>1, <2>1, <2>2, <2>3 DEF JobInv, At, Outlasts, Unsettled
<1>7. CopiesAreAccountedFor'
  BY <1>1 DEF IInv, CopiesAreAccountedFor, At, InChunk
<1> QED
  BY <1>3, <1>5, <1>6, <1>7 DEF IInv

-----------------------------------------------------------------------------
(* The invariant                                                           *)

\* The cycle starts from an empty file without processes.
LEMMA Initially == Init => IInv
<1> SUFFICES ASSUME Init PROVE IInv
  OBVIOUS
<1>1. /\ recs = [k \in Keys |-> Absent] /\ sequence = 0 /\ owner = Nobody
      /\ job = [p \in Processes |-> NoJob] /\ clock = 1 /\ faults = 0
      /\ copies = [k \in Keys |-> 0] /\ lostAcks = [k \in Keys |-> 0]
      /\ lastMarked = [k \in Keys |-> 0] /\ bare = FALSE
  BY DEF Init
<1>2. TypeOK
  <2>1. recs \in [Keys -> Record \cup {Absent}]
    BY <1>1
  <2>2. 0 \in 0..MaxSequence /\ 0 \in 0..MaxFaults /\ 0 \in 0..MaxTime /\ 1 \in 1..MaxTime
    BY CycleAssumption
  <2>3. job \in [Processes -> Job]
    BY <1>1, NoJobIsJob
  <2>4. copies \in [Keys -> Nat] /\ lostAcks \in [Keys -> Nat] /\ lastMarked \in [Keys -> 0..MaxTime]
    BY <1>1, <2>2
  <2> QED
    BY <1>1, <2>1, <2>2, <2>3, <2>4 DEF TypeOK
<1>3. RecordsInOrder
  BY <1>1 DEF RecordsInOrder, Outlasts
<1>4. ASSUME NEW p \in Processes PROVE JobInv(p)
  <2>1. job[p] = NoJob /\ owner # p
    BY <1>1, CycleAssumption
  <2> QED
    BY <2>1 DEF JobInv, Resting, At, Delivering, SoundsAndButtons, NoJob
<1>5. CopiesAreAccountedFor
  <2>1. \A p \in Processes : ~At(p, "marking")
    BY <1>1 DEF At, NoJob
  <2> QED
    BY <1>1, <2>1 DEF CopiesAreAccountedFor
<1> QED
  BY <1>2, <1>3, <1>4, <1>5 DEF IInv

\* Nothing happens.
LEMMA StutterStep ==
    ASSUME IInv, UNCHANGED vars
    PROVE  IInv'
<1>1. UNCHANGED <<recs, sequence, owner, job, clock, faults, copies, lostAcks, lastMarked, bare>>
  BY DEF vars, history
<1>2. TypeOK'
  BY <1>1 DEF IInv, TypeOK
<1>3. RecordsInOrder'
  BY <1>1 DEF IInv, RecordsInOrder, Outlasts, Unsettled
<1>4. ASSUME NEW p \in Processes PROVE JobInv(p)'
  <2>1. /\ Resting(p)' <=> Resting(p)
        /\ SoundsAndButtons(p)' <=> SoundsAndButtons(p)
        /\ Undelivered(p)' <=> Undelivered(p)
        /\ Room(p)' <=> Room(p)
        /\ Delivering(p)' <=> Delivering(p)
    BY <1>1 DEF Resting, SoundsAndButtons, Told, IsLast, Undelivered, PendingKeys, Stored, Room,
                Delivering
  <2> QED
    BY <1>1, <2>1 DEF IInv, JobInv, At, Outlasts, Unsettled
<1>5. CopiesAreAccountedFor'
  BY <1>1 DEF IInv, CopiesAreAccountedFor, At, InChunk
<1> QED
  BY <1>2, <1>3, <1>4, <1>5 DEF IInv

\* Every step of every process preserves the invariant.
LEMMA NextStep ==
    ASSUME IInv, [Next]_vars
    PROVE  IInv'
<1>1. ASSUME NEW p \in Processes, NEW kind \in Kinds, Start(p, kind) PROVE IInv'
  BY <1>1, StartStep
<1>2. ASSUME NEW p \in Processes, Open(p) PROVE IInv'
  BY <1>2, OpenStep
<1>3. ASSUME NEW p \in Processes, Send(p) PROVE IInv'
  BY <1>3, SendStep
<1>4. ASSUME NEW p \in Processes, Proceed(p) PROVE IInv'
  <2>1. CASE OpenTimesOut(p) \/ Close(p)
    BY <2>1, EndStep
  <2>2. CASE Forget(p)
    BY <2>2, ForgetStep
  <2>3. CASE Prune(p)
    BY <2>3, PruneStep
  <2>4. CASE Fetch(p)
    BY <2>4, FetchStep
  <2>5. CASE Discover(p)
    BY <2>5, DiscoverStep
  <2>6. CASE Load(p)
    BY <2>6, LoadStep
  <2>7. CASE RemoveButton(p)
    BY <2>7, RemoveStep
  <2>8. CASE RateLimited(p) \/ WaitOver(p)
    BY <2>8, TurnStep
  <2>9. CASE Mark(p)
    BY <2>9, MarkStep
  <2> QED
    BY <1>4, <2>1, <2>2, <2>3, <2>4, <2>5, <2>6, <2>7, <2>8, <2>9 DEF Proceed
<1>5. ASSUME NEW p \in Processes, SendFails(p) PROVE IInv'
  BY <1>5, SendFailsStep
<1>6. ASSUME NEW p \in Processes, RemoveFails(p) \/ StepFails(p) PROVE IInv'
  BY <1>6, TurnStep
<1>7. ASSUME NEW p \in Processes, MarkFails(p) PROVE IInv'
  BY <1>7, MarkFailsStep
<1>8. ASSUME NEW p \in Processes, Crash(p) PROVE IInv'
  BY <1>8, CrashStep
<1>9. CASE Tick
  BY <1>9, TickStep
<1>10. CASE UNCHANGED vars
  BY <1>10, StutterStep
<1> QED
  BY <1>1, <1>2, <1>3, <1>4, <1>5, <1>6, <1>7, <1>8, <1>9, <1>10 DEF Next

\* The invariant holds in every state of every behaviour.
THEOREM Invariant == Spec => []IInv
BY Initially, NextStep, PTL DEF Spec

\* Every variable keeps its type: in particular a record is decodable or absent,
\* the sequence and the clock stay in their bounds, and a digest's balance of
\* buttons stays between one fewer and one more.
THEOREM TypeCorrect == Spec => []TypeOK
<1>1. IInv => TypeOK
  BY DEF IInv
<1> QED
  BY Invariant, <1>1, PTL

\* Store.MarkSent never meets a missing record: from the moment Run reads the
\* pending list until the last message is marked, what is left of it stays
\* pending in the file, whatever the other processes do.
THEOREM NothingLeavesTheQueue == Spec => []UndeliveredStayPending
<1>1. IInv => UndeliveredStayPending
  BY DEF IInv, JobInv, Undelivered, UndeliveredStayPending
<1> QED
  BY Invariant, <1>1, PTL

\* The chat got each listing once for every acknowledgement that was lost and
\* once for its mark: Run delivers before it marks, and nothing else delivers.
THEOREM EveryCopyAccountedFor == Spec => []CopiesAreAccountedFor
<1>1. IInv => CopiesAreAccountedFor
  BY DEF IInv
<1> QED
  BY Invariant, <1>1, PTL

\* A digest that succeeds rang once and left one button, on its last message,
\* and a refresh gave back the one it was started from.
THEOREM OneSoundAndButton == Spec => []OneSoundOneButton
<1>1. IInv => OneSoundOneButton
  <2> SUFFICES ASSUME IInv, NEW p \in Processes
               PROVE  /\ job[p].pc = "finished" /\ job[p].kind # "forget" =>
                            /\ job[p].sounds = 1
                            /\ job[p].buttons = IF job[p].kind = "refresh" THEN 0 ELSE 1
                      /\ job[p].kind = "refresh" => job[p].buttons <= 0
    BY DEF OneSoundOneButton
  <2>1. SoundsAndButtons(p)
    BY DEF IInv, JobInv
  <2> QED
    BY <2>1 DEF SoundsAndButtons, Told
<1> QED
  BY Invariant, <1>1, PTL

-----------------------------------------------------------------------------
(* What one step may do                                                    *)

\* Telegram gets a listing only with the message a process is sending.
LEMMA CopiesGrow ==
    ASSUME IInv, [Next]_vars, NEW k \in Keys, copies'[k] > copies[k]
    PROVE  \E p \in Processes : At(p, "sending") /\ OthersStay(p) /\ k \in InChunk(p)
<1>1. copies \in [Keys -> Nat] /\ copies[k] \in Nat /\ copies' # copies
  BY DEF IInv, TypeOK
<1>2. \A S : ~(Clear(copies, S)[k] > copies[k])
  BY <1>1 DEF Clear
<1>3. ASSUME NEW p \in Processes, NEW taken \in BOOLEAN, Post(p, taken)
      PROVE  taken /\ k \in InChunk(p)
  BY <1>1, <1>3 DEF Post, Bump
<1>4. ASSUME NEW p \in Processes, Send(p) PROVE At(p, "sending") /\ OthersStay(p) /\ k \in InChunk(p)
  <2>1. At(p, "sending") /\ Post(p, TRUE) /\ OthersStay(p)
    BY <1>4, AnswersMean DEF Send, OthersStay, IInv, TypeOK
  <2> QED
    BY <1>3, <2>1
<1>5. ASSUME NEW p \in Processes, SendFails(p)
      PROVE  At(p, "sending") /\ OthersStay(p) /\ k \in InChunk(p)
  <2>1. PICK taken \in BOOLEAN : At(p, "sending") /\ Post(p, taken)
    BY <1>5, AnswersMean DEF SendFails
  <2>2. OthersStay(p)
    BY <1>5 DEF SendFails, OthersStay, IInv, TypeOK
  <2> QED
    BY <1>3, <2>1, <2>2
<1>6. ASSUME NEW p \in Processes, Proceed(p) PROVE FALSE
  <2>1. ~RateLimited(p)
    BY <1>3, AnswersMean DEF RateLimited
  <2>2. ~Prune(p) /\ ~Forget(p)
    BY <1>2 DEF Prune, Forget
  <2> QED
    BY <1>1, <1>6, <2>1, <2>2
       DEF Proceed, OpenTimesOut, Close, Fetch, Discover, Load, RemoveButton, WaitOver, Mark, history
<1>7. ASSUME NEW p \in Processes,
             \/ \E kind \in Kinds : Start(p, kind)
             \/ Open(p) \/ RemoveFails(p) \/ MarkFails(p) \/ StepFails(p) \/ Crash(p)
      PROVE  FALSE
  BY <1>1, <1>7 DEF Start, Open, RemoveFails, MarkFails, StepFails, Crash, history
<1>8. ~Tick /\ ~UNCHANGED vars
  BY <1>1 DEF Tick, vars, history
<1> QED
  BY <1>4, <1>5, <1>6, <1>7, <1>8 DEF Next

\* Prune forgets a delivered listing only when the retention time is over, so
\* that none is posted again by a digest that began within it.
THEOREM NotRepeatedWhileRetained == Spec => NoRepeatWithinRetention
<1> DEFINE Late ==
      \A k \in Keys, p \in Processes :
          /\ copies'[k] > copies[k] /\ job'[p] # job[p] /\ lastMarked[k] # 0
          => job[p].cycleTime > lastMarked[k] + Retention
<1>1. ASSUME IInv, [Next]_vars PROVE Late
  <2> SUFFICES ASSUME NEW k \in Keys, NEW q \in Processes,
                      copies'[k] > copies[k], job'[q] # job[q], lastMarked[k] # 0
               PROVE  job[q].cycleTime > lastMarked[k] + Retention
    OBVIOUS
  <2>1. PICK p \in Processes : At(p, "sending") /\ OthersStay(p) /\ k \in InChunk(p)
    BY <1>1, CopiesGrow
  <2>2. q = p
    BY <2>1 DEF OthersStay
  <2>3. Outlasts(job[p].cycleTime, k) /\ k \in PendingKeys(recs)
    BY <1>1, <2>1, DeliveringOwner DEF At
  <2> QED
    BY <2>2, <2>3 DEF Outlasts, Unsettled, PendingKeys
<1>2. IInv /\ [Next]_vars => [Late]_vars
  BY <1>1
<1> QED
  BY Invariant, <1>2, PTL DEF Spec, NoRepeatWithinRetention

-----------------------------------------------------------------------------
(* The outbox                                                              *)

\* What a step may do to the outbox: one of its steps, or nothing.
BoxStep == [Box!Next]_(Box!vars)

\* A step that leaves the records and the copies alone is none of the outbox's.
LEMMA BoxStutters ==
    ASSUME UNCHANGED <<recs, copies>>
    PROVE  BoxStep
BY DEF BoxStep, Box!vars, Status

\* A message is posted: copies of listings that are queued, and of no others.
LEMMA BoxPosts ==
    ASSUME IInv, NEW p \in Processes, At(p, "sending"), NEW taken \in BOOLEAN, Post(p, taken), recs' = recs
    PROVE  BoxStep
<1>1. CASE ~taken
  BY <1>1, BoxStutters DEF Post
<1>2. CASE taken
  <2>1. InChunk(p) \subseteq PendingKeys(recs) /\ copies' = Bump(copies, InChunk(p))
    BY <1>2, DeliveringOwner DEF At, Post
  <2>2. InChunk(p) \in SUBSET Keys
    BY <2>1 DEF PendingKeys, Stored
  <2>3. \A k \in InChunk(p) : [h \in Keys |-> Status(h)][k] = "queued"
    BY <2>1, <2>2 DEF PendingKeys, Stored, Status
  <2>4. [h \in Keys |-> Status(h)]' = [h \in Keys |-> Status(h)]
    BY DEF Status
  <2>5. Box!Post(InChunk(p))
    BY <2>1, <2>3, <2>4 DEF Box!Post, Bump
  <2> QED
    BY <2>2, <2>5 DEF BoxStep, Box!Next
<1> QED
  BY <1>1, <1>2

\* Recording queues the listings that are new.
LEMMA BoxQueues ==
    ASSUME IInv, NEW p \in Processes, Discover(p)
    PROVE  BoxStep
<1>1. PICK books \in BookLists :
         recs' = DiscoverAll(recs, sequence, books, job[p].cycleTime) /\ copies' = copies
  BY DEF Discover, history
<1>2. recs \in [Keys -> Decodable] /\ sequence \in Nat /\ job[p].cycleTime \in Nat
  BY JobFields DEF IInv, TypeOK, Decodable
<1>3. ASSUME NEW k \in Keys
      PROVE  /\ recs[k] # Absent => recs'[k] # Absent /\ recs'[k].sent = recs[k].sent
             /\ recs[k] = Absent => recs'[k] = Absent \/ (recs'[k] # Absent /\ ~recs'[k].sent)
  BY <1>1, <1>2, DiscoverAllRecords, ZenonT(60)
<1> DEFINE S == { k \in Keys : recs[k] = Absent /\ recs'[k] # Absent }
<1>4. Box!Queue(S)
  <2>1. \A k \in S : [h \in Keys |-> Status(h)][k] = "unknown"
    BY DEF Status
  <2>2. \A k \in Keys : Status(k)' = IF k \in S THEN "queued" ELSE Status(k)
    BY <1>3 DEF Status
  <2> HIDE DEF S
  <2>3. [h \in Keys |-> Status(h)]' = [k \in Keys |-> IF k \in S THEN "queued" ELSE [h \in Keys |-> Status(h)][k]]
    BY <2>2
  <2> QED
    BY <1>1, <2>1, <2>3 DEF Box!Queue, Box!Become
<1>5. S \in SUBSET Keys
  OBVIOUS
<1> HIDE DEF S
<1> QED
  BY <1>4, <1>5 DEF BoxStep, Box!Next

\* Marking settles the listings of the message.
LEMMA BoxSettles ==
    ASSUME IInv, NEW p \in Processes, Mark(p)
    PROVE  BoxStep
<1>1. /\ At(p, "marking") /\ copies' = copies
      /\ recs' = MarkAllSent(recs, InChunk(p), job[p].cycleTime)
  BY DEF Mark
<1>2. owner = p /\ TypeOK /\ InChunk(p) \subseteq PendingKeys(recs)
  BY <1>1, DeliveringOwner DEF At
<1>3. recs \in [Keys -> Decodable] /\ job[p].cycleTime \in Nat
  BY <1>2, JobFields DEF TypeOK, Decodable
<1>4. InChunk(p) \in SUBSET Keys
  BY <1>2 DEF PendingKeys, Stored
<1>5. ASSUME NEW k \in Keys
      PROVE  /\ k \notin InChunk(p) => recs'[k] = recs[k]
             /\ k \in InChunk(p) => recs[k] # Absent /\ ~recs[k].sent /\ recs'[k] # Absent /\ recs'[k].sent
  <2>1. k \in InChunk(p) => recs[k] # Absent /\ ~recs[k].sent
    BY <1>2 DEF PendingKeys, Stored
  <2> QED
    BY <1>1, <1>3, <2>1, MarkAllSentRecords
<1>6. ASSUME NEW k \in InChunk(p) PROVE copies[k] > 0
  <2>1. k \in Keys /\ Marking(p, k)
    BY <1>1, <1>4 DEF Marking
  <2>2. copies[k] = lostAcks[k] + 1 /\ lostAcks[k] \in Nat
    BY <1>2, <2>1, OwnerAccounted DEF TypeOK
  <2> QED
    BY <2>2
<1>7. \A k \in InChunk(p) : [h \in Keys |-> Status(h)][k] = "queued"
  BY <1>4, <1>5 DEF Status
<1>8. \A k \in Keys : Status(k)' = IF k \in InChunk(p) THEN "settled" ELSE Status(k)
  BY <1>5 DEF Status
<1>9. [h \in Keys |-> Status(h)]'
        = [k \in Keys |-> IF k \in InChunk(p) THEN "settled" ELSE [h \in Keys |-> Status(h)][k]]
  BY <1>8
<1>10. Box!Settle(InChunk(p))
  BY <1>1, <1>6, <1>7, <1>9 DEF Box!Settle, Box!Become
<1> QED
  BY <1>4, <1>10 DEF BoxStep, Box!Next

\* Prune and DeleteLatest forget listings, with their copies.
LEMMA BoxForgets ==
    ASSUME NEW p \in Processes, NEW S \in SUBSET Keys,
           At(p, "forgetting") \/ \A k \in S : recs[k] # Absent /\ recs[k].sent,
           \A k \in Keys : recs'[k] = IF k \in S THEN Absent ELSE recs[k],
           copies' = Clear(copies, S)
    PROVE  BoxStep
<1>1. \A k \in Keys : Status(k)' = IF k \in S THEN "unknown" ELSE Status(k)
  BY DEF Status
<1>2. [h \in Keys |-> Status(h)]'
        = [k \in Keys |-> IF k \in S THEN "unknown" ELSE [h \in Keys |-> Status(h)][k]]
  BY <1>1
<1>3. (\E q \in Processes : At(q, "forgetting")) \/ \A k \in S : [h \in Keys |-> Status(h)][k] = "settled"
  BY DEF Status
<1>4. Box!Forget(S)
  BY <1>2, <1>3 DEF Box!Forget, Box!Become, Clear
<1> QED
  BY <1>4 DEF BoxStep, Box!Next

\* Every step of the cycle is a step of the outbox or none.
LEMMA StepImplementsOutbox ==
    ASSUME IInv, [Next]_vars
    PROVE  BoxStep
<1>1. ASSUME NEW p \in Processes, Send(p) PROVE BoxStep
  <2>1. At(p, "sending") /\ Post(p, TRUE) /\ recs' = recs
    BY <1>1, AnswersMean DEF Send, store
  <2> QED
    BY <2>1, BoxPosts
<1>2. ASSUME NEW p \in Processes, SendFails(p) PROVE BoxStep
  <2>1. PICK taken \in BOOLEAN : At(p, "sending") /\ Post(p, taken)
    BY <1>2, AnswersMean DEF SendFails
  <2>2. recs' = recs
    BY <1>2 DEF SendFails, store
  <2> QED
    BY <2>1, <2>2, BoxPosts
<1>3. ASSUME NEW p \in Processes, RateLimited(p) PROVE BoxStep
  <2>1. At(p, "sending") /\ Post(p, FALSE) /\ recs' = recs
    BY <1>3, AnswersMean DEF RateLimited, store
  <2> QED
    BY <2>1, BoxPosts
<1>4. ASSUME NEW p \in Processes, Prune(p) PROVE BoxStep
  <2> DEFINE gone == Stored(recs) \ Stored(recs')
  <2>1. /\ recs' = PruneAll(recs, job[p].cycleTime, Retention)
        /\ copies' = Clear(copies, gone)
    BY <1>4 DEF Prune
  <2>2. /\ recs \in [Keys -> Decodable] /\ job[p].cycleTime \in Nat /\ Retention \in Nat
    BY JobFields, CycleAssumption DEF IInv, TypeOK, Decodable
  <2>3. ASSUME NEW k \in Keys
        PROVE  recs'[k] = recs[k] \/ (recs'[k] = Absent /\ recs[k] # Absent /\ recs[k].sent)
    BY <2>1, <2>2, PruneAllRecords
  <2>4. /\ gone \in SUBSET Keys
        /\ \A k \in gone : recs[k] # Absent /\ recs[k].sent
        /\ \A k \in Keys : recs'[k] = IF k \in gone THEN Absent ELSE recs[k]
    BY <2>3 DEF Stored
  <2> HIDE DEF gone
  <2> QED
    BY <2>1, <2>4, BoxForgets
<1>5. ASSUME NEW p \in Processes, Forget(p) PROVE BoxStep
  <2>1. PICK gone \in SUBSET Keys : recs' = DeleteAll(recs, gone) /\ copies' = Clear(copies, gone)
    BY <1>5 DEF Forget, Latest, Stored
  <2>2. At(p, "forgetting") /\ \A k \in Keys : recs'[k] = IF k \in gone THEN Absent ELSE recs[k]
    BY <1>5, <2>1 DEF Forget, DeleteAll
  <2> QED
    BY <2>1, <2>2, BoxForgets
<1>6. ASSUME NEW p \in Processes,
             \/ \E kind \in Kinds : Start(p, kind)
             \/ Open(p) \/ RemoveFails(p) \/ MarkFails(p) \/ StepFails(p) \/ Crash(p)
      PROVE  BoxStep
  <2>1. UNCHANGED <<recs, copies>>
    BY <1>6 DEF Start, Open, RemoveFails, MarkFails, StepFails, Crash, history, store
  <2> QED
    BY <2>1, BoxStutters
<1>7. ASSUME NEW p \in Processes,
             \/ OpenTimesOut(p) \/ Close(p) \/ Fetch(p) \/ Load(p) \/ RemoveButton(p) \/ WaitOver(p)
      PROVE  BoxStep
  <2>1. UNCHANGED <<recs, copies>>
    BY <1>7 DEF OpenTimesOut, Close, Fetch, Load, RemoveButton, WaitOver, history, store
  <2> QED
    BY <2>1, BoxStutters
<1>8. ASSUME NEW p \in Processes, Proceed(p) PROVE BoxStep
  BY <1>3, <1>4, <1>5, <1>7, <1>8, BoxQueues, BoxSettles DEF Proceed
<1>9. CASE Tick \/ UNCHANGED vars
  <2>1. UNCHANGED <<recs, copies>>
    BY <1>9 DEF Tick, vars, history, store
  <2> QED
    BY <2>1, BoxStutters
<1> QED
  BY <1>1, <1>2, <1>6, <1>8, <1>9 DEF Next

\* The digest is an at-least-once outbox: a listing is posted while it is
\* queued, settled only after it was posted, and forgotten only once it is
\* settled or when the operator asks for it.
THEOREM OutboxImplemented == Spec => ImplementsOutbox
<1>1. Init => Box!Init
  BY DEF Init, Box!Init, Status
<1>2. IInv /\ [Next]_vars => [Box!Next]_(Box!vars)
  BY StepImplementsOutbox DEF BoxStep
<1> QED
  BY Invariant, <1>1, <1>2, PTL DEF Spec, ImplementsOutbox, Box!Spec
=============================================================================
