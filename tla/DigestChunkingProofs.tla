------------------------ MODULE DigestChunkingProofs ------------------------
(***************************************************************************)
(* Theorems about DigestChunking, for every list of listings and all       *)
(* limits: what RenderSendable returns fits Telegram's limits, carries     *)
(* every listing that can be sent once and in order, and could not have    *)
(* been fewer messages.                                                    *)
(***************************************************************************)
EXTENDS DigestChunking, FiniteSetTheorems, SequenceTheorems, WellFoundedInduction, TLAPS

\* A set of natural numbers has a least element: what an induction over the
\* naturals is replaced with in these proofs.
LEMMA Least ==
    ASSUME NEW S, S \subseteq Nat, S # {}
    PROVE  \E m \in S : \A n \in S : m <= n
<1> DEFINE Less == OpToRel(<, Nat)
<1>1. IsWellFoundedOn(Less, Nat)
  BY NatLessThanWellFounded
<1> HIDE DEF Less
<1>2. PICK m \in S : \A n \in S : ~(<<n, m>> \in Less)
  BY <1>1, WFMin
<1>3. ASSUME NEW n \in S, n < m PROVE FALSE
  <2>1. <<n, m>> \in Nat \X Nat /\ <<n, m>>[1] < <<n, m>>[2]
    BY <1>3
  <2> QED
    BY <1>2, <2>1 DEF OpToRel, Less
<1> QED
  BY <1>3

-----------------------------------------------------------------------------
(* The listings that fit, in order                                         *)

\* How many of them precede the place n: none at first, and one more after
\* each.
LEMMA RankGrows ==
    ASSUME NEW len \in Nat, NEW S \in SUBSET (1..len)
    PROVE  /\ \A n \in 1..len + 1 : Rank(S, n) \in Nat /\ Rank(S, n) <= Cardinality(S)
           /\ Rank(S, 1) = 0 /\ Rank(S, len + 1) = Cardinality(S)
           /\ \A n \in 1..len : Rank(S, n + 1) = IF n \in S THEN Rank(S, n) + 1 ELSE Rank(S, n)
<1> DEFINE Below(n) == { m \in S : m < n }
<1>0. \A m \in S : m \in Int /\ 1 <= m /\ m <= len
  OBVIOUS
<1>1. IsFiniteSet(S) /\ Cardinality(S) \in Nat
  <2>1. IsFiniteSet(1..len)
    BY FS_Interval
  <2> QED
    BY <2>1, FS_Subset, FS_CardinalityType
<1>2. \A n \in Nat : IsFiniteSet(Below(n)) /\ Cardinality(Below(n)) \in Nat /\ Cardinality(Below(n)) <= Cardinality(S)
  <2> TAKE n \in Nat
  <2>1. Below(n) \subseteq S
    OBVIOUS
  <2> HIDE DEF Below
  <2> QED
    BY <1>1, <2>1, FS_Subset, FS_CardinalityType
<1>3. Cardinality(Below(1)) = 0
  <2>1. \A m \in S : ~(m < 1)
    BY <1>0
  <2>2. Below(1) = {}
    BY <2>1
  <2> QED
    BY <2>2, FS_EmptySet
<1>4. Below(len + 1) = S
  <2>1. \A m \in S : m < len + 1
    BY <1>0
  <2> QED
    BY <2>1
<1>5. ASSUME NEW n \in 1..len
      PROVE  Cardinality(Below(n + 1)) = IF n \in S THEN Cardinality(Below(n)) + 1 ELSE Cardinality(Below(n))
  <2>1. CASE n \in S
    <3>0. \A m \in S : m < n + 1 <=> m < n \/ m = n
      BY <1>0
    <3>1. Below(n + 1) = Below(n) \cup {n}
      BY <2>1, <3>0
    <3>3. ~(n < n)
      OBVIOUS
    <3>4. n \notin Below(n)
      BY <3>3
    <3>2. IsFiniteSet(Below(n))
      BY <1>2
    <3> HIDE DEF Below
    <3> QED
      BY <2>1, <3>1, <3>2, <3>4, FS_AddElement
  <2>2. CASE n \notin S
    <3>0. \A m \in S : m < n + 1 <=> m < n
      BY <1>0, <2>2
    <3>1. Below(n + 1) = Below(n)
      BY <3>0
    <3> QED
      BY <2>2, <3>1
  <2> QED
    BY <2>1, <2>2
<1>6. \A n : Rank(S, n) = Cardinality(Below(n))
  BY DEF Rank
<1> HIDE DEF Below
<1> QED
  BY <1>2, <1>3, <1>4, <1>5, <1>6

\* Ranks never fall.
LEMMA RankIsMonotonic ==
    ASSUME NEW len \in Nat, NEW S \in SUBSET (1..len)
    PROVE  \A m, n \in 1..len + 1 : m <= n => Rank(S, m) <= Rank(S, n)
<1> SUFFICES ASSUME NEW m \in 1..len + 1, NEW n \in 1..len + 1, m <= n PROVE Rank(S, m) <= Rank(S, n)
  OBVIOUS
<1> DEFINE Bad == { k \in m..len + 1 : ~(Rank(S, m) <= Rank(S, k)) }
<1>1. Rank(S, m) \in Nat
  BY RankGrows
<1>2. ASSUME Bad # {} PROVE FALSE
  <2>1. PICK k \in Bad : \A j \in Bad : k <= j
    <3>1. Bad \subseteq Nat
      OBVIOUS
    <3> HIDE DEF Bad
    <3> QED
      BY <1>2, <3>1, Least
  <2>2. k > m /\ k - 1 \in m..len + 1 /\ k - 1 \in 1..len
    BY <1>1, <2>1
  <2>3. k - 1 \notin Bad
    BY <2>1, <2>2
  <2>4. Rank(S, m) <= Rank(S, k - 1)
    BY <2>2, <2>3
  <2>5. PICK j : j = k - 1
    OBVIOUS
  <2>6. j \in 1..len /\ k = j + 1
    BY <2>1, <2>2, <2>5
  <2>7. Rank(S, k) >= Rank(S, j) /\ Rank(S, k) \in Nat /\ Rank(S, j) \in Nat
    BY <2>6, RankGrows
  <2> QED
    BY <1>1, <2>1, <2>4, <2>5, <2>7
<1> QED
  BY <1>2

\* The enumeration of S has its elements in order, the one at n in the place
\* its rank says.
LEMMA EnumeratedInOrder ==
    ASSUME NEW len \in Nat, NEW S \in SUBSET (1..len)
    PROVE  /\ Cardinality(S) \in Nat /\ Enumerated(S) \in Seq(S) /\ Len(Enumerated(S)) = Cardinality(S)
           /\ \A n \in S : Rank(S, n) + 1 \in 1..Cardinality(S) /\ Enumerated(S)[Rank(S, n) + 1] = n
           /\ \A k \in 1..Cardinality(S) : Enumerated(S)[k] \in S
<1>1. Cardinality(S) \in Nat
  BY RankGrows
<1>2. ASSUME NEW k \in 1..Cardinality(S) PROVE \E n \in S : Rank(S, n) = k - 1
  <2> DEFINE Past == { n \in 1..len + 1 : Rank(S, n) >= k }
  <2>1. len + 1 \in Past
    BY RankGrows
  <2>2. PICK n \in Past : \A m \in Past : n <= m
    <3>1. Past \subseteq Nat
      OBVIOUS
    <3> HIDE DEF Past
    <3> QED
      BY <2>1, <3>1, Least
  <2>3. n # 1
    BY <2>2, RankGrows
  <2>4. PICK m : m = n - 1
    OBVIOUS
  <2>5. m \in 1..len /\ n = m + 1 /\ m \notin Past
    BY <2>2, <2>3, <2>4
  <2>6. Rank(S, m) \in Nat /\ Rank(S, n) = IF m \in S THEN Rank(S, m) + 1 ELSE Rank(S, m)
    BY <2>5, RankGrows
  <2>7. Rank(S, n) >= k /\ ~(Rank(S, m) >= k)
    BY <2>2, <2>5
  <2> HIDE DEF Past
  <2>8. m \in S /\ Rank(S, m) = k - 1
    BY <1>1, <2>6, <2>7
  <2> QED
    BY <2>8
<1>3. ASSUME NEW m \in S, NEW n \in S, Rank(S, m) = Rank(S, n) PROVE m = n
  <2>1. ASSUME NEW a \in S, NEW b \in S, a < b PROVE Rank(S, a) < Rank(S, b)
    <3>1. PICK c : c = a + 1
      OBVIOUS
    <3>2. c \in 1..len + 1 /\ a \in 1..len /\ b \in 1..len + 1 /\ c <= b
      BY <2>1, <3>1
    <3>3. Rank(S, c) = Rank(S, a) + 1 /\ Rank(S, a) \in Nat /\ Rank(S, b) \in Nat
      BY <3>1, <3>2, RankGrows, SMTT(30)
    <3>4. Rank(S, c) <= Rank(S, b)
      BY <3>2, RankIsMonotonic
    <3> QED
      BY <3>3, <3>4
  <2>2. m \in 1..len + 1 /\ m \in Nat /\ n \in Nat
    OBVIOUS
  <2>5. Rank(S, m) \in Nat
    BY <2>2, RankGrows
  <2>3. ~(m < n)
    BY <1>3, <2>1, <2>5
  <2>4. ~(n < m)
    BY <1>3, <2>1, <2>5
  <2> QED
    BY <2>2, <2>3, <2>4
<1>4. \A k \in 1..Cardinality(S) : Enumerated(S)[k] \in S /\ Rank(S, Enumerated(S)[k]) = k - 1
  <2> TAKE k \in 1..Cardinality(S)
  <2>1. PICK e : e = CHOOSE n \in S : Rank(S, n) = k - 1
    OBVIOUS
  <2>2. e \in S /\ Rank(S, e) = k - 1
    BY <1>2, <2>1
  <2>3. Enumerated(S)[k] = e
    BY Zenon, <2>1 DEF Enumerated
  <2> QED
    BY <2>2, <2>3
<1>5. Enumerated(S) \in Seq(S) /\ Len(Enumerated(S)) = Cardinality(S)
  <2> DEFINE at(k) == CHOOSE n \in S : Rank(S, n) = k - 1
  <2>1. \A k \in 1..Cardinality(S) : at(k) \in S
    BY <1>2
  <2>2. Enumerated(S) = [k \in 1..Cardinality(S) |-> at(k)]
    BY DEF Enumerated
  <2> HIDE DEF at
  <2>3. Enumerated(S) \in [1..Cardinality(S) -> S]
    BY <2>1, <2>2
  <2> QED
    BY <1>1, <2>3, LenProperties, SeqDef
<1>6. \A n \in S : Rank(S, n) + 1 \in 1..Cardinality(S) /\ Enumerated(S)[Rank(S, n) + 1] = n
  <2> TAKE n \in S
  <2>1. n \in 1..len
    OBVIOUS
  <2>2. PICK m : m = n + 1
    OBVIOUS
  <2>3. m \in 1..len + 1
    BY <2>1, <2>2
  <2>4. Rank(S, m) = Rank(S, n) + 1 /\ Rank(S, m) <= Cardinality(S) /\ Rank(S, n) \in Nat
    BY <2>1, <2>2, <2>3, RankGrows
  <2>5. PICK k : k = Rank(S, n) + 1
    OBVIOUS
  <2>6. k \in 1..Cardinality(S) /\ Rank(S, n) = k - 1
    BY <1>1, <2>4, <2>5
  <2>7. Enumerated(S)[k] = n
    BY <1>3, <1>4, <2>6
  <2> QED
    BY <2>5, <2>6, <2>7
<1> QED
  BY <1>1, <1>4, <1>5, <1>6

-----------------------------------------------------------------------------
(* What a list of listings takes                                           *)

\* A table of the sums of the first listings of a list.
IsTable(f, texts, books, len) ==
    f = [n \in 0..len |-> IF n = 0 THEN Nothing
                          ELSE f[n-1] ++ If(n > 1, Separator) ++ texts[books[n]]]

\* Every list has one.
LEMMA TableExists ==
    ASSUME NEW texts, NEW books, NEW len \in Nat
    PROVE  \E f : IsTable(f, texts, books, len)
<1> DEFINE Bad == { n \in Nat : ~ \E f : IsTable(f, texts, books, n) }
<1>1. ASSUME Bad # {} PROVE FALSE
  <2>1. PICK n \in Bad : \A m \in Bad : n <= m
    <3>1. Bad \subseteq Nat
      OBVIOUS
    <3> HIDE DEF Bad
    <3> QED
      BY <1>1, <3>1, Least
  <2>2. CASE n = 0
    <3> DEFINE f == [m \in 0..0 |-> Nothing]
    <3> SUFFICES IsTable(f, texts, books, 0)
      BY <2>1, <2>2
    <3> QED
      BY DEF IsTable
  <2>3. CASE n # 0
    <3>1. n - 1 \in Nat /\ n - 1 \notin Bad
      BY <2>1, <2>3
    <3>2. PICK f : IsTable(f, texts, books, n - 1)
      BY <3>1
    <3> DEFINE entry(m) == f[m-1] ++ If(m > 1, Separator) ++ texts[books[m]]
               g == [m \in 0..n |-> IF m = n THEN entry(n) ELSE f[m]]
    <3>3. \A m \in 0..n - 1 : f[m] = IF m = 0 THEN Nothing ELSE entry(m)
      BY <3>2 DEF IsTable
    <3>4. \A m \in 0..n : g[m] = IF m = 0 THEN Nothing
                                 ELSE g[m-1] ++ If(m > 1, Separator) ++ texts[books[m]]
      <4> TAKE m \in 0..n
      <4>1. CASE m = 0
        <5>1. m # n /\ m \in 0..n - 1
          BY <2>1, <2>3, <4>1
        <5> QED
          BY <3>3, <4>1, <5>1
      <4>2. CASE m # 0
        <5>1. m - 1 \in 0..n /\ m - 1 # n /\ m - 1 \in 0..n - 1
          BY <2>1, <4>2
        <5>2. g[m-1] = f[m-1]
          BY <5>1
        <5>3. g[m] = entry(m)
          BY <3>3, <4>2, <2>1
        <5> QED
          BY <4>2, <5>2, <5>3
      <4> QED
        BY <4>1, <4>2
    <3>5. IsTable(g, texts, books, n)
      <4>1. g = [m \in 0..n |-> g[m]]
        OBVIOUS
      <4> HIDE DEF g
      <4> QED
        BY <3>4, <4>1 DEF IsTable
    <3> QED
      BY <2>1, <3>5
  <2> QED
    BY <2>2, <2>3
<1> QED
  BY <1>1

\* What a list takes is the last entry of its table.
LEMMA TotalUnfolds ==
    ASSUME NEW texts, NEW books, Len(books) \in Nat
    PROVE  \E f : IsTable(f, texts, books, Len(books)) /\ Total(texts, books) = f[Len(books)]
<1> DEFINE t == CHOOSE f : IsTable(f, texts, books, Len(books))
<1>1. IsTable(t, texts, books, Len(books))
  BY TableExists
<1>2. Total(texts, books) = t[Len(books)]
  BY DEF Total, IsTable
<1> QED
  BY <1>1, <1>2

\* Two lists with a common beginning have a common beginning of their tables.
LEMMA TablesAgree ==
    ASSUME NEW texts, NEW a, NEW b, NEW m \in Nat, NEW n \in Nat, m <= n,
           NEW f, IsTable(f, texts, a, m), NEW g, IsTable(g, texts, b, n),
           \A i \in 1..m : a[i] = b[i]
    PROVE  f[m] = g[m]
<1> DEFINE Bad == { i \in 0..m : f[i] # g[i] }
<1>1. ASSUME Bad # {} PROVE FALSE
  <2>1. PICK i \in Bad : \A j \in Bad : i <= j
    <3>1. Bad \subseteq Nat
      OBVIOUS
    <3> HIDE DEF Bad
    <3> QED
      BY <1>1, <3>1, Least
  <2>2. /\ f[i] = IF i = 0 THEN Nothing ELSE f[i-1] ++ If(i > 1, Separator) ++ texts[a[i]]
        /\ g[i] = IF i = 0 THEN Nothing ELSE g[i-1] ++ If(i > 1, Separator) ++ texts[b[i]]
    BY <2>1 DEF IsTable
  <2>3. i # 0
    BY <2>1, <2>2
  <2>4. i - 1 \in 0..m /\ i - 1 \notin Bad /\ i \in 1..m
    BY <2>1, <2>3
  <2> QED
    BY <2>1, <2>2, <2>3, <2>4
<1> QED
  BY <1>1

\* An empty list takes nothing, and a list grows by the listing that joins it
\* and the rule before that, unless it is the first.
LEMMA TotalGrows ==
    ASSUME NEW texts
    PROVE  /\ Total(texts, <<>>) = Nothing
           /\ \A books \in Seq(Nat), k \in Nat :
                 Total(texts, Append(books, k))
                     = Total(texts, books) ++ If(books # <<>>, Separator) ++ texts[k]
<1>1. Total(texts, <<>>) = Nothing
  <2>1. Len(<<>>) = 0
    OBVIOUS
  <2>2. PICK f : IsTable(f, texts, <<>>, 0) /\ Total(texts, <<>>) = f[0]
    BY <2>1, TotalUnfolds
  <2> QED
    BY <2>2 DEF IsTable
<1>2. ASSUME NEW books \in Seq(Nat), NEW k \in Nat
      PROVE  Total(texts, Append(books, k))
                 = Total(texts, books) ++ If(books # <<>>, Separator) ++ texts[k]
  <2>1. PICK more : more = Append(books, k)
    OBVIOUS
  <2>2. PICK n \in Nat : n = Len(books)
    BY LenProperties
  <2>3. /\ Len(more) = n + 1 /\ more[n + 1] = k /\ \A i \in 1..n : books[i] = more[i]
        /\ books # <<>> <=> n > 0
    BY <2>1, <2>2, AppendProperties, LenProperties
  <2>4. PICK f : IsTable(f, texts, books, n) /\ Total(texts, books) = f[n]
    BY <2>2, TotalUnfolds
  <2>5. PICK m : m = n + 1
    OBVIOUS
  <2>6. PICK g : IsTable(g, texts, more, m) /\ Total(texts, more) = g[m]
    BY <2>3, <2>5, TotalUnfolds
  <2>7. f[n] = g[n]
    BY <2>3, <2>4, <2>5, <2>6, TablesAgree
  <2>8. g[m] = g[n] ++ If(m > 1, Separator) ++ texts[more[m]]
    BY <2>5, <2>6 DEF IsTable
  <2>9. (m > 1) = (books # <<>>) /\ more[m] = k
    BY <2>3, <2>5
  <2> QED
    BY <2>1, <2>4, <2>6, <2>7, <2>8, <2>9
<1> QED
  BY <1>1, <1>2

\* One size is no larger than another.
NoLarger(a, b) == a.runes <= b.runes /\ a.bytes <= b.bytes

\* Sizes add up, and larger ones to larger ones.
LEMMA SizesAdd ==
    ASSUME NEW a \in Size, NEW b \in Size
    PROVE  /\ a ++ b \in Size /\ NoLarger(a, a) /\ NoLarger(a, a ++ b) /\ NoLarger(b, a ++ b)
           /\ \A c, d \in Size : NoLarger(a, c) /\ NoLarger(b, d) => NoLarger(a ++ b, c ++ d)
<1>1. ASSUME NEW x \in Size, NEW y \in Size
      PROVE  /\ x.runes \in Nat /\ x.bytes \in Nat /\ y.runes \in Nat /\ y.bytes \in Nat
             /\ x ++ y = [runes |-> x.runes + y.runes, bytes |-> x.bytes + y.bytes]
             /\ (x ++ y).runes = x.runes + y.runes /\ (x ++ y).bytes = x.bytes + y.bytes
  BY DEF Size, ++
<1>2. a ++ b \in Size
  BY <1>1 DEF Size
<1>3. NoLarger(a, a) /\ NoLarger(a, a ++ b) /\ NoLarger(b, a ++ b)
  BY <1>1 DEF NoLarger
<1>4. ASSUME NEW c \in Size, NEW d \in Size, NoLarger(a, c), NoLarger(b, d)
      PROVE  NoLarger(a ++ b, c ++ d)
  BY <1>1, <1>4 DEF NoLarger
<1> QED
  BY <1>2, <1>3, <1>4

\* What may be there or not.
LEMMA OptionalSize ==
    /\ Nothing \in Size
    /\ \A size \in Size, b \in BOOLEAN : If(b, size) \in Size
    /\ \A size \in Size, b, c \in BOOLEAN : (b => c) => NoLarger(If(b, size), If(c, size))
    /\ \A size \in Size : NoLarger(Nothing, size)
BY DEF Nothing, If, Size, NoLarger

\* An order it is.
LEMMA NoLargerIsTransitive ==
    ASSUME NEW a \in Size, NEW b \in Size, NEW c \in Size, NoLarger(a, b), NoLarger(b, c)
    PROVE  NoLarger(a, c)
BY DEF NoLarger, Size

\* The listings of s after the a-th and up to the b-th.
Part(s, a, b) == SubSeq(s, a + 1, b)

\* A list, with one more listing.
Joined(books, k, more) == more = Append(books, k)

\* A part is a list of that length, and grows by the listing that follows it.
LEMMA PartsOf ==
    ASSUME NEW s \in Seq(Nat), NEW a \in Nat, NEW b \in Nat, a <= b, b <= Len(s)
    PROVE  /\ Part(s, a, b) \in Seq(Nat) /\ Len(Part(s, a, b)) = b - a
           /\ \A i \in 1..b - a : Part(s, a, b)[i] = s[a + i]
           /\ Part(s, a, b) # <<>> <=> a < b
           /\ \A c \in 1..Len(s) : c = b + 1 => Joined(Part(s, a, b), s[c], Part(s, a, c))
<1>1. Len(s) \in Nat /\ \A i \in 1..Len(s) : s[i] \in Nat
  BY LenProperties, ElementOfSeq
<1>2. /\ Part(s, a, b) \in Seq(Nat)
      /\ Len(Part(s, a, b)) = b - a
      /\ \A i \in 1..b - a : Part(s, a, b)[i] = s[a + i]
  <2>1. PICK m : m = a + 1
    OBVIOUS
  <2>2. m \in Int /\ b \in Int /\ \A i \in m..b : s[i] \in Nat
    BY <1>1, <2>1
  <2>3. /\ SubSeq(s, m, b) \in Seq(Nat)
        /\ Len(SubSeq(s, m, b)) = IF m <= b THEN b - m + 1 ELSE 0
        /\ \A i \in 1..b - m + 1 : SubSeq(s, m, b)[i] = s[m + i - 1]
    BY <2>2, SubSeqProperties
  <2>4. PICK p : p = SubSeq(s, m, b)
    OBVIOUS
  <2>5. p = Part(s, a, b)
    BY <2>1, <2>4 DEF Part
  <2>6. Len(p) = b - a /\ \A i \in 1..b - a : p[i] = s[a + i]
    BY <2>1, <2>3, <2>4
  <2> QED
    BY <2>3, <2>4, <2>5, <2>6
<1>3. Part(s, a, b) # <<>> <=> a < b
  <2>1. PICK p : p = Part(s, a, b)
    OBVIOUS
  <2>2. p \in Seq(Nat) /\ Len(p) = b - a
    BY <1>2, <2>1
  <2>3. p # <<>> <=> Len(p) # 0
    BY <2>2, LenProperties
  <2> QED
    BY <2>1, <2>2, <2>3
<1>4. ASSUME NEW n \in 1..Len(s), n = b + 1 PROVE Joined(Part(s, a, b), s[n], Part(s, a, n))
  <2>6. PICK m : m = a + 1
    OBVIOUS
  <2>1. m \in 1..Len(s) /\ n \in m..Len(s) /\ m = a + 1 /\ n = b + 1
    BY <1>1, <1>4, <2>6
  <2>2. PICK p : p = Part(s, a, b)
    OBVIOUS
  <2>3. p = SubSeq(s, m, n - 1)
    BY <2>1, <2>2 DEF Part
  <2>4. SubSeq(s, m, n) = SubSeq(s, m, n - 1) \o << s[n] >>
    BY <2>1, SubSeqRecursiveSecond
  <2>5. Append(p, s[n]) = p \o << s[n] >>
    <3>1. p \in Seq(Nat) /\ s[n] \in Nat
      BY <1>1, <1>2, <2>1, <2>2
    <3> QED
      BY <3>1, AppendIsConcat
  <2> QED
    BY <2>1, <2>2, <2>3, <2>4, <2>5 DEF Part, Joined
<1> QED
  BY <1>2, <1>3, <1>4

\* A part of a part takes no more.
LEMMA PartsTakeLess ==
    ASSUME NEW texts, NEW s \in Seq(Nat), \A i \in 1..Len(s) : texts[s[i]] \in Size
    PROVE  \A w, a, b, z \in 0..Len(s) : w <= a /\ a <= b /\ b <= z =>
              /\ Total(texts, Part(s, a, b)) \in Size /\ Total(texts, Part(s, w, z)) \in Size
              /\ NoLarger(Total(texts, Part(s, a, b)), Total(texts, Part(s, w, z)))
<1> DEFINE T(a, b) == Total(texts, Part(s, a, b))
<1>0. PICK len \in Nat : len = Len(s)
  BY LenProperties
<1>1. ASSUME NEW a \in 0..len, NEW b \in 0..len, a <= b, NEW c \in 1..len, c = b + 1
      PROVE  T(a, c) = T(a, b) ++ If(a < b, Separator) ++ texts[s[c]]
  <2>1. PICK p : p = Part(s, a, b)
    OBVIOUS
  <2>6. a \in Nat /\ b \in Nat /\ a <= b /\ b <= Len(s) /\ c \in 1..Len(s) /\ c = b + 1
    BY <1>0, <1>1
  <2>7. /\ Part(s, a, b) \in Seq(Nat) /\ (Part(s, a, b) # <<>> <=> a < b)
        /\ Joined(Part(s, a, b), s[c], Part(s, a, c))
    BY <2>6, PartsOf
  <2>2. p \in Seq(Nat) /\ (p # <<>> <=> a < b) /\ Joined(p, s[c], Part(s, a, c))
    BY <2>1, <2>7
  <2>3. s[c] \in Nat
    BY <1>0, ElementOfSeq
  <2>4. (p # <<>>) = (a < b)
    BY <2>2
  <2>5. Total(texts, Append(p, s[c])) = Total(texts, p) ++ If(p # <<>>, Separator) ++ texts[s[c]]
    BY <2>2, <2>3, TotalGrows
  <2> QED
    BY <2>1, <2>2, <2>4, <2>5 DEF Joined
<1>2. ASSUME NEW a \in 0..len PROVE T(a, a) = Nothing
  <2>1. a \in Nat /\ a <= a /\ a <= Len(s) /\ ~(a < a)
    BY <1>0
  <2>2. Part(s, a, a) = <<>>
    BY Zenon, <2>1, PartsOf
  <2>3. Total(texts, <<>>) = Nothing
    BY Zenon, TotalGrows
  <2> QED
    BY Zenon, <2>2, <2>3
<1>3. Separator \in Size /\ \A i \in 1..len : texts[s[i]] \in Size
  BY <1>0, ChunkingAssumption
<1> HIDE DEF T
<1>4. ASSUME NEW a \in 0..len PROVE \A b \in 0..len : a <= b => T(a, b) \in Size
  <2> DEFINE Bad == { b \in 0..len : a <= b /\ T(a, b) \notin Size }
  <2>1. ASSUME Bad # {} PROVE FALSE
    <3>1. PICK c \in Bad : \A d \in Bad : c <= d
      <4>1. Bad \subseteq Nat
        OBVIOUS
      <4> HIDE DEF Bad
      <4> QED
        BY <2>1, <4>1, Least
    <3>2. c # a
      BY <1>2, <3>1, OptionalSize
    <3>3. PICK b \in 0..len : c = b + 1 /\ a <= b
      BY <3>1, <3>2
    <3>4. b \notin Bad
      BY <3>1, <3>3
    <3>5. T(a, b) \in Size /\ c \in 1..len
      BY <3>1, <3>3, <3>4
    <3>6. T(a, c) = T(a, b) ++ If(a < b, Separator) ++ texts[s[c]]
      BY <1>1, <3>3, <3>5
    <3>7. If(a < b, Separator) \in Size /\ texts[s[c]] \in Size
      BY <1>3, <3>5, OptionalSize DEF If
    <3>8. T(a, b) ++ If(a < b, Separator) \in Size
      BY <3>5, <3>7, SizesAdd
    <3>9. T(a, c) \in Size
      BY <3>6, <3>7, <3>8, SizesAdd
    <3> QED
      BY <3>1, <3>9
  <2> QED
    BY <2>1
<1>5. ASSUME NEW w \in 0..len, NEW a \in 0..len, w <= a
      PROVE  \A b \in 0..len : a <= b => NoLarger(T(a, b), T(w, b))
  <2> DEFINE Bad == { b \in 0..len : a <= b /\ ~NoLarger(T(a, b), T(w, b)) }
  <2>1. ASSUME Bad # {} PROVE FALSE
    <3>1. PICK c \in Bad : \A d \in Bad : c <= d
      <4>1. Bad \subseteq Nat
        OBVIOUS
      <4> HIDE DEF Bad
      <4> QED
        BY <2>1, <4>1, Least
    <3>2. c # a
      <4>1. T(w, a) \in Size
        BY <1>4, <1>5
      <4>2. NoLarger(T(a, a), T(w, a))
        BY <1>2, <4>1, OptionalSize
      <4> QED
        BY <3>1, <4>2
    <3>3. PICK b \in 0..len : c = b + 1 /\ a <= b
      BY <3>1, <3>2
    <3>4. b \notin Bad
      BY <3>1, <3>3
    <3>5. NoLarger(T(a, b), T(w, b)) /\ c \in 1..len /\ w <= b
      BY <1>5, <3>1, <3>3, <3>4
    <3>6. /\ T(a, c) = T(a, b) ++ If(a < b, Separator) ++ texts[s[c]]
          /\ T(w, c) = T(w, b) ++ If(w < b, Separator) ++ texts[s[c]]
      BY <1>1, <3>3, <3>5
    <3>7. /\ If(a < b, Separator) \in Size /\ If(w < b, Separator) \in Size /\ texts[s[c]] \in Size
          /\ NoLarger(If(a < b, Separator), If(w < b, Separator))
      <4>1. a < b => w < b
        BY <1>5
      <4>2. NoLarger(Separator, Separator)
        BY <1>3, SizesAdd
      <4> QED
        BY <1>3, <3>5, <4>1, <4>2, OptionalSize DEF If
    <3>8. T(a, b) \in Size /\ T(w, b) \in Size
      BY <1>4, <3>3, <3>5
    <3>9. /\ T(a, b) ++ If(a < b, Separator) \in Size /\ T(w, b) ++ If(w < b, Separator) \in Size
          /\ NoLarger(T(a, b) ++ If(a < b, Separator), T(w, b) ++ If(w < b, Separator))
      BY <3>5, <3>7, <3>8, SizesAdd
    <3>10. NoLarger(texts[s[c]], texts[s[c]])
      BY <3>7, SizesAdd
    <3>11. NoLarger(T(a, c), T(w, c))
      BY <3>6, <3>7, <3>9, <3>10, SizesAdd
    <3> QED
      BY <3>1, <3>11
  <2> QED
    BY <2>1
<1>6. ASSUME NEW w \in 0..len, NEW b \in 0..len, w <= b
      PROVE  \A z \in 0..len : b <= z => NoLarger(T(w, b), T(w, z))
  <2> DEFINE Bad == { z \in 0..len : b <= z /\ ~NoLarger(T(w, b), T(w, z)) }
  <2>0. T(w, b) \in Size
    BY <1>4, <1>6
  <2>1. ASSUME Bad # {} PROVE FALSE
    <3>1. PICK c \in Bad : \A d \in Bad : c <= d
      <4>1. Bad \subseteq Nat
        OBVIOUS
      <4> HIDE DEF Bad
      <4> QED
        BY <2>1, <4>1, Least
    <3>2. c # b
      BY <2>0, <3>1, SizesAdd
    <3>3. PICK z \in 0..len : c = z + 1 /\ b <= z
      BY <3>1, <3>2
    <3>4. z \notin Bad
      BY <3>1, <3>3
    <3>5. NoLarger(T(w, b), T(w, z)) /\ c \in 1..len /\ w <= z
      BY <1>6, <3>1, <3>3, <3>4
    <3>6. T(w, c) = T(w, z) ++ If(w < z, Separator) ++ texts[s[c]]
      BY <1>1, <3>3, <3>5
    <3>7. If(w < z, Separator) \in Size /\ texts[s[c]] \in Size /\ T(w, z) \in Size
      BY <1>3, <1>4, <3>3, <3>5, OptionalSize DEF If
    <3>8. T(w, z) ++ If(w < z, Separator) \in Size /\ NoLarger(T(w, z), T(w, z) ++ If(w < z, Separator))
      BY <3>7, SizesAdd
    <3>9. T(w, c) \in Size /\ NoLarger(T(w, z) ++ If(w < z, Separator), T(w, c))
      BY <3>6, <3>7, <3>8, SizesAdd
    <3>10. NoLarger(T(w, z), T(w, c))
      BY <3>7, <3>8, <3>9, NoLargerIsTransitive
    <3>11. NoLarger(T(w, b), T(w, c))
      BY <2>0, <3>5, <3>7, <3>9, <3>10, NoLargerIsTransitive
    <3> QED
      BY <3>1, <3>11
  <2> QED
    BY <2>1
<1>7. ASSUME NEW w \in 0..len, NEW a \in 0..len, NEW b \in 0..len, NEW z \in 0..len, w <= a, a <= b, b <= z
      PROVE  T(a, b) \in Size /\ T(w, z) \in Size /\ NoLarger(T(a, b), T(w, z))
  <2>1. w <= b /\ w <= z
    BY <1>7
  <2>2. T(a, b) \in Size /\ T(w, z) \in Size /\ T(w, b) \in Size
    BY <1>4, <1>7, <2>1
  <2>3. NoLarger(T(a, b), T(w, b)) /\ NoLarger(T(w, b), T(w, z))
    BY <1>5, <1>6, <1>7, <2>1
  <2> QED
    BY <2>2, <2>3, NoLargerIsTransitive
<1> QED
  BY <1>0, <1>7 DEF T

-----------------------------------------------------------------------------
(* Messages                                                                *)

\* Nothing adds nothing.
LEMMA NothingAdds == \A a \in Size : Nothing ++ a = a /\ a ++ Nothing = a
BY DEF Nothing, Size, ++

\* The listings that can be sent.
Sends == DOMAIN listings \ Skipped

\* They are listed in order, and each fits a message of its own.
LEMMA SendableIs ==
    ASSUME TypeOK
    PROVE  /\ Len(listings) \in Nat /\ DOMAIN listings = 1..Len(listings)
           /\ Sends \in SUBSET (1..Len(listings))
           /\ Cardinality(Sends) \in Nat /\ Len(Sendable) = Cardinality(Sends)
           /\ Sendable \in Seq(Nat)
           /\ \A k \in 1..Len(Sendable) :
                 Sendable[k] \in Sends /\ listings[Sendable[k]] \in Size
           /\ \A n \in Sends : listings[n] \in Size /\ ~ExceedsTextLimits(listings[n])
<1>1. Len(listings) \in Nat /\ DOMAIN listings = 1..Len(listings) /\ \A n \in 1..Len(listings) : listings[n] \in Size
  BY LenProperties, ElementOfSeq, ChunkingAssumption DEF TypeOK
<1>2. Sends \in SUBSET (1..Len(listings))
  BY <1>1 DEF Sends
<1>3. PICK e : e = Enumerated(Sends)
  OBVIOUS
<1>4. /\ Cardinality(Sends) \in Nat /\ e \in Seq(Sends) /\ Len(e) = Cardinality(Sends)
      /\ \A k \in 1..Cardinality(Sends) : e[k] \in Sends
  BY <1>1, <1>2, <1>3, EnumeratedInOrder
<1>5. e \in Seq(Nat)
  <2>1. Sends \subseteq Nat
    BY <1>1, <1>2
  <2> HIDE DEF Sends
  <2>2. Len(e) \in Nat /\ e \in [1..Len(e) -> Nat]
    BY <1>4, <2>1, LenProperties
  <2> QED
    BY <2>2, SeqDef
<1>6. Sendable = e
  BY <1>3 DEF Sendable, Sends
<1>7. \A n \in Sends : listings[n] \in Size /\ ~ExceedsTextLimits(listings[n])
  BY <1>1 DEF Sends, Skipped
<1> QED
  BY <1>1, <1>2, <1>4, <1>5, <1>6, <1>7

\* The listings handled so far, of those that can be sent.
Handled == Rank(Sends, next)

\* A listing that can be sent is the next of them, and one that cannot is none
\* of them; after the last all of them have been handled.
LEMMA HandledGrows ==
    ASSUME TypeOK
    PROVE  /\ Handled \in 0..Len(Sendable)
           /\ next = 1 => Handled = 0
           /\ next > Len(listings) => Handled = Len(Sendable)
           /\ next <= Len(listings) =>
                 Rank(Sends, next + 1) = IF next \in Sends THEN Handled + 1 ELSE Handled
           /\ next \in Sends => Handled + 1 <= Len(Sendable) /\ Sendable[Handled + 1] = next
<1>1. PICK len \in Nat : len = Len(listings)
  BY SendableIs
<1>2. Sends \in SUBSET (1..len) /\ Len(Sendable) = Cardinality(Sends) /\ Cardinality(Sends) \in Nat
  BY <1>1, SendableIs
<1>3. next \in 1..len + 1
  BY <1>1 DEF TypeOK
<1>4. /\ \A n \in 1..len + 1 : Rank(Sends, n) \in Nat /\ Rank(Sends, n) <= Cardinality(Sends)
      /\ Rank(Sends, 1) = 0 /\ Rank(Sends, len + 1) = Cardinality(Sends)
      /\ \A n \in 1..len : Rank(Sends, n + 1) = IF n \in Sends THEN Rank(Sends, n) + 1 ELSE Rank(Sends, n)
  BY <1>2, RankGrows
<1>5. next > len => next = len + 1
  BY <1>3
<1>6. next <= len => next \in 1..len
  BY <1>3
<1>7. \A n \in Sends : Rank(Sends, n) + 1 \in 1..Cardinality(Sends) /\ Enumerated(Sends)[Rank(Sends, n) + 1] = n
  BY <1>2, EnumeratedInOrder
<1>8. Sendable = Enumerated(Sends)
  BY DEF Sendable, Sends
<1>9. Handled \in 0..Len(Sendable)
  BY <1>2, <1>3, <1>4 DEF Handled
<1>10. next = 1 => Handled = 0
  BY <1>4 DEF Handled
<1>11. next > Len(listings) => Handled = Len(Sendable)
  BY <1>1, <1>2, <1>4, <1>5 DEF Handled
<1>12. next <= Len(listings) => Rank(Sends, next + 1) = IF next \in Sends THEN Handled + 1 ELSE Handled
  BY <1>1, <1>4, <1>6 DEF Handled
<1>13. next \in Sends => Handled + 1 <= Len(Sendable) /\ Sendable[Handled + 1] = next
  BY <1>2, <1>7, <1>8 DEF Handled
<1> QED
  BY <1>9, <1>10, <1>11, <1>12, <1>13

\* What a message takes, by its parts: with a header, and without.
LEMMA TextTakes ==
    ASSUME NEW books, NEW closing
    PROVE  /\ TextSize(Text(TRUE, books, closing)) =
                 Header
                 ++ (IF books # <<>> \/ closing # "none" THEN SectionBreak ELSE Nothing)
                 ++ Total(listings, books)
                 ++ (IF books # <<>> /\ closing # "none" THEN Separator ELSE Nothing)
                 ++ (IF closing = "summary" THEN Summary ELSE Nothing)
                 ++ (IF closing = "notice" THEN Notice ELSE Nothing)
           /\ TextSize(Text(FALSE, books, closing)) =
                 Nothing ++ Nothing
                 ++ Total(listings, books)
                 ++ (IF books # <<>> /\ closing # "none" THEN Separator ELSE Nothing)
                 ++ (IF closing = "summary" THEN Summary ELSE Nothing)
                 ++ (IF closing = "notice" THEN Notice ELSE Nothing)
<1>1. \A c : TextSize(c) =
         (IF c.header THEN Header ELSE Nothing)
         ++ (IF c.header /\ (c.books # <<>> \/ c.closing # "none") THEN SectionBreak ELSE Nothing)
         ++ Total(listings, c.books)
         ++ (IF c.books # <<>> /\ c.closing # "none" THEN Separator ELSE Nothing)
         ++ (IF c.closing = "summary" THEN Summary ELSE Nothing)
         ++ (IF c.closing = "notice" THEN Notice ELSE Nothing)
  BY Zenon DEF TextSize, If
<1>2. PICK c : c = Text(TRUE, books, closing)
  OBVIOUS
<1>3. c.header = TRUE /\ c.books = books /\ c.closing = closing
  BY <1>2 DEF Text
<1>4. PICK d : d = Text(FALSE, books, closing)
  OBVIOUS
<1>5. d.header = FALSE /\ d.books = books /\ d.closing = closing
  BY <1>4 DEF Text
<1> QED
  BY <1>1, <1>2, <1>3, <1>4, <1>5

\* The messages of one text.
LEMMA ShortTexts ==
    /\ TextSize(Text(TRUE, <<>>, "none")) = Header
    /\ TextSize(Text(FALSE, <<>>, "summary")) = Summary
    /\ TextSize(Text(FALSE, <<>>, "notice")) = Notice
    /\ \A k \in Nat : listings[k] \in Size => TextSize(Text(FALSE, <<k>>, "none")) = listings[k]
<1>1. /\ Header \in Size /\ Summary \in Size /\ Notice \in Size /\ Nothing \in Size
  BY ChunkingAssumption, OptionalSize
<1>2. Total(listings, <<>>) = Nothing
  BY TotalGrows
<1>4. TextSize(Text(TRUE, <<>>, "none")) = Header
  <2>1. PICK b : b = <<>>
    OBVIOUS
  <2>2. Total(listings, b) = Nothing
    BY <1>2, <2>1
  <2>3. TextSize(Text(TRUE, b, "none")) = Header ++ Nothing ++ Nothing ++ Nothing ++ Nothing ++ Nothing
    <3>1. TextSize(Text(TRUE, b, "none")) =
             Header ++ (IF b # <<>> \/ "none" # "none" THEN SectionBreak ELSE Nothing)
             ++ Total(listings, b)
             ++ (IF b # <<>> /\ "none" # "none" THEN Separator ELSE Nothing)
             ++ (IF "none" = "summary" THEN Summary ELSE Nothing)
             ++ (IF "none" = "notice" THEN Notice ELSE Nothing)
      BY Zenon, TextTakes
    <3> QED
      BY <2>1, <2>2, <3>1
  <2> QED
    BY <1>1, <2>1, <2>3, NothingAdds
<1>5. TextSize(Text(FALSE, <<>>, "summary")) = Summary
  <2>1. PICK b : b = <<>>
    OBVIOUS
  <2>2. Total(listings, b) = Nothing
    BY <1>2, <2>1
  <2>3. TextSize(Text(FALSE, b, "summary")) = Nothing ++ Nothing ++ Nothing ++ Nothing ++ Summary ++ Nothing
    <3>1. TextSize(Text(FALSE, b, "summary")) =
             Nothing ++ Nothing
             ++ Total(listings, b)
             ++ (IF b # <<>> /\ "summary" # "none" THEN Separator ELSE Nothing)
             ++ (IF "summary" = "summary" THEN Summary ELSE Nothing)
             ++ (IF "summary" = "notice" THEN Notice ELSE Nothing)
      BY Zenon, TextTakes
    <3> QED
      BY <2>1, <2>2, <3>1
  <2> QED
    BY <1>1, <2>1, <2>3, NothingAdds
<1>6. TextSize(Text(FALSE, <<>>, "notice")) = Notice
  <2>1. PICK b : b = <<>>
    OBVIOUS
  <2>2. Total(listings, b) = Nothing
    BY <1>2, <2>1
  <2>3. TextSize(Text(FALSE, b, "notice")) = Nothing ++ Nothing ++ Nothing ++ Nothing ++ Nothing ++ Notice
    <3>1. TextSize(Text(FALSE, b, "notice")) =
             Nothing ++ Nothing
             ++ Total(listings, b)
             ++ (IF b # <<>> /\ "notice" # "none" THEN Separator ELSE Nothing)
             ++ (IF "notice" = "summary" THEN Summary ELSE Nothing)
             ++ (IF "notice" = "notice" THEN Notice ELSE Nothing)
      BY Zenon, TextTakes
    <3> QED
      BY <2>1, <2>2, <3>1
  <2> QED
    BY <1>1, <2>1, <2>3, NothingAdds
<1>7. ASSUME NEW k \in Nat, listings[k] \in Size
      PROVE  TextSize(Text(FALSE, <<k>>, "none")) = listings[k]
  <2>1. PICK b : b = <<k>>
    OBVIOUS
  <2>2. TextSize(Text(FALSE, b, "none"))
            = Nothing ++ Nothing ++ Total(listings, b) ++ Nothing ++ Nothing ++ Nothing
    BY TextTakes DEF If
  <2>3. Total(listings, b) = Nothing ++ Nothing ++ listings[k]
    <3>1. Append(<<>>, k) = b /\ <<>> \in Seq(Nat)
      BY <2>1
    <3>2. Total(listings, Append(<<>>, k)) = Total(listings, <<>>) ++ If(<<>> # <<>>, Separator) ++ listings[k]
      BY <3>1, TotalGrows
    <3>3. If(<<>> # <<>>, Separator) = Nothing
      BY DEF If
    <3> QED
      BY <1>2, <3>1, <3>2, <3>3
  <2> QED
    BY <1>1, <1>7, <2>1, <2>2, <2>3, NothingAdds, ZenonT(40)
<1> QED
  BY <1>4, <1>5, <1>6, <1>7

\* Two sizes, the first no larger than the second.
Within(a, b) == a \in Size /\ b \in Size /\ NoLarger(a, b)

\* They stay so when others like them are added.
LEMMA WithinAdds ==
    ASSUME NEW a, NEW b, Within(a, b), NEW c, NEW d, Within(c, d)
    PROVE  Within(a ++ c, b ++ d)
BY SizesAdd DEF Within

\* A smaller text exceeds no limit that a larger one keeps.
LEMMA SmallerFits ==
    ASSUME TypeOK, NEW a \in Size, NEW b \in Size, NoLarger(a, b), ~ExceedsTextLimits(b)
    PROVE  ~ExceedsTextLimits(a)
<1>1. limit \in Nat /\ ByteLimit \in Nat
  BY ChunkingAssumption DEF TypeOK
<1>2. a.runes \in Nat /\ a.bytes \in Nat /\ b.runes \in Nat /\ b.bytes \in Nat
  BY DEF Size
<1> QED
  BY <1>1, <1>2 DEF NoLarger, ExceedsTextLimits

\* A message still fits when listings are left out at either end, or its closing
\* text is, as long as one listing stays.
LEMMA FewerFit ==
    ASSUME TypeOK, NEW h \in BOOLEAN, NEW small \in {"none", "summary"}, NEW large \in {"none", "summary"},
           small = "none" \/ small = large,
           NEW w \in 0..Len(Sendable), NEW a \in 0..Len(Sendable),
           NEW b \in 0..Len(Sendable), NEW z \in 0..Len(Sendable),
           w <= a, a < b, b <= z, Fits(Text(h, Part(Sendable, w, z), large))
    PROVE  Fits(Text(h, Part(Sendable, a, b), small))
<1>1. /\ Len(Sendable) \in Nat /\ Sendable \in Seq(Nat)
      /\ \A k \in 1..Len(Sendable) : listings[Sendable[k]] \in Size
  BY SendableIs
<1>2. PICK p : p = Part(Sendable, a, b)
  OBVIOUS
<1>3. PICK q : q = Part(Sendable, w, z)
  OBVIOUS
<1>4. Len(p) = b - a /\ p # <<>> /\ Len(q) = z - w /\ q # <<>>
  <2>1. /\ a \in Nat /\ b \in Nat /\ a <= b /\ b <= Len(Sendable)
        /\ w \in Nat /\ z \in Nat /\ w <= z /\ w < z /\ z <= Len(Sendable)
    BY <1>1
  <2>2. Len(p) = b - a /\ p # <<>>
    BY <1>1, <1>2, <2>1, PartsOf
  <2>3. Len(q) = z - w /\ q # <<>>
    BY <1>1, <1>3, <2>1, PartsOf
  <2> QED
    BY <2>2, <2>3
<1>5. /\ Total(listings, p) \in Size /\ Total(listings, q) \in Size
      /\ NoLarger(Total(listings, p), Total(listings, q))
  BY <1>1, <1>2, <1>3, PartsTakeLess
<1>6. PICK m : m = Text(h, p, small)
  OBVIOUS
<1>7. PICK n : n = Text(h, q, large)
  OBVIOUS
<1>8. m.books = p /\ m.closing = small /\ n.books = q /\ n.closing = large
  BY <1>6, <1>7 DEF Text
<1>9. Fits(n)
  BY <1>3, <1>7
<1>10. Blocks(m) <= BlockLimit
  <2>1. Blocks(n) <= BlockLimit
    BY <1>9 DEF Fits
  <2>2. BlockLimit \in Nat
    BY ChunkingAssumption
  <2> QED
    BY <1>4, <1>8, <2>1, <2>2 DEF Blocks
<1>11. TextSize(m) \in Size /\ TextSize(n) \in Size /\ NoLarger(TextSize(m), TextSize(n))
  <2>1. /\ Header \in Size /\ Summary \in Size /\ Separator \in Size /\ SectionBreak \in Size
        /\ Nothing \in Size
    BY ChunkingAssumption, OptionalSize
  <2>2. \A x \in Size : NoLarger(x, x) /\ NoLarger(Nothing, x)
    BY SizesAdd, OptionalSize
  <2> DEFINE H == IF h = TRUE THEN Header ELSE Nothing
             B == IF h = TRUE THEN SectionBreak ELSE Nothing
             R(closing) == IF closing = "summary" THEN Separator ELSE Nothing
             S(closing) == IF closing = "summary" THEN Summary ELSE Nothing
  <2>3. ASSUME NEW books, NEW closing \in {"none", "summary"}, books # <<>>
        PROVE  TextSize(Text(h, books, closing))
                   = H ++ B ++ Total(listings, books) ++ R(closing) ++ S(closing) ++ Nothing
    <3>1. CASE h = TRUE
      <4>1. CASE closing = "none"
        BY <2>3, <3>1, <4>1, TextTakes
      <4>2. CASE closing = "summary"
        <5>1. TextSize(Text(TRUE, books, "summary"))
                  = Header ++ SectionBreak ++ Total(listings, books) ++ Separator ++ Summary ++ Nothing
          <6>1. books # <<>>
            BY <2>3
          <6>2. TextSize(Text(TRUE, books, "summary"))
                    = Header ++ (IF books # <<>> \/ "summary" # "none" THEN SectionBreak ELSE Nothing)
                      ++ Total(listings, books)
                      ++ (IF books # <<>> /\ "summary" # "none" THEN Separator ELSE Nothing)
                      ++ (IF "summary" = "summary" THEN Summary ELSE Nothing)
                      ++ (IF "summary" = "notice" THEN Notice ELSE Nothing)
            BY Zenon, TextTakes
          <6> QED
            BY <6>1, <6>2
        <5> QED
          BY <3>1, <4>2, <5>1
      <4> QED
        BY <2>3, <4>1, <4>2
    <3>2. CASE h = FALSE
      <4>1. CASE closing = "none"
        BY <2>3, <3>2, <4>1, TextTakes
      <4>2. CASE closing = "summary"
        <5>1. TextSize(Text(FALSE, books, "summary"))
                  = Nothing ++ Nothing ++ Total(listings, books) ++ Separator ++ Summary ++ Nothing
          <6>1. books # <<>>
            BY <2>3
          <6>2. TextSize(Text(FALSE, books, "summary"))
                    = Nothing ++ Nothing
                      ++ Total(listings, books)
                      ++ (IF books # <<>> /\ "summary" # "none" THEN Separator ELSE Nothing)
                      ++ (IF "summary" = "summary" THEN Summary ELSE Nothing)
                      ++ (IF "summary" = "notice" THEN Notice ELSE Nothing)
            BY Zenon, TextTakes
          <6> QED
            BY <6>1, <6>2
        <5> QED
          BY <3>2, <4>2, <5>1
      <4> QED
        BY <2>3, <4>1, <4>2
    <3> QED
      BY <3>1, <3>2
  <2>4. /\ H \in Size /\ B \in Size /\ R(small) \in Size /\ R(large) \in Size
        /\ S(small) \in Size /\ S(large) \in Size
    BY <2>1
  <2>5. NoLarger(R(small), R(large)) /\ NoLarger(S(small), S(large))
    BY <2>1, <2>2
  <2>6. /\ TextSize(m) = H ++ B ++ Total(listings, p) ++ R(small) ++ S(small) ++ Nothing
        /\ TextSize(n) = H ++ B ++ Total(listings, q) ++ R(large) ++ S(large) ++ Nothing
    BY <1>4, <1>6, <1>7, <2>3
  <2> HIDE DEF H, B, R, S
  <2>7. Within(H, H) /\ Within(B, B) /\ Within(Nothing, Nothing)
    BY <2>1, <2>2, <2>4 DEF Within
  <2>8. /\ Within(Total(listings, p), Total(listings, q))
        /\ Within(R(small), R(large)) /\ Within(S(small), S(large))
    BY <1>5, <2>4, <2>5 DEF Within
  <2>9. Within(H ++ B ++ Total(listings, p), H ++ B ++ Total(listings, q))
    BY <2>7, <2>8, WithinAdds
  <2>10. Within(H ++ B ++ Total(listings, p) ++ R(small), H ++ B ++ Total(listings, q) ++ R(large))
    BY <2>8, <2>9, WithinAdds
  <2>11. Within(H ++ B ++ Total(listings, p) ++ R(small) ++ S(small),
                H ++ B ++ Total(listings, q) ++ R(large) ++ S(large))
    BY <2>8, <2>10, WithinAdds
  <2>12. Within(TextSize(m), TextSize(n))
    BY <2>6, <2>7, <2>11, WithinAdds
  <2> QED
    BY <2>12 DEF Within
<1>12. ~ExceedsTextLimits(TextSize(n))
  BY <1>9 DEF Fits
<1> QED
  BY <1>2, <1>6, <1>10, <1>11, <1>12, SmallerFits DEF Fits

-----------------------------------------------------------------------------
(* Cutting the listings                                                    *)

\* The first n messages end after these many listings each; none but the first
\* is empty.
Cut(cut, n) ==
    /\ cut \in [0..n -> 0..Len(Sendable)] /\ cut[0] = 0
    /\ \A i \in 1..n : cut[i-1] <= cut[i] /\ (i > 1 => cut[i-1] < cut[i])

\* A message of the listings after the a-th has no room for the b-th.
Full(header, a, b) == ~Fits(Text(header, Part(Sendable, a, b), "none"))

\* No other way to cut the listings into messages that fit has come further
\* after as many messages, if each of these has no room for the next listing.
LEMMA GreedyIsAhead ==
    ASSUME TypeOK, NEW m \in Nat, NEW cut, Cut(cut, m),
           \A i \in 1..m : cut[i] < Len(Sendable) /\ Full(i = 1, cut[i-1], cut[i] + 1),
           NEW closing \in {"none", "summary"},
           NEW n \in Nat \ {0}, NEW other \in [0..n -> 0..Len(Sendable)], other[0] = 0, other[n] = Len(Sendable),
           \A i \in 1..n : /\ other[i-1] <= other[i]
                           /\ Fits(Text(i = 1, Part(Sendable, other[i-1], other[i]),
                                        IF i = n THEN closing ELSE "none"))
    PROVE  m < n /\ other[m] <= cut[m]
<1> DEFINE Bad == { i \in 0..m : i <= n /\ ~(other[i] <= cut[i]) }
<1>0. Len(Sendable) \in Nat
  BY SendableIs
<1>1. ASSUME Bad # {} PROVE FALSE
  <2>1. PICK i \in Bad : \A j \in Bad : i <= j
    <3>1. Bad \subseteq Nat
      OBVIOUS
    <3> HIDE DEF Bad
    <3> QED
      BY <1>1, <3>1, Least
  <2>2. i # 0
    BY <1>0, <2>1 DEF Cut
  <2>3. PICK j : j = i - 1
    OBVIOUS
  <2>4. j \in 0..m /\ j <= n /\ j \notin Bad /\ i \in 1..m /\ i \in 1..n
    BY <2>1, <2>2, <2>3
  <2>5. other[j] <= cut[j] /\ cut[j] <= cut[i] /\ cut[i] < other[i] /\ cut[i] < Len(Sendable)
    BY <1>0, <2>1, <2>3, <2>4 DEF Cut
  <2>6. PICK b : b = cut[i] + 1
    OBVIOUS
  <2>7. /\ cut[j] \in 0..Len(Sendable) /\ cut[i] \in 0..Len(Sendable)
        /\ other[j] \in 0..Len(Sendable) /\ other[i] \in 0..Len(Sendable)
    BY <2>4 DEF Cut
  <2>8. b \in 0..Len(Sendable) /\ cut[j] < b /\ b <= other[i]
    BY <1>0, <2>5, <2>6, <2>7, SMTT(30)
  <2>9. PICK c \in {"none", "summary"} : c = IF i = n THEN closing ELSE "none"
    OBVIOUS
  <2>10. Fits(Text(i = 1, Part(Sendable, other[j], other[i]), c))
    BY <2>3, <2>4, <2>9
  <2>11. Fits(Text(i = 1, Part(Sendable, cut[j], b), "none"))
    <3>1. PICK h \in BOOLEAN : h = (i = 1)
      OBVIOUS
    <3>2. Fits(Text(h, Part(Sendable, other[j], other[i]), c))
      BY Zenon, <2>10, <3>1
    <3>3. Fits(Text(h, Part(Sendable, cut[j], b), "none"))
      BY <2>5, <2>7, <2>8, <3>2, FewerFit
    <3> QED
      BY Zenon, <3>1, <3>3
  <2>12. Full(i = 1, cut[j], b)
    BY <2>3, <2>4, <2>6
  <2> QED
    BY Zenon, <2>11, <2>12 DEF Full
<1>2. \A i \in 0..m : i <= n => other[i] <= cut[i]
  BY <1>1
<1>3. m < n
  <2>1. ASSUME n <= m PROVE FALSE
    <3>1. n \in 0..m /\ n \in 1..m
      BY <2>1
    <3>2. Len(Sendable) <= cut[n] /\ cut[n] < Len(Sendable) /\ cut[n] \in 0..Len(Sendable)
      BY <1>2, <3>1 DEF Cut
    <3> QED
      BY <1>0, <3>2
  <2> QED
    BY <2>1
<1> QED
  BY <1>2, <1>3

-----------------------------------------------------------------------------
(* The invariant                                                           *)

\* A complete message: it fits, and had no room for the next listing.
Complete(message, i, a, b) ==
    /\ message = Text(i = 1, Part(Sendable, a, b), "none")
    /\ b < Len(Sendable) /\ Fits(message) /\ Full(i = 1, a, b + 1)

\* The complete messages are a cut, up to the a-th listing that can be sent, and
\* the message that grows has those that were handled since.
Packed(cut, a) ==
    /\ Cut(cut, Len(chunks)) /\ a = cut[Len(chunks)]
    /\ \A i \in 1..Len(chunks) : Complete(chunks[i], i, cut[i-1], cut[i])
    /\ a <= Handled /\ (chunks # <<>> => a < Handled)
    /\ current = Text(chunks = <<>>, Part(Sendable, a, Handled), "none")

\* Nothing is done yet.
Beginning ==
    pc = "begin" =>
        next = 1 /\ chunks = <<>> /\ blocks = 0 /\ current = Text(TRUE, <<>>, "none")

\* The listings handled so far are in messages that fit, and the code's count
\* of blocks is right.
Packing ==
    pc = "listing" =>
        /\ listings # <<>> /\ ~ExceedsTextLimits(Header)
        /\ \E cut, a : Packed(cut, a)
        /\ IF current.books = <<>> THEN blocks = 0 ELSE Fits(current) /\ blocks = Blocks(current)

\* The inductive invariant.
IInv ==
    /\ TypeOK
    /\ Beginning
    /\ Packing
    /\ MessagesFit
    /\ ListingsSentOnceInOrder
    /\ FailuresAreTold
    /\ FewestMessages

\* How a digest ends when it has failures to tell, and when it has none.
Closing == IF failures \/ Skipped # {} THEN "summary" ELSE "none"

\* The ways to send a list of listings that ends like this.
WaysToSend(list, closing) ==
    { [i \in DOMAIN lists |-> Text(i = 1, lists[i], IF i = Len(lists) THEN closing ELSE "none")]
      : lists \in Chunkings(list) }

\* What is asked of RenderSendable does not change.
LEMMA InputsStay ==
    ASSUME UNCHANGED inputs
    PROVE  /\ Skipped' = Skipped /\ Sends' = Sends /\ Sendable' = Sendable
           /\ \A m : Fits(m)' <=> Fits(m)
           /\ \A h, a, b : Full(h, a, b)' <=> Full(h, a, b)
           /\ \A m, i, a, b : Complete(m, i, a, b)' <=> Complete(m, i, a, b)
           /\ \A cut, n : Cut(cut, n)' <=> Cut(cut, n)
           /\ Alternatives' = Alternatives
<1>1. listings' = listings /\ failures' = failures /\ limit' = limit
  BY DEF inputs
<1>2. Skipped' = Skipped
  BY Zenon, <1>1 DEF Skipped, ExceedsTextLimits
<1>3. Sends' = Sends /\ Sendable' = Sendable
  BY Zenon, <1>1, <1>2 DEF Sends, Sendable
<1>4. ASSUME NEW m PROVE Fits(m)' <=> Fits(m)
  BY Zenon, <1>1 DEF Fits, ExceedsTextLimits, TextSize
<1>5. ASSUME NEW h, NEW a, NEW b PROVE Full(h, a, b)' <=> Full(h, a, b)
  BY Zenon, <1>3, <1>4 DEF Full
<1>6. ASSUME NEW m, NEW i, NEW a, NEW b PROVE Complete(m, i, a, b)' <=> Complete(m, i, a, b)
  BY Zenon, <1>3, <1>4, <1>5 DEF Complete
<1>7. ASSUME NEW cut, NEW n PROVE Cut(cut, n)' <=> Cut(cut, n)
  BY Zenon, <1>3 DEF Cut
<1>8. Alternatives' = Alternatives
  <2>1. Alternatives = WaysToSend(Sendable, Closing) /\ Alternatives' = WaysToSend(Sendable', Closing')
    BY DEF Alternatives, WaysToSend, Closing
  <2>2. Closing' = Closing
    BY Zenon, <1>1, <1>2 DEF Closing
  <2> QED
    BY Zenon, <1>3, <2>1, <2>2
<1> QED
  BY Zenon, <1>2, <1>3, <1>4, <1>5, <1>6, <1>7, <1>8

\* What may be returned: messages that fit, unless the summary never does,
\* that carry every listing, tell the failures, and are no more than needed.
Result(msgs) ==
    /\ ~ExceedsTextLimits(Summary) => \A i \in DOMAIN msgs : Fits(msgs[i])
    /\ [i \in DOMAIN msgs |-> msgs[i].books] \in Chunkings(Sendable)
    /\ \A i \in DOMAIN msgs :
          msgs[i].closing = "summary" <=> i = Len(msgs) /\ (failures \/ Skipped # {})
    /\ listings # <<>> /\ ~ExceedsTextLimits(Summary) =>
          \A other \in Alternatives :
             (\A i \in DOMAIN other : Fits(other[i])) => Len(msgs) <= Len(other)

\* Returning it keeps the invariant.
LEMMA ReturnStep ==
    ASSUME IInv, NEW msgs \in Seq(Chunk), Return(msgs), Result(msgs)
    PROVE  IInv'
<1>1. pc' = "returned" /\ chunks' = msgs /\ UNCHANGED <<inputs, next, current, blocks>>
  BY DEF Return
<1>2. listings' = listings /\ failures' = failures /\ limit' = limit /\ UNCHANGED inputs
  BY <1>1 DEF inputs
<1>3. TypeOK'
  BY <1>1, <1>2 DEF IInv, TypeOK
<1>4. Beginning' /\ Packing'
  BY <1>1 DEF Beginning, Packing
<1>5. ExceedsTextLimits(Summary)' <=> ExceedsTextLimits(Summary)
  BY Zenon, <1>2 DEF ExceedsTextLimits
<1>6. MessagesFit'
  BY Zenon, <1>1, <1>2, <1>5, InputsStay DEF Result, MessagesFit
<1>7. ListingsSentOnceInOrder'
  BY Zenon, <1>1, <1>2, InputsStay DEF Result, ListingsSentOnceInOrder
<1>8. FailuresAreTold'
  BY Zenon, <1>1, <1>2, InputsStay DEF Result, FailuresAreTold
<1>9. FewestMessages'
  BY Zenon, <1>1, <1>2, <1>5, InputsStay DEF Result, FewestMessages
<1> QED
  BY <1>3, <1>4, <1>6, <1>7, <1>8, <1>9 DEF IInv

\* As long as nothing is returned, nothing needs to be shown of it.
LEMMA OtherStep ==
    ASSUME TypeOK', Beginning', Packing', pc' # "returned"
    PROVE  IInv'
BY DEF IInv, MessagesFit, ListingsSentOnceInOrder, FailuresAreTold, FewestMessages

\* All listings are cut into m lists, none empty but the first and the last.
CutOfAll(cut, m) ==
    /\ cut \in [0..m -> 0..Len(Sendable)] /\ cut[0] = 0 /\ cut[m] = Len(Sendable)
    /\ \A i \in 1..m : cut[i-1] < cut[i] \/ (cut[i-1] = cut[i] /\ i \in {1, m})

\* The messages carry these lists.
CutLike(msgs, cut, m) ==
    DOMAIN msgs = 1..m /\ \A i \in 1..m : msgs[i].books = Part(Sendable, cut[i-1], cut[i])

\* The messages carry the listings in one of the ways DigestCycle supposes.
Carrying(msgs) == [i \in DOMAIN msgs |-> msgs[i].books] \in Chunkings(Sendable)

\* Such a cut is one of them.
LEMMA CutIsChunking ==
    ASSUME TypeOK, NEW m \in Nat \ {0}, NEW cut, CutOfAll(cut, m), NEW msgs, CutLike(msgs, cut, m)
    PROVE  Carrying(msgs)
<1>0. /\ cut \in [0..m -> 0..Len(Sendable)] /\ cut[0] = 0 /\ cut[m] = Len(Sendable)
      /\ \A i \in 1..m : cut[i-1] < cut[i] \/ (cut[i-1] = cut[i] /\ i \in {1, m})
      /\ DOMAIN msgs = 1..m /\ \A i \in 1..m : msgs[i].books = Part(Sendable, cut[i-1], cut[i])
  BY DEF CutOfAll, CutLike
<1>1. PICK len \in Nat : len = Len(Sendable)
  BY SendableIs
<1> DEFINE Bad == { i \in 1..m - 1 : ~(i <= cut[i] + 1) }
<1>2. ASSUME Bad # {} PROVE FALSE
  <2>1. PICK i \in Bad : \A j \in Bad : i <= j
    <3>1. Bad \subseteq Nat
      OBVIOUS
    <3> HIDE DEF Bad
    <3> QED
      BY <1>2, <3>1, Least
  <2>2. cut[i] \in Nat /\ i # 1
    BY <1>0, <1>1, <2>1
  <2>3. PICK j : j = i - 1
    OBVIOUS
  <2>4. j \in 1..m - 1 /\ j \notin Bad /\ cut[j] \in Nat /\ i \in 1..m /\ i \notin {1, m}
    BY <1>0, <1>1, <2>1, <2>2, <2>3
  <2>5. j <= cut[j] + 1
    BY <2>4
  <2>6. cut[j] < cut[i]
    BY <1>0, <2>3, <2>4
  <2> QED
    BY <2>1, <2>2, <2>3, <2>4, <2>5, <2>6
<1>3. m \in 1..len + 2
  <2>1. CASE m = 1
    BY <1>1, <2>1
  <2>2. CASE m # 1
    <3>1. PICK j : j = m - 1
      OBVIOUS
    <3>2. j \in 1..m - 1 /\ cut[j] \in 0..len
      BY <1>0, <1>1, <2>2, <3>1
    <3>3. j <= cut[j] + 1
      BY <1>2, <3>2
    <3> QED
      BY <1>1, <3>1, <3>2, <3>3
  <2> QED
    BY <2>1, <2>2
<1>4. PICK lists : lists = [i \in 1..m |-> SubSeq(Sendable, cut[i-1] + 1, cut[i])]
  OBVIOUS
<1>5. [i \in DOMAIN msgs |-> msgs[i].books] = lists
  BY <1>0, <1>4 DEF Part
<1> DEFINE Ways(n) == { [i \in 1..n |-> SubSeq(Sendable, c[i-1] + 1, c[i])]
                        : c \in { c \in [0..n -> 0..Len(Sendable)] :
                                   /\ c[0] = 0 /\ c[n] = Len(Sendable)
                                   /\ \A i \in 1..n :
                                         c[i-1] < c[i] \/ (c[i-1] = c[i] /\ i \in {1, n}) } }
<1>6. lists \in Ways(m)
  BY Zenon, <1>0, <1>4
<1>7. m \in 1..Len(Sendable) + 2
  BY <1>1, <1>3
<1>8. lists \in Chunkings(Sendable)
  <2>1. Chunkings(Sendable) = UNION { Ways(n) : n \in 1..Len(Sendable) + 2 }
    BY DEF Chunkings
  <2> HIDE DEF Ways
  <2> QED
    BY Zenon, <1>6, <1>7, <2>1
<1> QED
  BY Zenon, <1>5, <1>8 DEF Carrying

\* Every other way to send the same is such a cut, too.
LEMMA AlternativeIs ==
    ASSUME TypeOK, NEW other \in Alternatives, \A i \in DOMAIN other : Fits(other[i])
    PROVE  \E n \in Nat \ {0} : \E cut \in [0..n -> 0..Len(Sendable)] :
              /\ Len(other) = n /\ cut[0] = 0 /\ cut[n] = Len(Sendable)
              /\ \A i \in 1..n :
                    /\ cut[i-1] <= cut[i]
                    /\ Fits(Text(i = 1, Part(Sendable, cut[i-1], cut[i]), IF i = n THEN Closing ELSE "none"))
<1>0. PICK len \in Nat : len = Len(Sendable)
  BY SendableIs
<1>1. PICK lists \in Chunkings(Sendable) :
         other = [i \in DOMAIN lists |->
                    Text(i = 1, lists[i], IF i = Len(lists) THEN Closing ELSE "none")]
  BY Zenon DEF Alternatives, Closing
<1>2. PICK n \in 1..Len(Sendable) + 2 :
         lists \in { [i \in 1..n |-> SubSeq(Sendable, c[i-1] + 1, c[i])]
                     : c \in { c \in [0..n -> 0..Len(Sendable)] :
                                /\ c[0] = 0 /\ c[n] = Len(Sendable)
                                /\ \A i \in 1..n :
                                      c[i-1] < c[i] \/ (c[i-1] = c[i] /\ i \in {1, n}) } }
  BY Zenon DEF Chunkings
<1>3. PICK cut \in [0..n -> 0..Len(Sendable)] :
         /\ cut[0] = 0 /\ cut[n] = Len(Sendable)
         /\ \A i \in 1..n : cut[i-1] < cut[i] \/ (cut[i-1] = cut[i] /\ i \in {1, n})
         /\ lists = [i \in 1..n |-> SubSeq(Sendable, cut[i-1] + 1, cut[i])]
  BY Zenon, <1>2
<1>4. n \in Nat \ {0}
  BY <1>0, <1>2
<1>5. DOMAIN lists = 1..n /\ \A i \in 1..n : lists[i] = Part(Sendable, cut[i-1], cut[i])
  BY <1>3 DEF Part
<1>6. Len(lists) = n
  <2>1. lists = [i \in 1..n |-> lists[i]]
    BY Zenon, <1>3, <1>5
  <2>2. PICK T : T = { lists[i] : i \in 1..n }
    OBVIOUS
  <2>3. lists \in [1..n -> T]
    BY <2>1, <2>2
  <2>4. lists \in Seq(T)
    BY <1>4, <2>3, SeqDef
  <2> QED
    BY <1>4, <1>5, <2>4, LenProperties
<1>7. DOMAIN other = 1..n
  BY Zenon, <1>1, <1>5
<1>8. Len(other) = n
  <2>1. other = [i \in 1..n |-> other[i]]
    BY Zenon, <1>1, <1>5, <1>7
  <2>2. PICK T : T = { other[i] : i \in 1..n }
    OBVIOUS
  <2>3. other \in [1..n -> T]
    BY <2>1, <2>2
  <2>4. other \in Seq(T)
    BY <1>4, <2>3, SeqDef
  <2> QED
    BY <1>4, <1>7, <2>4, LenProperties
<1>9. ASSUME NEW i \in 1..n
      PROVE  /\ cut[i-1] <= cut[i]
             /\ Fits(Text(i = 1, Part(Sendable, cut[i-1], cut[i]), IF i = n THEN Closing ELSE "none"))
  <2>1. cut[i-1] <= cut[i]
    <3>1. i - 1 \in 0..n /\ i \in 0..n
      BY <1>4
    <3>2. cut[i-1] \in 0..len /\ cut[i] \in 0..len
      BY <1>0, <3>1
    <3>3. cut[i-1] < cut[i] \/ cut[i-1] = cut[i]
      BY Zenon, <1>3
    <3> QED
      BY <3>2, <3>3
  <2>2. other[i] = Text(i = 1, Part(Sendable, cut[i-1], cut[i]), IF i = n THEN Closing ELSE "none")
    BY Zenon, <1>1, <1>5, <1>6
  <2>3. Fits(other[i])
    BY Zenon, <1>7
  <2> QED
    BY Zenon, <2>1, <2>2, <2>3
<1> QED
  BY <1>3, <1>4, <1>8, <1>9

-----------------------------------------------------------------------------
(* The steps of RenderSendable                                             *)

\* What is known of the message that grows.
LEMMA CurrentIs ==
    ASSUME TypeOK, NEW cut, NEW a, Packed(cut, a)
    PROVE  /\ Len(chunks) \in Nat /\ DOMAIN chunks = 1..Len(chunks)
           /\ Len(Sendable) \in Nat /\ Handled \in 0..Len(Sendable) /\ a \in 0..Len(Sendable) /\ a <= Handled
           /\ cut \in [0..Len(chunks) -> 0..Len(Sendable)] /\ cut[Len(chunks)] = a
           /\ current.books = Part(Sendable, a, Handled) /\ current.closing = "none"
           /\ current.books \in Seq(Nat) /\ Len(current.books) = Handled - a
           /\ current.books = <<>> <=> a = Handled
           /\ chunks = <<>> <=> Len(chunks) = 0
           /\ chunks # <<>> => current.books # <<>>
<1>1. Len(chunks) \in Nat /\ DOMAIN chunks = 1..Len(chunks) /\ (chunks = <<>> <=> Len(chunks) = 0)
  BY LenProperties DEF TypeOK
<1>2. Len(Sendable) \in Nat /\ Handled \in 0..Len(Sendable) /\ Sendable \in Seq(Nat)
  BY SendableIs, HandledGrows
<1>3. cut \in [0..Len(chunks) -> 0..Len(Sendable)] /\ cut[Len(chunks)] = a /\ a \in 0..Len(Sendable)
  BY <1>1 DEF Packed, Cut
<1>4. a <= Handled /\ (chunks # <<>> => a < Handled)
  BY DEF Packed
<1>5. current.books = Part(Sendable, a, Handled) /\ current.closing = "none"
  BY DEF Packed, Text
<1>6. PICK p : p = Part(Sendable, a, Handled)
  OBVIOUS
<1>7. p \in Seq(Nat) /\ Len(p) = Handled - a /\ (p # <<>> <=> a < Handled)
  <2>1. a \in Nat /\ Handled \in Nat /\ a <= Handled /\ Handled <= Len(Sendable)
    BY <1>2, <1>3, <1>4
  <2> QED
    BY <1>2, <1>6, <2>1, PartsOf
<1> QED
  BY <1>1, <1>2, <1>3, <1>4, <1>5, <1>6, <1>7

\* A message that cannot be sent changes nothing but the place.
LEMMA SkipBookStep ==
    ASSUME IInv, SkipBook
    PROVE  IInv'
<1>1. /\ pc = "listing" /\ next \in Skipped /\ next' = next + 1
      /\ UNCHANGED <<inputs, pc, chunks, current, blocks>>
  BY DEF SkipBook
<1>2. TypeOK /\ UNCHANGED inputs /\ listings' = listings /\ failures' = failures /\ limit' = limit
  BY <1>1 DEF IInv, inputs
<1>3. Len(listings) \in Nat /\ next \in 1..Len(listings) /\ next \notin Sends
  BY <1>1, <1>2, SendableIs DEF Skipped, Sends
<1>4. TypeOK'
  BY <1>1, <1>2, <1>3 DEF TypeOK
<1>5. Handled' = Handled
  <2>1. Rank(Sends, next + 1) = Handled
    BY <1>2, <1>3, HandledGrows
  <2> QED
    BY <1>1, <1>2, <2>1, InputsStay DEF Handled
<1>6. PICK cut, a : Packed(cut, a)
  BY <1>1 DEF IInv, Packing
<1>7. Packed(cut, a)'
  BY Zenon, <1>1, <1>2, <1>5, <1>6, InputsStay DEF Packed
<1>8. Packing'
  <2>1. listings' # <<>> /\ ~ExceedsTextLimits(Header)'
    BY <1>1, <1>2 DEF IInv, Packing, ExceedsTextLimits
  <2>2. (IF current.books = <<>> THEN blocks = 0 ELSE Fits(current) /\ blocks = Blocks(current))'
    <3>1. IF current.books = <<>> THEN blocks = 0 ELSE Fits(current) /\ blocks = Blocks(current)
      BY <1>1 DEF IInv, Packing
    <3>2. Fits(current) => Fits(current)'
      BY Zenon, <1>1, <1>2, InputsStay
    <3> QED
      BY Zenon, <1>1, <3>1, <3>2
  <2> QED
    BY <1>7, <2>1, <2>2 DEF Packing
<1> QED
  BY <1>1, <1>4, <1>8, OtherStep DEF Beginning

\* A new message starts.
LEMMA BeginStep ==
    ASSUME IInv, Begin
    PROVE  IInv'
<1>1. TypeOK /\ pc = "begin" /\ next = 1 /\ chunks = <<>> /\ blocks = 0 /\ current = Text(TRUE, <<>>, "none")
  BY DEF IInv, Beginning, Begin
<1>2. CASE ExceedsTextLimits(Header)
  <2>1. Reject
    BY <1>2 DEF Begin
  <2>2. TypeOK'
    BY <1>1, <2>1 DEF Reject, TypeOK, inputs
  <2> QED
    BY <2>1, <2>2, OtherStep DEF Reject, Beginning, Packing
<1>3. CASE ~ExceedsTextLimits(Header)
  <2>1. pc' = "listing" /\ UNCHANGED <<inputs, next, chunks, current, blocks>>
    BY <1>3 DEF Begin
  <2>2. UNCHANGED inputs /\ listings' = listings /\ failures' = failures /\ limit' = limit
    BY <2>1 DEF inputs
  <2>3. TypeOK'
    BY <1>1, <2>1, <2>2 DEF TypeOK
  <2>4. Handled = 0 /\ Len(Sendable) \in Nat /\ Sendable \in Seq(Nat)
    BY <1>1, HandledGrows, SendableIs
  <2>5. Handled' = Handled
    BY <2>1, <2>2, InputsStay DEF Handled
  <2> DEFINE cut == [i \in 0..0 |-> 0]
  <2>6. Packed(cut, 0)
    <3>1. Len(chunks) = 0
      BY <1>1
    <3>2. cut[0] = 0 /\ cut \in [0..0 -> 0..Len(Sendable)]
      BY <2>4
    <3>3. Cut(cut, 0)
      BY <3>2 DEF Cut
    <3>4. Part(Sendable, 0, 0) = <<>>
      BY <2>4, PartsOf
    <3>5. Cut(cut, Len(chunks)) /\ cut[Len(chunks)] = 0
      BY Zenon, <3>1, <3>2, <3>3
    <3>7. 0 <= Handled /\ (chunks # <<>> => 0 < Handled)
      BY <1>1, <2>4
    <3>8. \A i \in 1..Len(chunks) : Complete(chunks[i], i, cut[i-1], cut[i])
      BY <3>1
    <3>6. current = Text(chunks = <<>>, Part(Sendable, 0, Handled), "none")
      <4>1. (chunks = <<>>) = TRUE
        BY <1>1
      <4> QED
        BY Zenon, <1>1, <2>4, <3>4, <4>1
    <3> HIDE DEF cut
    <3> QED
      BY Zenon, <3>5, <3>6, <3>7, <3>8 DEF Packed
  <2>7. Packed(cut, 0)'
    BY Zenon, <2>1, <2>2, <2>5, <2>6, InputsStay DEF Packed
  <2>8. listings' # <<>> /\ ~ExceedsTextLimits(Header)'
    BY <1>3, <2>2 DEF ExceedsTextLimits, Begin
  <2>9. current'.books = <<>> /\ blocks' = 0
    BY <1>1, <2>1 DEF Text
  <2> HIDE DEF cut
  <2>10. Packing'
    BY <2>7, <2>8, <2>9 DEF Packing
  <2> QED
    BY <2>1, <2>3, <2>10, OtherStep DEF Beginning
<1> QED
  BY <1>2, <1>3

\* A listing joins the message that grows, or starts the next one.
LEMMA AppendBookStep ==
    ASSUME IInv, AppendBook
    PROVE  IInv'
<1>1. TypeOK /\ pc = "listing" /\ next \in Sends /\ next' = next + 1 /\ UNCHANGED <<inputs, pc>>
  BY DEF IInv, AppendBook, Sends
<1>2. UNCHANGED inputs /\ listings' = listings /\ failures' = failures /\ limit' = limit /\ pc' = pc
  BY <1>1 DEF inputs
<1>3. PICK cut, a : Packed(cut, a)
  BY <1>1 DEF IInv, Packing
<1>4. PICK n \in Nat : n = Len(chunks)
  BY <1>1, <1>3, CurrentIs
<1>5. PICK here \in Nat : here = Handled
  BY <1>1, HandledGrows, SendableIs
<1>6. PICK there \in Nat : there = here + 1
  OBVIOUS
<1>7. PICK p : p = Part(Sendable, a, here)
  OBVIOUS
<1>8. PICK q : q = Part(Sendable, a, there)
  OBVIOUS
<1>9. /\ DOMAIN chunks = 1..n /\ a \in 0..Len(Sendable) /\ a <= here /\ Len(Sendable) \in Nat
      /\ cut \in [0..n -> 0..Len(Sendable)] /\ cut[n] = a
      /\ current.books = p /\ p \in Seq(Nat) /\ Len(p) = here - a /\ (p = <<>> <=> a = here)
      /\ (chunks = <<>> <=> n = 0) /\ (chunks # <<>> => p # <<>>)
  BY <1>1, <1>3, <1>4, <1>5, <1>7, CurrentIs
<1>10. /\ there <= Len(Sendable) /\ there \in 1..Len(Sendable) /\ Sendable[there] = next
       /\ Sendable \in Seq(Nat) /\ next \in 1..Len(listings) /\ Len(listings) \in Nat
       /\ Rank(Sends, next + 1) = there
  <2>1. /\ Handled + 1 <= Len(Sendable) /\ Sendable[Handled + 1] = next
        /\ next <= Len(listings) => Rank(Sends, next + 1) = Handled + 1
    BY <1>1, HandledGrows
  <2>2. next \in 1..Len(listings) /\ Len(listings) \in Nat
    BY <1>1, SendableIs
  <2> QED
    BY <1>1, <1>5, <1>6, <2>1, <2>2, SendableIs
<1>11. Handled' = there
  BY <1>1, <1>2, <1>10, InputsStay DEF Handled
<1>12. /\ q = Append(p, next) /\ q \in Seq(Nat) /\ Len(q) = there - a /\ q # <<>>
  <2>1. a \in Nat /\ a <= there /\ a < there /\ here <= Len(Sendable)
    BY <1>6, <1>9, <1>10
  <2>2. Joined(Part(Sendable, a, here), Sendable[there], Part(Sendable, a, there))
    BY <1>6, <1>9, <1>10, <2>1, PartsOf
  <2>3. q = Append(p, next)
    BY Zenon, <1>7, <1>8, <1>10, <2>2 DEF Joined
  <2>4. /\ Part(Sendable, a, there) \in Seq(Nat) /\ Len(Part(Sendable, a, there)) = there - a
        /\ Part(Sendable, a, there) # <<>>
    BY <1>10, <2>1, PartsOf
  <2> QED
    BY Zenon, <1>8, <2>3, <2>4
<1>13. PICK h \in BOOLEAN : h = (chunks = <<>>)
  OBVIOUS
<1>14. current = Text(h, p, "none")
  BY Zenon, <1>3, <1>5, <1>7, <1>13 DEF Packed
<1>15. PICK grown : grown = Text(h, q, "none")
  OBVIOUS
<1>16. [current EXCEPT !.books = Append(@, next)] = grown
  <2>1. \A books : [current EXCEPT !.books = books] = Text(h, books, "none")
    BY <1>14 DEF Text
  <2> QED
    BY Zenon, <1>9, <1>12, <1>15, <2>1
<1>17. PICK candidate : candidate = blocks + IF current.books # <<>> THEN 2 ELSE 1
  OBVIOUS
<1>18. IF p = <<>> THEN blocks = 0 ELSE Fits(current) /\ blocks = Blocks(current)
  BY <1>1, <1>9 DEF IInv, Packing
<1>19. candidate = Blocks(grown)
  <2>1. Blocks(grown) = 2 * Len(q) - 1
    <3>1. grown.books = q /\ grown.closing = "none"
      BY <1>15 DEF Text
    <3>2. Len(q) \in Nat /\ Len(q) # 0
      BY <1>6, <1>9, <1>12
    <3> QED
      BY <3>1, <3>2 DEF Blocks
  <2>2. CASE p = <<>>
    BY <1>6, <1>9, <1>12, <1>17, <1>18, <2>1, <2>2
  <2>3. CASE p # <<>>
    <3>1. Blocks(current) = 2 * Len(p) - 1
      BY <1>9, <1>14, <2>3 DEF Blocks, Text
    <3> QED
      BY <1>6, <1>9, <1>12, <1>17, <1>18, <2>1, <2>3, <3>1
  <2> QED
    BY <2>2, <2>3
<1>20. candidate \in Nat /\ BlockLimit \in Nat \ {0}
  BY <1>17, ChunkingAssumption DEF IInv, TypeOK
<1>21. ChunkExceedsLimits(candidate, grown) <=> ~Fits(grown)
  BY <1>19, <1>20 DEF ChunkExceedsLimits, Fits
<1>22. IF ChunkExceedsLimits(candidate, grown)
       THEN /\ chunks' = Append(chunks, current)
            /\ current' = Text(FALSE, <<next>>, "none")
            /\ blocks' = 1
       ELSE current' = grown /\ blocks' = candidate /\ UNCHANGED chunks
  BY Zenon, <1>16, <1>17 DEF AppendBook
<1>23. listings' \in Seq(Sizes) /\ failures' \in BOOLEAN /\ limit' \in Limits /\ pc' = "listing"
       /\ next' \in 1..Len(listings') + 1
  BY <1>1, <1>2, <1>10 DEF TypeOK
<1>24. listings' # <<>> /\ ~ExceedsTextLimits(Header)' /\ ~ExceedsTextLimits(Header)
  BY <1>1, <1>2 DEF IInv, Packing, ExceedsTextLimits
<1>25. CASE Fits(grown)
  <2>1. current' = grown /\ blocks' = candidate /\ chunks' = chunks
    BY <1>21, <1>22, <1>25
  <2>2. TypeOK'
    <3>1. grown \in Chunk
      BY <1>12, <1>15 DEF Text, Chunk
    <3>2. candidate \in 0..BlockLimit
      BY <1>19, <1>20, <1>25 DEF Fits
    <3> QED
      BY <1>1, <1>23, <2>1, <3>1, <3>2 DEF TypeOK
  <2>3. Packed(cut, a)'
    <3>1. /\ Cut(cut, Len(chunks)) /\ a = cut[Len(chunks)]
          /\ \A i \in 1..Len(chunks) : Complete(chunks[i], i, cut[i-1], cut[i])
      BY Zenon, <1>3 DEF Packed
    <3>2. current' = Text(chunks = <<>>, Part(Sendable, a, there), "none")
      BY Zenon, <1>8, <1>13, <1>15, <2>1
    <3>3. a <= there /\ (chunks # <<>> => a < there)
      BY <1>6, <1>9
    <3>4. (Cut(cut, Len(chunks)))' /\ (\A i \in 1..Len(chunks) : Complete(chunks[i], i, cut[i-1], cut[i]))'
      BY Zenon, <1>2, <2>1, <3>1, InputsStay
    <3>5. Sendable' = Sendable
      BY <1>2, InputsStay
    <3> QED
      BY Zenon, <1>11, <2>1, <3>1, <3>2, <3>3, <3>4, <3>5 DEF Packed
  <2>4. current'.books # <<>> /\ Fits(current)' /\ blocks' = Blocks(current)'
    <3>1. current'.books = q
      BY <1>15, <2>1 DEF Text
    <3>2. Fits(current)'
      BY Zenon, <1>2, <1>25, <2>1, InputsStay
    <3> QED
      BY Zenon, <1>12, <1>19, <2>1, <3>1, <3>2
  <2>5. Packing'
    BY Zenon, <1>24, <2>3, <2>4 DEF Packing
  <2> QED
    BY <1>23, <2>2, <2>5, OtherStep DEF Beginning
<1>26. CASE ~Fits(grown)
  <2>1. current' = Text(FALSE, <<next>>, "none") /\ blocks' = 1 /\ chunks' = Append(chunks, current)
    BY <1>21, <1>22, <1>26
  <2>2. TypeOK'
    <3>1. <<next>> \in Seq(Nat)
      BY <1>10
    <3>2. current' \in Chunk
      BY <2>1, <3>1 DEF Text, Chunk
    <3>3. chunks' \in Seq(Chunk)
      BY <1>1, <2>1, AppendProperties DEF TypeOK
    <3>4. blocks' \in 0..BlockLimit
      BY <1>20, <2>1
    <3> QED
      BY <1>23, <3>2, <3>3, <3>4 DEF TypeOK
  <2>3. Fits(current)
    <3>1. CASE p = <<>>
      <4>1. h = TRUE
        BY <1>9, <1>13, <3>1
      <4>2. current = Text(TRUE, <<>>, "none")
        BY Zenon, <1>14, <3>1, <4>1
      <4>3. Blocks(current) = 1
        BY <1>9, <3>1, <4>2 DEF Blocks, Text
      <4>4. ~ExceedsTextLimits(TextSize(current))
        BY Zenon, <1>24, <4>2, ShortTexts
      <4> QED
        BY <1>20, <4>3, <4>4 DEF Fits
    <3>2. CASE p # <<>>
      BY <1>18, <3>2
    <3> QED
      BY <3>1, <3>2
  <2>4. PICK m \in Nat : m = n + 1
    OBVIOUS
  <2>5. /\ Len(chunks') = m /\ chunks'[m] = current /\ \A i \in 1..n : chunks'[i] = chunks[i]
        /\ chunks' # <<>>
    <3>1. chunks \in Seq(Chunk) /\ current \in Chunk
      BY <1>1 DEF TypeOK
    <3> QED
      BY <1>4, <2>1, <2>4, <3>1, AppendProperties
  <2> DEFINE more == [i \in 0..m |-> IF i = m THEN here ELSE cut[i]]
  <2>6. /\ more \in [0..m -> 0..Len(Sendable)] /\ more[m] = here /\ \A i \in 0..n : more[i] = cut[i]
    <3>3. \A i \in 0..m : i # m => i \in 0..n
      BY <2>4
    <3>4. here \in 0..Len(Sendable) /\ m \in 0..m
      BY <1>6, <1>9, <1>10
    <3>1. here \in 0..Len(Sendable) /\ m \in 0..m /\ \A i \in 0..m : i # m => cut[i] \in 0..Len(Sendable)
      BY <1>9, <3>3, <3>4
    <3>2. \A i \in 0..n : i # m /\ i \in 0..m
      BY <2>4
    <3> QED
      BY <3>1, <3>2
  <2> HIDE DEF more
  <2>7. Cut(more, m)
    <3>1. Cut(cut, n)
      BY Zenon, <1>3, <1>4 DEF Packed
    <3>2. more[0] = 0
      BY <2>6, <3>1 DEF Cut
    <3>3. ASSUME NEW i \in 1..m PROVE more[i-1] <= more[i] /\ (i > 1 => more[i-1] < more[i])
      <4>1. CASE i = m
        <5>1. i - 1 = n /\ n \in 0..n
          BY <2>4, <4>1
        <5>2. more[i-1] = a /\ more[i] = here
          BY <1>9, <2>6, <4>1, <5>1
        <5>3. i > 1 => a < here
          <6>1. a \in Nat
            BY <1>9
          <6> QED
            BY <1>9, <4>1, <2>4, <6>1
        <5> QED
          BY <1>9, <5>2, <5>3
      <4>2. CASE i # m
        <5>1. i \in 1..n /\ i - 1 \in 0..n /\ i \in 0..n
          BY <2>4, <4>2
        <5>2. more[i-1] = cut[i-1] /\ more[i] = cut[i]
          BY <2>6, <5>1
        <5> QED
          BY <3>1, <5>1, <5>2 DEF Cut
      <4> QED
        BY <4>1, <4>2
    <3> QED
      BY <2>6, <3>2, <3>3 DEF Cut
  <2>8. ASSUME NEW i \in 1..m PROVE Complete(chunks'[i], i, more[i-1], more[i])
    <3>1. CASE i = m
      <4>1. i - 1 = n /\ n \in 0..n
        BY <2>4, <3>1
      <4>2. more[i-1] = a /\ more[i] = here /\ chunks'[i] = current
        BY <1>9, <2>5, <2>6, <3>1, <4>1
      <4>3. (i = 1) = h
        BY <1>9, <1>13, <2>4, <3>1
      <4>4. current = Text(i = 1, Part(Sendable, a, here), "none")
        BY Zenon, <1>7, <1>14, <4>3
      <4>5. here < Len(Sendable) /\ here + 1 = there
        BY <1>6, <1>9, <1>10
      <4>6. Full(i = 1, a, there)
        BY Zenon, <1>8, <1>15, <1>26, <4>3 DEF Full
      <4> QED
        BY Zenon, <2>3, <4>2, <4>4, <4>5, <4>6 DEF Complete
    <3>2. CASE i # m
      <4>1. i \in 1..n /\ i - 1 \in 0..n /\ i \in 0..n
        BY <2>4, <3>2
      <4>2. more[i-1] = cut[i-1] /\ more[i] = cut[i] /\ chunks'[i] = chunks[i]
        BY <2>5, <2>6, <4>1
      <4>3. Complete(chunks[i], i, cut[i-1], cut[i])
        BY Zenon, <1>3, <1>4, <4>1 DEF Packed
      <4> QED
        BY Zenon, <4>2, <4>3
    <3> QED
      BY <3>1, <3>2
  <2>9. Part(Sendable, here, there) = <<next>>
    <3>1. PICK e : e = Part(Sendable, here, here)
      OBVIOUS
    <3>2. PICK f : f = Part(Sendable, here, there)
      OBVIOUS
    <3>3. here <= Len(Sendable) /\ here <= here /\ ~(here < here)
      BY <1>6, <1>9, <1>10
    <3>6. /\ ~(Part(Sendable, here, here) # <<>>)
          /\ Joined(Part(Sendable, here, here), Sendable[there], Part(Sendable, here, there))
      BY <1>6, <1>10, <3>3, PartsOf
    <3>4. e = <<>> /\ Joined(e, Sendable[there], f)
      BY Zenon, <3>1, <3>2, <3>6
    <3>5. f = Append(<<>>, next)
      BY <1>10, <3>4 DEF Joined
    <3> QED
      BY <3>2, <3>5
  <2>10. Packed(more, here)'
    <3>1. current' = Text(chunks' = <<>>, Part(Sendable, here, there), "none")
      <4>1. (chunks' = <<>>) = FALSE
        BY <2>5
      <4> QED
        BY Zenon, <2>1, <2>9, <4>1
    <3>2. here <= there /\ here < there
      BY <1>6
    <3>3. (Cut(more, m))' /\ \A i \in 1..m : (Complete(chunks[i], i, more[i-1], more[i]))'
      BY Zenon, <1>2, <2>7, <2>8, InputsStay
    <3>4. Sendable' = Sendable
      BY <1>2, InputsStay
    <3> QED
      BY Zenon, <1>11, <2>5, <2>6, <3>1, <3>2, <3>3, <3>4 DEF Packed
  <2>11. current'.books # <<>> /\ Fits(current)' /\ blocks' = Blocks(current)'
    <3>1. PICK one : one = <<next>>
      OBVIOUS
    <3>2. one # <<>> /\ Len(one) = 1
      BY <3>1
    <3>6. PICK c : c = current'
      OBVIOUS
    <3>3. c.books = one /\ c.closing = "none"
      <4>1. c = Text(FALSE, one, "none")
        BY Zenon, <2>1, <3>1, <3>6
      <4> QED
        BY <4>1 DEF Text
    <3>4. Blocks(c) = 1
      <4>1. Len(c.books) = 1 /\ c.closing = "none"
        BY Zenon, <3>2, <3>3
      <4> QED
        BY <4>1 DEF Blocks
    <3>5. ~ExceedsTextLimits(TextSize(current'))
      <4>1. listings[next] \in Size /\ ~ExceedsTextLimits(listings[next]) /\ next \in Nat
        BY <1>1, <1>10, SendableIs
      <4>2. TextSize(Text(FALSE, <<next>>, "none")) = listings[next]
        BY <4>1, ShortTexts
      <4> QED
        BY Zenon, <2>1, <4>1, <4>2
    <3>7. Fits(c)
      <4>1. 1 <= BlockLimit
        BY <1>20
      <4> QED
        BY Zenon, <3>4, <3>5, <3>6, <4>1 DEF Fits
    <3>8. Fits(c)'
      BY Zenon, <1>2, <3>7, InputsStay
    <3> QED
      BY Zenon, <2>1, <3>2, <3>3, <3>4, <3>6, <3>8
  <2>12. Packing'
    BY Zenon, <1>24, <2>10, <2>11 DEF Packing
  <2> QED
    BY <1>23, <2>2, <2>12, OtherStep DEF Beginning
<1> QED
  BY <1>25, <1>26
\* A message without listings is one block.
LEMMA OneBlock ==
    ASSUME NEW h, NEW closing
    PROVE  Blocks(Text(h, <<>>, closing)) = 1
<1>1. PICK e : e = <<>>
  OBVIOUS
<1>2. Len(e) = 0
  BY <1>1
<1>3. PICK c : c = Text(h, e, closing)
  OBVIOUS
<1>4. c.books = e /\ c.closing = closing
  BY <1>3 DEF Text
<1>5. Blocks(c) = 1
  BY <1>2, <1>4 DEF Blocks
<1> QED
  BY Zenon, <1>1, <1>3, <1>5

\* The messages that are always possible: a header, and a summary or a
\* notification that keeps the limits of a text.
LEMMA ShortMessages ==
    ASSUME NEW h \in BOOLEAN
    PROVE  /\ \A closing \in {"none", "summary", "notice"} : Text(h, <<>>, closing) \in Chunk
           /\ ~ExceedsTextLimits(Header) => Fits(Text(TRUE, <<>>, "none"))
           /\ ~ExceedsTextLimits(Summary) => Fits(Text(FALSE, <<>>, "summary"))
           /\ ~ExceedsTextLimits(Notice) => Fits(Text(FALSE, <<>>, "notice"))
           /\ ~ChunkExceedsLimits(1, Text(TRUE, <<>>, "summary")) <=> Fits(Text(TRUE, <<>>, "summary"))
<1>1. \A closing \in {"none", "summary", "notice"} : Text(h, <<>>, closing) \in Chunk
  BY DEF Text, Chunk
<1>2. 1 <= BlockLimit /\ ~(1 > BlockLimit)
  BY ChunkingAssumption
<1>3. /\ Blocks(Text(TRUE, <<>>, "none")) <= BlockLimit /\ Blocks(Text(FALSE, <<>>, "summary")) <= BlockLimit
      /\ Blocks(Text(FALSE, <<>>, "notice")) <= BlockLimit /\ Blocks(Text(TRUE, <<>>, "summary")) <= BlockLimit
  BY Zenon, <1>2, OneBlock
<1>4. /\ ~ExceedsTextLimits(Header) => Fits(Text(TRUE, <<>>, "none"))
      /\ ~ExceedsTextLimits(Summary) => Fits(Text(FALSE, <<>>, "summary"))
      /\ ~ExceedsTextLimits(Notice) => Fits(Text(FALSE, <<>>, "notice"))
  BY Zenon, <1>3, ShortTexts DEF Fits
<1>5. ~ChunkExceedsLimits(1, Text(TRUE, <<>>, "summary")) <=> Fits(Text(TRUE, <<>>, "summary"))
  BY Zenon, <1>2, <1>3 DEF Fits, ChunkExceedsLimits
<1> QED
  BY Zenon, <1>1, <1>4, <1>5

\* Rejecting the digest keeps the invariant.
LEMMA RejectStep ==
    ASSUME IInv, Reject
    PROVE  IInv'
<1>1. /\ pc' = "rejected" /\ chunks' = <<>> /\ UNCHANGED <<inputs, next, current, blocks>>
  BY DEF Reject
<1>2. TypeOK'
  BY <1>1 DEF IInv, TypeOK, inputs
<1> QED
  BY <1>1, <1>2, OtherStep DEF Beginning, Packing

\* Without a listing to send, the messages carry none.
LEMMA NoListingsCarried ==
    ASSUME TypeOK, Len(Sendable) = 0, NEW n \in {1, 2}, NEW msgs, DOMAIN msgs = 1..n,
           \A i \in 1..n : msgs[i].books = <<>>
    PROVE  /\ Carrying(msgs)
           /\ Part(Sendable, 0, 0) = <<>>
<1>1. Sendable \in Seq(Nat) /\ Len(Sendable) \in Nat
  BY SendableIs
<1>2. Part(Sendable, 0, 0) = <<>>
  <2>1. 0 \in Nat /\ 0 <= 0 /\ 0 <= Len(Sendable) /\ ~(0 < 0)
    BY <1>1
  <2> QED
    BY Zenon, <1>1, <2>1, PartsOf
<1> DEFINE cut == [i \in 0..n |-> 0]
<1>3. /\ cut \in [0..n -> 0..Len(Sendable)] /\ cut[0] = 0 /\ cut[n] = Len(Sendable)
      /\ \A i \in 1..n : cut[i-1] = 0 /\ cut[i] = 0 /\ i \in {1, n}
  OBVIOUS
<1> HIDE DEF cut
<1>4. \A i \in 1..n : cut[i-1] < cut[i] \/ (cut[i-1] = cut[i] /\ i \in {1, n})
  BY <1>3
<1>5. \A i \in 1..n : msgs[i].books = Part(Sendable, cut[i-1], cut[i])
  BY Zenon, <1>2, <1>3
<1>6. n \in Nat \ {0}
  OBVIOUS
<1>7. Carrying(msgs)
  <2>1. CutOfAll(cut, n)
    BY Zenon, <1>3, <1>4 DEF CutOfAll
  <2>2. CutLike(msgs, cut, n)
    BY Zenon, <1>5 DEF CutLike
  <2> QED
    BY Zenon, <1>6, <2>1, <2>2, CutIsChunking
<1> QED
  BY <1>2, <1>7

\* A notification that there is nothing new.
LEMMA NothingToSendStep ==
    ASSUME IInv, NothingToSend
    PROVE  IInv'
<1>1. TypeOK /\ listings = <<>> /\ ~failures
  BY DEF IInv, NothingToSend
<1>2. CASE ExceedsTextLimits(Notice)
  BY <1>2, RejectStep DEF NothingToSend
<1>3. CASE ~ExceedsTextLimits(Notice)
  <2>1. PICK message : message = Text(FALSE, <<>>, "notice")
    OBVIOUS
  <2>2. PICK msgs : msgs = <<message>>
    OBVIOUS
  <2>3. Return(msgs)
    BY Zenon, <1>3, <2>1, <2>2 DEF NothingToSend
  <2>4. message \in Chunk /\ Fits(message)
    BY Zenon, <1>3, <2>1, ShortMessages
  <2>5. message.books = <<>> /\ message.closing = "notice"
    BY <2>1 DEF Text
  <2>6. /\ msgs \in Seq(Chunk) /\ DOMAIN msgs = 1..1 /\ \A i \in 1..1 : msgs[i] = message
    BY <2>2, <2>4
  <2>7. Skipped = {}
    BY <1>1 DEF Skipped
  <2>8. Len(Sendable) = 0
    <3>1. DOMAIN listings = {}
      BY <1>1
    <3>2. Sends = {}
      BY Zenon, <3>1 DEF Sends
    <3> QED
      BY <1>1, <3>2, SendableIs, FS_EmptySet
  <2>9. Carrying(msgs)
    <3>1. \A i \in 1..1 : msgs[i].books = <<>>
      BY Zenon, <2>5, <2>6
    <3> QED
      BY <1>1, <2>6, <2>8, <3>1, NoListingsCarried
  <2>10. Result(msgs)
    BY Zenon, <1>1, <2>4, <2>5, <2>6, <2>7, <2>9 DEF Result, Carrying
  <2> QED
    BY <2>3, <2>6, <2>10, ReturnStep
<1> QED
  BY <1>2, <1>3

\* No listing can be sent exactly when every one is skipped.
LEMMA NoneSendable ==
    ASSUME TypeOK, Len(Sendable) = 0
    PROVE  Skipped = DOMAIN listings
<1>1. /\ Sends \in SUBSET (1..Len(listings)) /\ Cardinality(Sends) = 0 /\ Len(listings) \in Nat
  BY SendableIs
<1>2. IsFiniteSet(Sends)
  <2>1. IsFiniteSet(1..Len(listings))
    BY <1>1, FS_Interval
  <2> QED
    BY Zenon, <1>1, <2>1, FS_Subset
<1>3. Sends = {}
  BY <1>1, <1>2, FS_EmptySet
<1> QED
  BY Zenon, <1>3 DEF Sends, Skipped

\* A message that tells only of failures.
LEMMA SummaryOnlyStep ==
    ASSUME IInv, SummaryOnly
    PROVE  IInv'
<1>1. TypeOK
  BY DEF IInv
<1>2. Len(Sendable) = 0 /\ (failures \/ Skipped # {})
  <2>1. CASE pc = "begin" /\ listings = <<>> /\ failures
    <3>1. DOMAIN listings = {}
      BY <2>1
    <3>2. Sends = {}
      BY Zenon, <3>1 DEF Sends
    <3> QED
      BY <1>1, <2>1, <3>2, SendableIs, FS_EmptySet
  <2>2. CASE Listed /\ current.books = <<>>
    <3>1. pc = "listing" /\ next > Len(listings)
      BY <2>2 DEF Listed
    <3>2. PICK cut, a : Packed(cut, a)
      BY <3>1 DEF IInv, Packing
    <3>3. Handled = Len(Sendable)
      BY <1>1, <3>1, HandledGrows
    <3>4. a = Handled /\ Len(chunks) = 0 /\ cut[Len(chunks)] = a
      BY <1>1, <2>2, <3>2, CurrentIs
    <3>5. cut[0] = 0
      BY <3>2 DEF Packed, Cut
    <3>6. Len(Sendable) = 0
      BY <3>3, <3>4, <3>5
    <3>7. listings # <<>>
      BY <3>1 DEF IInv, Packing
    <3>8. DOMAIN listings # {}
      <4>1. Len(listings) \in Nat /\ DOMAIN listings = 1..Len(listings) /\ Len(listings) # 0
        BY <1>1, <3>7, LenProperties DEF TypeOK
      <4> QED
        BY <4>1
    <3> QED
      BY <1>1, <3>6, <3>8, NoneSendable
  <2> QED
    BY <2>1, <2>2 DEF SummaryOnly
<1>3. Closing = "summary"
  BY <1>2 DEF Closing
<1>4. PICK both : both = Text(TRUE, <<>>, "summary")
  OBVIOUS
<1>5. PICK header : header = Text(TRUE, <<>>, "none")
  OBVIOUS
<1>6. PICK summary : summary = Text(FALSE, <<>>, "summary")
  OBVIOUS
<1>7. /\ both \in Chunk /\ header \in Chunk /\ summary \in Chunk
      /\ both.books = <<>> /\ header.books = <<>> /\ summary.books = <<>>
      /\ both.closing = "summary" /\ header.closing = "none" /\ summary.closing = "summary"
  <2>1. both \in Chunk /\ header \in Chunk /\ summary \in Chunk
    BY Zenon, <1>4, <1>5, <1>6, ShortMessages
  <2>2. both.books = <<>> /\ both.closing = "summary"
    BY <1>4 DEF Text
  <2>3. header.books = <<>> /\ header.closing = "none"
    BY <1>5 DEF Text
  <2>4. summary.books = <<>> /\ summary.closing = "summary"
    BY <1>6 DEF Text
  <2> QED
    BY <2>1, <2>2, <2>3, <2>4
<1>8. ASSUME NEW other \in Alternatives, \A i \in DOMAIN other : Fits(other[i])
      PROVE  Len(other) \in Nat /\ 1 <= Len(other) /\ (Len(other) = 1 => Fits(both))
  <2>1. PICK n \in Nat \ {0} : \E cut \in [0..n -> 0..Len(Sendable)] :
              /\ Len(other) = n /\ cut[0] = 0 /\ cut[n] = Len(Sendable)
              /\ \A i \in 1..n :
                    /\ cut[i-1] <= cut[i]
                    /\ Fits(Text(i = 1, Part(Sendable, cut[i-1], cut[i]), IF i = n THEN Closing ELSE "none"))
    BY Zenon, <1>1, <1>8, AlternativeIs
  <2>2. PICK cut \in [0..n -> 0..Len(Sendable)] :
              /\ Len(other) = n /\ cut[0] = 0 /\ cut[n] = Len(Sendable)
              /\ \A i \in 1..n :
                    Fits(Text(i = 1, Part(Sendable, cut[i-1], cut[i]), IF i = n THEN Closing ELSE "none"))
    BY Zenon, <2>1
  <2>3. ASSUME n = 1 PROVE Fits(both)
    <3>1. PICK one : one = 1
      OBVIOUS
    <3>2. one \in 1..n /\ one - 1 = 0 /\ cut[one] = 0 /\ cut[0] = 0 /\ (one = 1) = TRUE
      BY <1>2, <2>2, <2>3, <3>1
    <3>3. Fits(Text(one = 1, Part(Sendable, cut[one-1], cut[one]), IF one = n THEN Closing ELSE "none"))
      BY Zenon, <2>2, <3>2
    <3>4. (IF one = n THEN Closing ELSE "none") = "summary"
      BY Zenon, <1>3, <2>3, <3>1
    <3>5. Part(Sendable, 0, 0) = <<>>
      <4>1. Sendable \in Seq(Nat) /\ 0 \in Nat /\ 0 <= 0 /\ 0 <= Len(Sendable) /\ ~(0 < 0)
        BY <1>1, <1>2, SendableIs
      <4> QED
        BY Zenon, <4>1, PartsOf
    <3> QED
      BY Zenon, <1>4, <3>2, <3>3, <3>4, <3>5
  <2> QED
    BY <2>2, <2>3
<1>9. CASE ExceedsTextLimits(Summary)
  BY Zenon, <1>9, RejectStep DEF SummaryOnly
<1>10. CASE ~ExceedsTextLimits(Summary) /\ Fits(both)
  <2>1. PICK msgs : msgs = <<both>>
    OBVIOUS
  <2>2. ~ChunkExceedsLimits(1, both)
    BY Zenon, <1>4, <1>10, ShortMessages
  <2>3. Return(msgs)
    BY Zenon, <1>4, <1>10, <2>1, <2>2 DEF SummaryOnly
  <2>4. msgs \in Seq(Chunk) /\ DOMAIN msgs = 1..1 /\ Len(msgs) = 1 /\ \A i \in 1..1 : msgs[i] = both /\ i = 1
    BY <1>7, <2>1
  <2>5. Carrying(msgs)
    <3>1. \A i \in 1..1 : msgs[i].books = <<>>
      BY Zenon, <1>7, <2>4
    <3> QED
      BY <1>1, <1>2, <2>4, <3>1, NoListingsCarried
  <2>6. \A i \in DOMAIN msgs : Fits(msgs[i])
    BY Zenon, <1>10, <2>4
  <2>7. \A i \in DOMAIN msgs :
           msgs[i].closing = "summary" <=> i = Len(msgs) /\ (failures \/ Skipped # {})
    BY Zenon, <1>2, <1>7, <2>4
  <2>8. \A other \in Alternatives :
           (\A i \in DOMAIN other : Fits(other[i])) => Len(msgs) <= Len(other)
    BY Zenon, <1>8, <2>4
  <2>9. Result(msgs)
    BY Zenon, <2>5, <2>6, <2>7, <2>8 DEF Result, Carrying
  <2> QED
    BY <2>3, <2>4, <2>9, ReturnStep
<1>11. CASE ~ExceedsTextLimits(Summary) /\ ~Fits(both)
  <2>1. PICK msgs : msgs = <<header, summary>>
    OBVIOUS
  <2>2. ChunkExceedsLimits(1, both)
    BY Zenon, <1>4, <1>11, ShortMessages
  <2>3. CASE ExceedsTextLimits(Header)
    BY Zenon, <1>4, <1>11, <2>2, <2>3, RejectStep DEF SummaryOnly
  <2>4. CASE ~ExceedsTextLimits(Header)
    <3>1. Return(msgs)
      BY Zenon, <1>4, <1>5, <1>6, <1>11, <2>1, <2>2, <2>4 DEF SummaryOnly
    <3>2. /\ msgs \in Seq(Chunk) /\ DOMAIN msgs = 1..2 /\ Len(msgs) = 2
          /\ \A i \in 1..2 : (msgs[i] = header /\ i # 2) \/ (msgs[i] = summary /\ i = 2)
      BY <1>7, <2>1
    <3>3. Carrying(msgs)
      <4>1. \A i \in 1..2 : msgs[i].books = <<>>
        BY Zenon, <1>7, <3>2
      <4> QED
        BY <1>1, <1>2, <3>2, <4>1, NoListingsCarried
    <3>4. Fits(header) /\ Fits(summary)
      BY Zenon, <1>5, <1>6, <1>11, <2>4, ShortMessages
    <3>5. \A i \in DOMAIN msgs : Fits(msgs[i])
      BY Zenon, <3>2, <3>4
    <3>6. "none" # "summary"
      OBVIOUS
    <3>7. \A i \in DOMAIN msgs :
             msgs[i].closing = "summary" <=> i = Len(msgs) /\ (failures \/ Skipped # {})
      BY Zenon, <1>2, <1>7, <3>2, <3>6
    <3>8. ASSUME NEW other \in Alternatives, \A i \in DOMAIN other : Fits(other[i])
          PROVE  Len(msgs) <= Len(other)
      <4>1. Len(other) \in Nat /\ 1 <= Len(other) /\ Len(other) # 1
        BY Zenon, <1>8, <1>11, <3>8
      <4>2. 2 <= Len(other)
        <5>1. PICK k \in Nat : k = Len(other) /\ 1 <= k /\ k # 1
          BY Zenon, <4>1
        <5>2. 2 <= k
          BY <5>1
        <5> QED
          BY Zenon, <5>1, <5>2
      <4> QED
        BY Zenon, <3>2, <4>2
    <3>9. Result(msgs)
      BY Zenon, <3>3, <3>5, <3>7, <3>8 DEF Result, Carrying
    <3> QED
      BY <3>1, <3>2, <3>9, ReturnStep
  <2> QED
    BY <2>3, <2>4
<1> QED
  BY <1>9, <1>10, <1>11

\* No other way to send the digest ends with the complete messages: it needs
\* one more, and if one is enough, that one takes all that is left.
LEMMA OtherWaysNeed ==
    ASSUME TypeOK, NEW cut, NEW a, Packed(cut, a),
           NEW other \in Alternatives, \A i \in DOMAIN other : Fits(other[i])
    PROVE  /\ Len(other) \in Nat /\ Len(chunks) + 1 <= Len(other)
           /\ Len(other) = Len(chunks) + 1 =>
                 \E w \in 0..Len(Sendable) :
                    w <= a /\ Fits(Text(chunks = <<>>, Part(Sendable, w, Len(Sendable)), Closing))
<1>1. PICK n \in Nat \ {0} : \E way \in [0..n -> 0..Len(Sendable)] :
            /\ Len(other) = n /\ way[0] = 0 /\ way[n] = Len(Sendable)
            /\ \A i \in 1..n :
                  /\ way[i-1] <= way[i]
                  /\ Fits(Text(i = 1, Part(Sendable, way[i-1], way[i]), IF i = n THEN Closing ELSE "none"))
  BY Zenon, AlternativeIs
<1>2. PICK way \in [0..n -> 0..Len(Sendable)] :
            /\ Len(other) = n /\ way[0] = 0 /\ way[n] = Len(Sendable)
            /\ \A i \in 1..n :
                  /\ way[i-1] <= way[i]
                  /\ Fits(Text(i = 1, Part(Sendable, way[i-1], way[i]), IF i = n THEN Closing ELSE "none"))
  BY Zenon, <1>1
<1>3. PICK m \in Nat : m = Len(chunks)
  BY CurrentIs
<1>4. Cut(cut, m) /\ cut[m] = a /\ \A i \in 1..m : Complete(chunks[i], i, cut[i-1], cut[i])
  BY Zenon, <1>3 DEF Packed
<1>5. \A i \in 1..m : cut[i] < Len(Sendable) /\ Full(i = 1, cut[i-1], cut[i] + 1)
  BY Zenon, <1>4 DEF Complete
<1>6. Closing \in {"none", "summary"}
  BY DEF Closing
<1>7. m < n /\ way[m] <= cut[m]
  <2>1. PICK closing \in {"none", "summary"} : closing = Closing
    BY <1>6
  <2>2. \A i \in 1..n :
           /\ way[i-1] <= way[i]
           /\ Fits(Text(i = 1, Part(Sendable, way[i-1], way[i]), IF i = n THEN closing ELSE "none"))
    BY Zenon, <1>2, <2>1
  <2> HIDE <1>1
  <2> QED
    BY <1>2, <1>4, <1>5, <2>2, GreedyIsAhead, ZenonT(40)
<1>8. ASSUME n = m + 1
      PROVE  \E w \in 0..Len(Sendable) :
                w <= a /\ Fits(Text(chunks = <<>>, Part(Sendable, w, Len(Sendable)), Closing))
  <2>1. n \in 1..n /\ n - 1 = m /\ m \in 0..n
    BY <1>8
  <2>2. (n = 1) <=> (chunks = <<>>)
    <3>1. chunks = <<>> <=> m = 0
      BY <1>3, CurrentIs
    <3> QED
      BY <1>8, <3>1
  <2>3. (n = 1) = (chunks = <<>>)
    BY <2>2
  <2>4. Fits(Text(n = 1, Part(Sendable, way[m], Len(Sendable)), Closing))
    BY Zenon, <1>2, <2>1
  <2>5. way[m] \in 0..Len(Sendable) /\ way[m] <= a
    BY Zenon, <1>2, <1>4, <1>7, <2>1
  <2> QED
    BY Zenon, <2>3, <2>4, <2>5
<1>9. m + 1 <= n
  BY <1>7
<1> QED
  BY Zenon, <1>2, <1>3, <1>8, <1>9

\* The complete messages, the one that grew, and perhaps a summary of its own
\* carry all listings.
LEMMA AllCarried ==
    ASSUME TypeOK, NEW cut, NEW a, Packed(cut, a), Handled = Len(Sendable), a # Handled,
           NEW m \in Nat, m = Len(chunks) + 1, NEW n \in Nat, n = m \/ n = m + 1,
           NEW msgs, DOMAIN msgs = 1..n, \A i \in DOMAIN chunks : msgs[i] = chunks[i],
           msgs[m].books = current.books, n # m => msgs[n].books = <<>>
    PROVE  /\ Carrying(msgs)
           /\ \A i \in DOMAIN chunks : Fits(chunks[i]) /\ chunks[i].closing = "none"
<1>1. PICK k \in Nat : k = Len(chunks)
  BY CurrentIs
<1>2. PICK len \in Nat : len = Len(Sendable)
  BY CurrentIs
<1>3. /\ DOMAIN chunks = 1..k /\ a \in 0..len /\ a < len /\ m = k + 1
      /\ cut \in [0..k -> 0..len] /\ cut[k] = a
      /\ current.books = Part(Sendable, a, len)
  <2>1. /\ DOMAIN chunks = 1..k /\ a \in 0..len /\ a <= Handled
        /\ cut \in [0..k -> 0..len] /\ cut[k] = a /\ current.books = Part(Sendable, a, Handled)
    BY Zenon, <1>1, <1>2, CurrentIs
  <2>2. Handled = len /\ a # len /\ m = k + 1
    BY Zenon, <1>1, <1>2
  <2> QED
    BY <2>1, <2>2
<1>4. Cut(cut, k) /\ \A i \in 1..k : Complete(chunks[i], i, cut[i-1], cut[i])
  BY Zenon, <1>1 DEF Packed
<1>6. ASSUME NEW i \in 1..k
      PROVE  /\ Fits(chunks[i]) /\ chunks[i].closing = "none"
             /\ chunks[i].books = Part(Sendable, cut[i-1], cut[i])
  <2>1. PICK h, books : h = (i = 1) /\ books = Part(Sendable, cut[i-1], cut[i])
    OBVIOUS
  <2>2. Fits(chunks[i]) /\ chunks[i] = Text(h, books, "none")
    BY Zenon, <1>4, <2>1 DEF Complete
  <2>3. chunks[i].closing = "none" /\ chunks[i].books = books
    BY <2>2 DEF Text
  <2> QED
    BY Zenon, <2>1, <2>2, <2>3
<1>5. \A i \in DOMAIN chunks : Fits(chunks[i]) /\ chunks[i].closing = "none"
  BY Zenon, <1>3, <1>6
<1> DEFINE more == [i \in 0..n |-> IF i <= k THEN cut[i] ELSE len]
<1>7. /\ more \in [0..n -> 0..len] /\ (\A i \in 0..k : more[i] = cut[i])
      /\ more[m] = len /\ more[n] = len
  <2>1. \A i \in 0..n : i <= k => i \in 0..k
    OBVIOUS
  <2>2. \A i \in 0..k : i \in 0..n /\ i <= k
    BY <1>3
  <2>3. m \in 0..n /\ n \in 0..n /\ ~(m <= k) /\ ~(n <= k)
    BY <1>3
  <2> QED
    BY <1>3, <2>1, <2>2, <2>3
<1> HIDE DEF more
<1>8. more[0] = 0
  <2>1. cut[0] = 0 /\ 0 \in 0..k
    BY <1>4 DEF Cut
  <2> QED
    BY <1>7, <2>1
<1>9. ASSUME NEW i \in 1..n
      PROVE  /\ more[i-1] < more[i] \/ (more[i-1] = more[i] /\ i \in {1, n})
             /\ msgs[i].books = Part(Sendable, more[i-1], more[i])
  <2>1. CASE i \in 1..k
    <3>1. PICK j \in 0..k : j = i - 1
      BY <2>1
    <3>2. i \in 0..k
      BY <2>1
    <3>3. more[j] = cut[j] /\ more[i] = cut[i]
      BY <1>7, <3>2
    <3>4. cut[j] <= cut[i] /\ (i > 1 => cut[j] < cut[i])
      BY <1>4, <2>1, <3>1 DEF Cut
    <3>5. cut[j] \in 0..len /\ cut[i] \in 0..len
      BY <1>3, <3>2
    <3>6. cut[j] < cut[i] \/ (cut[j] = cut[i] /\ i = 1)
      BY <3>4, <3>5
    <3>7. msgs[i].books = Part(Sendable, cut[j], cut[i])
      BY Zenon, <1>3, <1>6, <2>1, <3>1
    <3> QED
      BY Zenon, <3>1, <3>3, <3>6, <3>7
  <2>2. CASE i = m
    <3>1. i - 1 = k /\ k \in 0..k
      BY <1>3, <2>2
    <3>2. more[i-1] = a /\ more[i] = len
      BY Zenon, <1>3, <1>7, <2>2, <3>1
    <3> QED
      BY Zenon, <1>3, <2>2, <3>2
  <2>3. CASE i \notin 1..k /\ i # m
    <3>1. i = n /\ i - 1 = m /\ n # m
      BY <1>3, <2>3
    <3>2. more[i-1] = len /\ more[i] = len
      BY Zenon, <1>7, <3>1
    <3>3. Part(Sendable, len, len) = <<>>
      <4>1. Sendable \in Seq(Nat) /\ len <= len /\ len <= Len(Sendable) /\ ~(len < len)
        BY <1>2, SendableIs
      <4> QED
        BY Zenon, <4>1, PartsOf
    <3> QED
      BY Zenon, <3>1, <3>2, <3>3
  <2> QED
    BY <2>1, <2>2, <2>3
<1>10. Carrying(msgs)
  <2>1. n \in Nat \ {0} /\ DOMAIN msgs = 1..n /\ TypeOK
    BY <1>3
  <2>2. CutOfAll(more, n)
    BY Zenon, <1>2, <1>7, <1>8, <1>9 DEF CutOfAll
  <2>3. CutLike(msgs, more, n)
    BY Zenon, <1>9, <2>1 DEF CutLike
  <2> QED
    BY Zenon, <2>1, <2>2, <2>3, CutIsChunking
<1> QED
  BY <1>5, <1>10

\* The messages, with one more.
LEMMA OneMore ==
    ASSUME TypeOK, NEW last \in Chunk, NEW m \in Nat, m = Len(chunks) + 1, NEW msgs, Joined(chunks, last, msgs)
    PROVE  /\ msgs \in Seq(Chunk) /\ Len(msgs) = m /\ DOMAIN msgs = 1..m /\ m \in 1..m
           /\ msgs[m] = last /\ \A i \in DOMAIN chunks : msgs[i] = chunks[i]
           /\ \A i \in 1..m : i = m \/ (i \in DOMAIN chunks /\ i # m)
<1>1. PICK k \in Nat : k = Len(chunks) /\ DOMAIN chunks = 1..k /\ chunks \in Seq(Chunk)
  BY LenProperties DEF TypeOK
<1>2. msgs = Append(chunks, last)
  BY DEF Joined
<1>3. msgs \in Seq(Chunk) /\ Len(msgs) = m /\ msgs[m] = last /\ \A i \in 1..k : msgs[i] = chunks[i]
  BY <1>1, <1>2, AppendProperties
<1>4. DOMAIN msgs = 1..m
  BY <1>3, LenProperties
<1>5. m \in 1..m /\ \A i \in 1..m : i = m \/ (i \in 1..k /\ i # m)
  BY <1>1
<1> QED
  BY Zenon, <1>1, <1>3, <1>4, <1>5

\* A list, with two more.
JoinedTwo(s, x, y, q) == q = s \o <<x, y>>

\* The messages, with two more.
LEMMA TwoMore ==
    ASSUME TypeOK, NEW x \in Chunk, NEW y \in Chunk, NEW msgs, JoinedTwo(chunks, x, y, msgs),
           NEW m \in Nat, m = Len(chunks) + 1, NEW n \in Nat, n = m + 1
    PROVE  /\ msgs \in Seq(Chunk) /\ Len(msgs) = n /\ DOMAIN msgs = 1..n /\ n \in 1..n
           /\ msgs[m] = x /\ msgs[n] = y /\ \A i \in DOMAIN chunks : msgs[i] = chunks[i]
           /\ \A i \in 1..n : i = n \/ (i = m /\ i # n) \/ (i \in DOMAIN chunks /\ i # n)
<1>1. PICK k \in Nat : k = Len(chunks) /\ DOMAIN chunks = 1..k /\ chunks \in Seq(Chunk)
  BY LenProperties DEF TypeOK
<1>2. PICK t : t = <<x, y>>
  OBVIOUS
<1>3. t \in Seq(Chunk) /\ Len(t) = 2 /\ t[1] = x /\ t[2] = y
  BY <1>2
<1>4. msgs = chunks \o t
  BY Zenon, <1>2 DEF JoinedTwo
<1>5. /\ msgs \in Seq(Chunk) /\ Len(msgs) = n
      /\ \A i \in 1..n : msgs[i] = IF i <= k THEN chunks[i] ELSE t[i - k]
  <2>1. /\ chunks \o t \in Seq(Chunk) /\ Len(chunks \o t) = Len(chunks) + Len(t)
        /\ \A i \in 1..Len(chunks) + Len(t) : (chunks \o t)[i] = IF i <= Len(chunks) THEN chunks[i] ELSE t[i - Len(chunks)]
    BY Zenon, <1>1, <1>3, ConcatProperties
  <2>2. Len(chunks) + Len(t) = n
    BY <1>1, <1>3
  <2> QED
    BY Zenon, <1>1, <1>4, <2>1, <2>2
<1>6. /\ m \in 1..n /\ n \in 1..n /\ ~(m <= k) /\ ~(n <= k) /\ m - k = 1 /\ n - k = 2
      /\ \A i \in 1..k : i \in 1..n /\ i <= k
      /\ \A i \in 1..n : i = n \/ (i = m /\ i # n) \/ (i \in 1..k /\ i # n)
  BY <1>1
<1>7. DOMAIN msgs = 1..n
  BY <1>5, LenProperties
<1>8. msgs[m] = x /\ msgs[n] = y /\ \A i \in 1..k : msgs[i] = chunks[i]
  BY Zenon, <1>3, <1>5, <1>6
<1> QED
  BY Zenon, <1>1, <1>5, <1>6, <1>7, <1>8

\* What is known when every listing was handled, and one can be sent.
LEMMA AllHandled ==
    ASSUME IInv, Listed, current.books # <<>>
    PROVE  /\ TypeOK /\ Handled = Len(Sendable) /\ Fits(current) /\ blocks = Blocks(current)
           /\ \E cut, a : Packed(cut, a) /\ a # Handled
<1>1. TypeOK /\ pc = "listing" /\ next > Len(listings)
  BY DEF IInv, Listed
<1>2. PICK cut, a : Packed(cut, a)
  BY <1>1 DEF IInv, Packing
<1>3. a # Handled
  BY <1>1, <1>2, CurrentIs
<1>4. Fits(current) /\ blocks = Blocks(current)
  BY <1>1 DEF IInv, Packing
<1> QED
  BY <1>1, <1>2, <1>3, <1>4, HandledGrows

\* The message that grew ends the digest.
LEMMA LastStep ==
    ASSUME IInv, Listed, current.books # <<>>,
           NEW last \in Chunk, last.books = current.books, last.closing = Closing, Fits(last),
           NEW msgs, Joined(chunks, last, msgs), Return(msgs)
    PROVE  IInv'
<1>1. TypeOK /\ Handled = Len(Sendable)
  BY AllHandled
<1>2. PICK cut, a : Packed(cut, a) /\ a # Handled
  BY AllHandled
<1>3. PICK m \in Nat : m = Len(chunks) + 1
  BY <1>1, <1>2, CurrentIs
<1>4. /\ msgs \in Seq(Chunk) /\ Len(msgs) = m /\ DOMAIN msgs = 1..m /\ m \in 1..m
      /\ msgs[m] = last /\ \A i \in DOMAIN chunks : msgs[i] = chunks[i]
      /\ \A i \in 1..m : i = m \/ (i \in DOMAIN chunks /\ i # m)
  BY <1>1, <1>3, OneMore
<1>5. /\ Carrying(msgs)
      /\ \A i \in DOMAIN chunks : Fits(chunks[i]) /\ chunks[i].closing = "none"
  BY Zenon, <1>1, <1>2, <1>3, <1>4, AllCarried
<1>6. \A i \in DOMAIN msgs : Fits(msgs[i])
  BY Zenon, <1>4, <1>5
<1>7. \A i \in DOMAIN msgs :
         msgs[i].closing = "summary" <=> i = Len(msgs) /\ (failures \/ Skipped # {})
  <2>1. "none" # "summary" /\ (Closing = "summary" <=> failures \/ Skipped # {})
    BY DEF Closing
  <2> QED
    BY Zenon, <1>4, <1>5, <2>1
<1>8. \A other \in Alternatives :
         (\A i \in DOMAIN other : Fits(other[i])) => Len(msgs) <= Len(other)
  BY Zenon, <1>1, <1>2, <1>3, <1>4, OtherWaysNeed
<1>9. Result(msgs)
  BY Zenon, <1>5, <1>6, <1>7, <1>8 DEF Result, Carrying
<1> QED
  BY Zenon, <1>4, <1>9, ReturnStep

\* A digest without failures ends.
LEMMA FinishStep ==
    ASSUME IInv, Finish
    PROVE  IInv'
<1>1. Listed /\ current.books # <<>> /\ Return(Append(chunks, current)) /\ ~failures /\ Skipped = {}
  BY DEF Finish
<1>2. PICK msgs : msgs = Append(chunks, current)
  OBVIOUS
<1>3. Joined(chunks, current, msgs) /\ Return(msgs)
  BY Zenon, <1>1, <1>2 DEF Joined
<1>4. Fits(current) /\ TypeOK
  BY <1>1, AllHandled
<1>5. current \in Chunk
  BY <1>4 DEF TypeOK
<1>6. current.closing = Closing
  <2>1. current.closing = "none"
    BY <1>1, AllHandled, CurrentIs
  <2> QED
    BY <1>1, <2>1 DEF Closing
<1> QED
  BY Zenon, <1>1, <1>3, <1>4, <1>5, <1>6, LastStep

\* A digest with failures ends with the summary, in the message that grew or in
\* one of its own.
LEMMA FinishWithSummaryStep ==
    ASSUME IInv, FinishWithSummary
    PROVE  IInv'
<1>1. Listed /\ current.books # <<>> /\ (failures \/ Skipped # {})
  BY DEF FinishWithSummary
<1>2. TypeOK /\ Handled = Len(Sendable) /\ Fits(current) /\ blocks = Blocks(current)
  BY <1>1, AllHandled
<1>3. PICK cut, a : Packed(cut, a) /\ a # Handled
  BY <1>1, AllHandled
<1>4. PICK len \in Nat : len = Len(Sendable)
  BY <1>2, SendableIs
<1>5. PICK p : p = Part(Sendable, a, len)
  OBVIOUS
<1>6. PICK h \in BOOLEAN : h = (chunks = <<>>)
  OBVIOUS
<1>7. /\ a \in 0..len /\ a < len /\ current = Text(h, p, "none") /\ current.books = p
      /\ p \in Seq(Nat) /\ Len(p) \in Nat /\ Len(p) # 0
  <2>1. current = Text(h, p, "none")
    BY Zenon, <1>2, <1>3, <1>4, <1>5, <1>6 DEF Packed
  <2>2. /\ a \in 0..len /\ a <= Handled /\ current.books = p /\ p \in Seq(Nat) /\ Len(current.books) = Handled - a
    BY Zenon, <1>2, <1>3, <1>4, <1>5, CurrentIs
  <2>3. a < len
    BY <1>2, <1>3, <1>4, <2>2
  <2>4. Len(p) = len - a
    BY Zenon, <1>2, <1>4, <2>2
  <2> QED
    BY <2>1, <2>2, <2>3, <2>4
<1>8. PICK closed : closed = Text(h, p, "summary")
  OBVIOUS
<1>9. [current EXCEPT !.closing = "summary"] = closed
  BY <1>7, <1>8 DEF Text
<1>10. closed \in Chunk /\ closed.books = p /\ closed.closing = "summary"
  BY <1>7, <1>8 DEF Text, Chunk
<1>11. PICK summary : summary = Text(FALSE, <<>>, "summary")
  OBVIOUS
<1>12. Return(IF ChunkExceedsLimits(blocks + 2, closed)
              THEN chunks \o <<current, summary>> ELSE Append(chunks, closed))
  BY Zenon, <1>9, <1>11 DEF FinishWithSummary
<1>13. ChunkExceedsLimits(blocks + 2, closed) <=> ~Fits(closed)
  <2>1. Blocks(closed) = blocks + 2
    <3>1. Blocks(current) = 2 * Len(p) - 1
      <4>1. current.books = p /\ current.closing = "none"
        BY <1>7 DEF Text
      <4> QED
        BY <1>7, <4>1 DEF Blocks
    <3>2. Blocks(closed) = 2 * (Len(p) + 1) - 1
      BY <1>7, <1>10 DEF Blocks
    <3> QED
      BY <1>2, <1>7, <3>1, <3>2
  <2>2. blocks + 2 \in Nat /\ BlockLimit \in Nat
    BY <1>2, ChunkingAssumption DEF TypeOK
  <2>3. blocks + 2 > BlockLimit <=> ~(blocks + 2 <= BlockLimit)
    BY <2>2
  <2> QED
    BY Zenon, <2>1, <2>3 DEF ChunkExceedsLimits, Fits
<1>14. Closing = "summary"
  BY <1>1 DEF Closing
<1>15. CASE Fits(closed)
  <2>1. PICK msgs : msgs = Append(chunks, closed)
    OBVIOUS
  <2>2. Joined(chunks, closed, msgs) /\ Return(msgs)
    BY Zenon, <1>12, <1>13, <1>15, <2>1 DEF Joined
  <2> QED
    BY Zenon, <1>1, <1>7, <1>10, <1>14, <1>15, <2>2, LastStep
<1>16. CASE ~Fits(closed)
  <2>1. PICK msgs : msgs = chunks \o <<current, summary>>
    OBVIOUS
  <2>2. JoinedTwo(chunks, current, summary, msgs) /\ Return(msgs)
    BY Zenon, <1>12, <1>13, <1>16, <2>1 DEF JoinedTwo
  <2>3. PICK m \in Nat : m = Len(chunks) + 1
    BY <1>2, <1>3, CurrentIs
  <2>4. PICK n \in Nat : n = m + 1
    OBVIOUS
  <2>5. chunks \in Seq(Chunk) /\ current \in Chunk /\ summary \in Chunk
    BY Zenon, <1>2, <1>11, ShortMessages DEF TypeOK
  <2>6. summary.books = <<>> /\ summary.closing = "summary"
    BY <1>11 DEF Text
  <2>7. /\ msgs \in Seq(Chunk) /\ Len(msgs) = n /\ DOMAIN msgs = 1..n /\ n \in 1..n
        /\ msgs[m] = current /\ msgs[n] = summary /\ \A i \in DOMAIN chunks : msgs[i] = chunks[i]
        /\ \A i \in 1..n : i = n \/ (i = m /\ i # n) \/ (i \in DOMAIN chunks /\ i # n)
    BY <1>2, <2>2, <2>3, <2>4, <2>5, TwoMore
  <2>8. /\ Carrying(msgs)
        /\ \A i \in DOMAIN chunks : Fits(chunks[i]) /\ chunks[i].closing = "none"
    <3>1. msgs[m].books = current.books /\ msgs[n].books = <<>>
      BY Zenon, <2>6, <2>7
    <3> QED
      BY Zenon, <1>2, <1>3, <2>3, <2>4, <2>7, <3>1, AllCarried
  <2>9. ASSUME ~ExceedsTextLimits(Summary) PROVE \A i \in DOMAIN msgs : Fits(msgs[i])
    <3>1. Fits(summary)
      BY Zenon, <1>11, <2>9, ShortMessages
    <3> QED
      BY Zenon, <1>2, <2>7, <2>8, <3>1
  <2>10. \A i \in DOMAIN msgs :
            msgs[i].closing = "summary" <=> i = Len(msgs) /\ (failures \/ Skipped # {})
    <3>1. "none" # "summary" /\ current.closing = "none"
      BY <1>7 DEF Text
    <3> QED
      BY Zenon, <1>1, <2>6, <2>7, <2>8, <3>1
  <2>11. ASSUME NEW other \in Alternatives, \A i \in DOMAIN other : Fits(other[i])
         PROVE  Len(msgs) <= Len(other)
    <3>1. Len(other) \in Nat /\ m <= Len(other)
      BY Zenon, <1>2, <1>3, <2>3, <2>11, OtherWaysNeed
    <3>2. ASSUME Len(other) = m PROVE FALSE
      <4>1. PICK w \in 0..len : w <= a /\ Fits(Text(chunks = <<>>, Part(Sendable, w, len), "summary"))
        BY Zenon, <1>2, <1>3, <1>4, <1>14, <2>3, <2>11, <3>2, OtherWaysNeed
      <4>2. Fits(Text(h, Part(Sendable, w, len), "summary"))
        BY Zenon, <1>6, <4>1
      <4>3. len \in 0..len /\ len <= len
        BY <1>4
      <4>4. PICK closing \in {"none", "summary"} : closing = "summary"
        OBVIOUS
      <4>5. Fits(Text(h, Part(Sendable, w, len), closing))
        BY Zenon, <4>2, <4>4
      <4>6. Fits(Text(h, Part(Sendable, a, len), closing))
        BY Zenon, <1>2, <1>4, <1>7, <4>1, <4>3, <4>5, FewerFit
      <4> QED
        BY Zenon, <1>5, <1>8, <1>16, <4>4, <4>6
    <3>3. PICK k \in Nat : k = Len(other) /\ m <= k /\ k # m
      BY Zenon, <3>1, <3>2
    <3>4. n <= k
      BY <2>4, <3>3
    <3> QED
      BY Zenon, <2>7, <3>3, <3>4
  <2>12. Result(msgs)
    BY Zenon, <2>8, <2>9, <2>10, <2>11 DEF Result, Carrying
  <2> QED
    BY Zenon, <2>2, <2>7, <2>12, ReturnStep
<1> QED
  BY <1>15, <1>16

-----------------------------------------------------------------------------
(* The invariant holds, and so does what it implies                        *)

\* Before anything was done it holds.
LEMMA InitStep == Init => IInv
<1> SUFFICES ASSUME Init PROVE IInv
  OBVIOUS
<1>1. PICK n \in 0..MaxListings : listings \in [1..n -> Sizes]
  BY DEF Init
<1>2. n \in Nat
  BY <1>1, ChunkingAssumption
<1>3. listings \in Seq(Sizes)
  BY <1>1, <1>2, SeqDef
<1>4. Len(listings) \in Nat
  BY <1>3, LenProperties
<1>5. pc = "begin" /\ next = 1 /\ chunks = <<>> /\ current = Text(TRUE, <<>>, "none") /\ blocks = 0
  BY DEF Init
<1>6. current \in Chunk
  BY <1>5 DEF Text, Chunk
<1>7. TypeOK
  <2>1. next \in 1..Len(listings) + 1 /\ blocks \in 0..BlockLimit /\ chunks \in Seq(Chunk)
    BY <1>4, <1>5, ChunkingAssumption
  <2> QED
    BY <1>3, <1>5, <1>6, <2>1 DEF Init, TypeOK
<1> QED
  BY <1>5, <1>7
     DEF IInv, Beginning, Packing, MessagesFit, ListingsSentOnceInOrder, FailuresAreTold, FewestMessages

\* Every step of RenderSendable keeps it.
LEMMA NextStep == IInv /\ [Next]_vars => IInv'
<1> SUFFICES ASSUME IInv, [Next]_vars PROVE IInv'
  OBVIOUS
<1>1. CASE NothingToSend
  BY <1>1, NothingToSendStep
<1>2. CASE Begin
  BY <1>2, BeginStep
<1>3. CASE SkipBook
  BY <1>3, SkipBookStep
<1>4. CASE AppendBook
  BY <1>4, AppendBookStep
<1>5. CASE SummaryOnly
  BY <1>5, SummaryOnlyStep
<1>6. CASE Finish
  BY <1>6, FinishStep
<1>7. CASE FinishWithSummary
  BY <1>7, FinishWithSummaryStep
<1>8. CASE UNCHANGED vars
  <2>1. UNCHANGED inputs /\ listings' = listings /\ failures' = failures /\ limit' = limit
    BY <1>8 DEF vars, inputs
  <2>2. UNCHANGED <<pc, next, chunks, current, blocks>>
    BY <1>8 DEF vars
  <2>3. TypeOK' /\ Beginning'
    BY <2>1, <2>2 DEF IInv, TypeOK, Beginning
  <2>4. /\ ExceedsTextLimits(Summary)' <=> ExceedsTextLimits(Summary)
        /\ ExceedsTextLimits(Header)' <=> ExceedsTextLimits(Header)
    BY Zenon, <2>1 DEF ExceedsTextLimits
  <2>5. Handled' = Handled
    BY Zenon, <2>1, <2>2, InputsStay DEF Handled
  <2>6. \A cut, a : Packed(cut, a)' <=> Packed(cut, a)
    BY Zenon, <2>1, <2>2, <2>5, InputsStay DEF Packed
  <2>7. Packing'
    BY Zenon, <2>1, <2>2, <2>4, <2>6, InputsStay DEF IInv, Packing
  <2>8. MessagesFit' /\ ListingsSentOnceInOrder'
    BY Zenon, <2>1, <2>2, <2>4, InputsStay DEF IInv, MessagesFit, ListingsSentOnceInOrder
  <2>9. FailuresAreTold' /\ FewestMessages'
    BY Zenon, <2>1, <2>2, <2>4, InputsStay DEF IInv, FailuresAreTold, FewestMessages
  <2> QED
    BY <2>3, <2>7, <2>8, <2>9 DEF IInv
<1> QED
  BY <1>1, <1>2, <1>3, <1>4, <1>5, <1>6, <1>7, <1>8 DEF Next, Over

\* The invariant holds of every digest RenderSendable is asked for.
THEOREM Invariant == Spec => []IInv
BY InitStep, NextStep, PTL DEF Spec

\* Every variable keeps its type; the count of blocks in RenderSendable never
\* passes richMessageBlockLimit.
THEOREM TypeCorrect == Spec => []TypeOK
<1>1. IInv => TypeOK
  BY DEF IInv
<1> QED
  BY <1>1, Invariant, PTL

\* Every message RenderSendable returns keeps within the limits of runes, bytes
\* and blocks, as long as message_limit has room for the failure summary.
THEOREM EveryMessageFits == Spec => []MessagesFit
<1>1. IInv => MessagesFit
  BY DEF IInv
<1> QED
  BY <1>1, Invariant, PTL

\* The messages carry every listing that fits one, once and in order, whatever
\* appendBook skips and wherever it starts a message.
THEOREM EveryListingIsSent == Spec => []ListingsSentOnceInOrder
<1>1. IInv => ListingsSentOnceInOrder
  BY DEF IInv
<1> QED
  BY <1>1, Invariant, PTL

\* The last message tells of failures exactly when there are some, of the fetch
\* or of a listing that does not fit, and no other message does.
THEOREM FailuresTold == Spec => []FailuresAreTold
<1>1. IInv => FailuresAreTold
  BY DEF IInv
<1> QED
  BY <1>1, Invariant, PTL

\* No other way to cut the digest into messages that fit needs fewer of them:
\* filling each message before the next is started is as good as any.
THEOREM NoFewerMessages == Spec => []FewestMessages
<1>1. IInv => FewestMessages
  BY DEF IInv
<1> QED
  BY <1>1, Invariant, PTL
=============================================================================
