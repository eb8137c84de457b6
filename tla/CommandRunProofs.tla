-------------------------- MODULE CommandRunProofs ---------------------------
(***************************************************************************)
(* Whatever the configuration, the directory and the order in which its    *)
(* files are opened and created: no two chats work on the same state file, *)
(* the exit status tells how the run ended, and the pages that a chat      *)
(* fetches are those that its search asks for, each once and in the order  *)
(* of the requests.                                                        *)
(***************************************************************************)
EXTENDS CommandRun, SequenceTheorems, WellFoundedInduction, TLAPS

\* A set of natural numbers has a least element: what an induction over the
\* naturals is replaced with in these proofs.
LEMMA Least ==
    ASSUME NEW S, S \subseteq Nat, S # {}
    PROVE  \E m \in S : \A n \in S : m <= n
<1> DEFINE Less == OpToRel(<, Nat)
<1>1. IsWellFoundedOn(Less, Nat)
  BY NatLessThanWellFounded
<1> HIDE DEF Less
<1>2. PICK m \in S : \A n \in S : ~(<<n, m>> \in Less)
  BY <1>1, WFMin
<1>3. ASSUME NEW n \in S, n < m PROVE FALSE
  <2>1. <<n, m>> \in Nat \X Nat /\ <<n, m>>[1] < <<n, m>>[2]
    BY <1>3
  <2> QED
    BY <1>2, <2>1 DEF OpToRel, Less
<1> QED
  BY <1>3

\* What holds at 0, and after each step if it held before it, holds up to the
\* end.
LEMMA UpTo ==
    ASSUME NEW len \in Nat, NEW G, 0 \in G,
           \A n \in 1..len : n - 1 \in G => n \in G
    PROVE  0..len \subseteq G
<1> DEFINE Bad == { n \in 0..len : n \notin G }
<1>1. ASSUME Bad # {} PROVE FALSE
  <2>1. PICK n \in Bad : \A m \in Bad : n <= m
    <3>1. Bad \subseteq Nat
      OBVIOUS
    <3> HIDE DEF Bad
    <3> QED
      BY <1>1, <3>1, Least
  <2>2. n \in 0..len /\ n # 0
    BY <2>1
  <2>3. n - 1 \in 0..len /\ n - 1 \notin Bad /\ n \in 1..len
    BY <2>1, <2>2
  <2> QED
    BY <2>1, <2>3
<1> QED
  BY <1>1

-----------------------------------------------------------------------------
(* The files                                                               *)

\* The files a run may find or create.
AllFiles == Files \cup Names

\* A file that was created is at the place it is known by.
CreatedInPlace(d) ==
    \A n \in Names : \A f \in Names : d.dir[n] = File(f) => f = n

\* The place of a name's own entry.
PlaceOf(d, n) == IF d.folding THEN Folded[n] ELSE n

LEMMA EntriesAre ==
    ASSUME NEW d \in FileSystems(AllFiles), NEW n \in Names
    PROVE  /\ PlaceOf(d, n) \in Names
           /\ Entry(d, n) = d.dir[PlaceOf(d, n)]
           /\ Entry(d, n) \in Entries(AllFiles)
           /\ Entry(d, n).kind = "link" => Entry(d, n).to \in Names
<1>1. PlaceOf(d, n) \in Names
  BY MappingAssumption DEF PlaceOf
<1>2. Entry(d, n) = d.dir[PlaceOf(d, n)]
  BY DEF Entry, PlaceOf
<1>3. Entry(d, n) \in Entries(AllFiles)
  BY <1>1, <1>2 DEF FileSystems
<1>4. Entry(d, n).kind = "link" => Entry(d, n).to \in Names
  BY <1>3 DEF Entries, Absent, File, Link
<1> QED
  BY <1>1, <1>2, <1>3, <1>4

\* The directory with a file created at a place.
WithFile(d, p) == [d EXCEPT !.dir[p] = File(p)]

\* Opening a name's file, which creates it if there is none.
Opened(d, n) ==
    IF d.dir[Place(d, n)] = Absent THEN WithFile(d, Place(d, n)) ELSE d

\* A file that is created is created at the name's own place: a link that
\* leads nowhere is not followed.
LEMMA OpenedIs ==
    ASSUME NEW d \in FileSystems(AllFiles), NEW m \in Names, ~Dangling(d, m)
    PROVE  IF Entry(d, m) = Absent
           THEN Opened(d, m) = WithFile(d, PlaceOf(d, m))
           ELSE Opened(d, m) = d /\ Target(d, m) # Absent
<1>1. CASE Entry(d, m) = Absent
  <2>1. Place(d, m) = PlaceOf(d, m) /\ d.dir[PlaceOf(d, m)] = Absent
    BY <1>1, EntriesAre DEF Place, PlaceOf, Absent
  <2> QED
    BY <1>1, <2>1 DEF Opened
<1>2. CASE Entry(d, m) # Absent /\ Entry(d, m).kind # "link"
  <2>1. Place(d, m) = PlaceOf(d, m) /\ d.dir[PlaceOf(d, m)] # Absent /\ Target(d, m) = Entry(d, m)
    BY <1>2, EntriesAre DEF Place, PlaceOf, Target
  <2> QED
    BY <1>2, <2>1 DEF Opened
<1>3. CASE Entry(d, m) # Absent /\ Entry(d, m).kind = "link"
  <2>1. Target(d, m) # Absent /\ Target(d, m) = Entry(d, Entry(d, m).to)
    BY <1>3 DEF Dangling, Target
  <2>2. d.dir[Place(d, m)] = Entry(d, Entry(d, m).to)
    BY <1>3 DEF Place, Entry
  <2> QED
    BY <1>3, <2>1, <2>2 DEF Opened
<1> QED
  BY <1>1, <1>2, <1>3

\* What creating a file changes: its own entry, and what led nowhere.
LEMMA Created ==
    ASSUME NEW d \in FileSystems(AllFiles), CreatedInPlace(d), NEW p \in Names, d.dir[p] = Absent,
           NEW e, e = WithFile(d, p)
    PROVE  /\ e \in FileSystems(AllFiles) /\ CreatedInPlace(e)
           /\ e.dir[p] = File(p) /\ File(p) # Absent
           /\ \A n \in Names : n # p => e.dir[n] = d.dir[n] /\ d.dir[n] # File(p)
           /\ \A n \in Names : PlaceOf(e, n) = PlaceOf(d, n)
<1>1. d.folding \in BOOLEAN /\ d.dir \in [Names -> Entries(AllFiles)]
  BY DEF FileSystems
<1>2. File(p) \in Entries(AllFiles) /\ File(p) # Absent
  BY DEF Entries, AllFiles, File, Absent
<1>3. e = [folding |-> d.folding, dir |-> [d.dir EXCEPT ![p] = File(p)]]
  BY <1>1 DEF FileSystems, WithFile
<1>4. e \in FileSystems(AllFiles)
  BY <1>1, <1>2, <1>3 DEF FileSystems
<1>5. e.dir[p] = File(p) /\ \A n \in Names : n # p => e.dir[n] = d.dir[n]
  BY <1>1, <1>3
<1>6. \A f, g : File(f) = File(g) => f = g
  BY DEF File
<1>7. \A n \in Names : n # p => d.dir[n] # File(p)
  BY DEF CreatedInPlace
<1>8. CreatedInPlace(e)
  BY <1>5, <1>6 DEF CreatedInPlace
<1>9. \A n \in Names : PlaceOf(e, n) = PlaceOf(d, n)
  BY <1>3 DEF PlaceOf
<1> QED
  BY <1>2, <1>4, <1>5, <1>7, <1>8, <1>9

\* A name that leads to a file leads there whatever else is created.
LEMMA TargetStays ==
    ASSUME NEW d \in FileSystems(AllFiles), CreatedInPlace(d), NEW p \in Names, d.dir[p] = Absent,
           NEW e, e = WithFile(d, p),
           NEW n \in Names, PlaceOf(d, n) # p, ~Dangling(d, n)
    PROVE  /\ Entry(e, n) = Entry(d, n) /\ Target(e, n) = Target(d, n)
           /\ ~Dangling(e, n) /\ Target(e, n) # File(p)
<1>1. /\ e \in FileSystems(AllFiles)
      /\ \A m \in Names : m # p => e.dir[m] = d.dir[m] /\ d.dir[m] # File(p)
      /\ \A m \in Names : PlaceOf(e, m) = PlaceOf(d, m)
  BY Created
<1>2. ASSUME NEW m \in Names, PlaceOf(d, m) # p
      PROVE  Entry(e, m) = Entry(d, m) /\ Entry(d, m) # File(p)
  <2>1. PICK q \in Names : q = PlaceOf(d, m)
    BY EntriesAre
  <2>2. Entry(e, m) = e.dir[q] /\ Entry(d, m) = d.dir[q]
    BY <1>1, <2>1 DEF Entry, PlaceOf
  <2> QED
    BY <1>1, <1>2, <2>1, <2>2
<1>3. CASE Entry(d, n).kind = "link"
  <2>1. PICK m \in Names : m = Entry(d, n).to
    BY <1>3, EntriesAre
  <2>2. Target(d, n) = Entry(d, m) /\ Target(d, n) # Absent
    BY <1>3, <2>1 DEF Target, Dangling
  <2>3. PlaceOf(d, m) # p
    BY <2>2, EntriesAre
  <2>4. Target(e, n) = Entry(e, m)
    BY <1>2, <1>3, <2>1 DEF Target
  <2> QED
    BY <1>2, <2>2, <2>3, <2>4 DEF Dangling
<1>4. CASE Entry(d, n).kind # "link"
  <2>1. Target(d, n) = Entry(d, n) /\ Target(e, n) = Entry(e, n)
    BY <1>2, <1>4 DEF Target
  <2> QED
    BY <1>2, <1>4, <2>1 DEF Dangling
<1> QED
  BY <1>3, <1>4

\* Opening a name's file leaves it with a file, and leaves alone what every
\* name leads to that does not collide with it.
LEMMA OpenedApart ==
    ASSUME NEW d \in FileSystems(AllFiles), CreatedInPlace(d), NEW m \in Names, ~Dangling(d, m),
           NEW e, e = Opened(d, m)
    PROVE  /\ e \in FileSystems(AllFiles) /\ CreatedInPlace(e)
           /\ ~Dangling(e, m) /\ Target(e, m) # Absent
           /\ \A n \in Names : ~Collide(d, m, n) /\ ~Dangling(d, n) =>
                 /\ Target(e, n) = Target(d, n) /\ ~Dangling(e, n)
                 /\ Target(e, n) # Target(e, m)
<1>1. CASE Entry(d, m) = Absent
  <2>1. PICK p \in Names : p = PlaceOf(d, m)
    BY EntriesAre
  <2>2. d.dir[p] = Absent /\ e = WithFile(d, p)
    BY <1>1, <2>1, EntriesAre, OpenedIs
  <2>3. /\ e \in FileSystems(AllFiles) /\ CreatedInPlace(e)
        /\ e.dir[p] = File(p) /\ File(p) # Absent
        /\ \A n \in Names : PlaceOf(e, n) = PlaceOf(d, n)
    BY <2>2, Created
  <2>4. Entry(e, m) = File(p)
    BY <2>1, <2>3 DEF Entry, PlaceOf
  <2>5. Target(e, m) = File(p) /\ ~Dangling(e, m)
    BY <2>4 DEF Target, Dangling, File
  <2>6. ASSUME NEW n \in Names, ~Collide(d, m, n), ~Dangling(d, n)
        PROVE  Target(e, n) = Target(d, n) /\ ~Dangling(e, n) /\ Target(e, n) # File(p)
    <3>1. PlaceOf(d, n) # p
      BY <2>1, <2>6 DEF Collide, PlaceOf
    <3> QED
      BY <2>2, <2>6, <3>1, TargetStays
  <2> QED
    BY <2>3, <2>5, <2>6
<1>2. CASE Entry(d, m) # Absent
  <2>1. e = d /\ Target(d, m) # Absent
    BY <1>2, OpenedIs
  <2> QED
    BY <2>1 DEF Collide, SameFile
<1> QED
  BY <1>1, <1>2

-----------------------------------------------------------------------------
(* The recipients                                                          *)

\* The chats up to one of them that are selected, given those before it.
WithChat(selected, c, chat) ==
    IF chat = Unset \/ ChatOf(c) = Normal[chat] THEN Append(selected, c) ELSE selected

IsSelecting(f, chats, chat, len) ==
    f[0] = <<>> /\ \A n \in 1..len : f[n] = WithChat(f[n-1], chats[n], chat)

\* The loop of Selection computes one list after the other.
LEMMA SelectingExists ==
    ASSUME NEW S, NEW len \in Nat, NEW chats, \A n \in 1..len : chats[n] \in S, NEW chat
    PROVE  \E f \in [0..len -> Seq(S)] : IsSelecting(f, chats, chat, len)
<1> DEFINE Good == { n \in 0..len : \E f \in [0..n -> Seq(S)] : IsSelecting(f, chats, chat, n) }
<1>1. 0 \in Good
  <2> DEFINE f == [n \in 0..0 |-> <<>>]
  <2>1. f \in [0..0 -> Seq(S)] /\ f[0] = <<>>
    BY EmptySeq
  <2>2. IsSelecting(f, chats, chat, 0)
    BY <2>1 DEF IsSelecting
  <2> QED
    BY <2>1, <2>2
<1>2. ASSUME NEW n \in 1..len, n - 1 \in Good PROVE n \in Good
  <2>1. PICK f \in [0..n - 1 -> Seq(S)] : IsSelecting(f, chats, chat, n - 1)
    BY <1>2
  <2>2. /\ n - 1 \in 0..n - 1 /\ n \notin 0..n - 1 /\ n \in 0..n /\ 0 # n /\ 0 \in 0..n - 1
        /\ \A m \in 0..n : m # n => m \in 0..n - 1
        /\ \A m \in 1..n : m # n => m \in 0..n - 1 /\ m - 1 \in 0..n - 1 /\ m \in 1..n - 1
    OBVIOUS
  <2>3. PICK last \in Seq(S) : last = WithChat(f[n-1], chats[n], chat)
    <3>1. f[n-1] \in Seq(S) /\ chats[n] \in S
      BY <2>1, <2>2
    <3>2. Append(f[n-1], chats[n]) \in Seq(S)
      BY <3>1, AppendProperties
    <3>3. WithChat(f[n-1], chats[n], chat) \in Seq(S)
      BY <3>1, <3>2, Zenon DEF WithChat
    <3> QED
      BY <3>3
  <2> DEFINE g == [m \in 0..n |-> IF m = n THEN last ELSE f[m]]
  <2>4. g \in [0..n -> Seq(S)] /\ g[n] = last /\ \A m \in 0..n - 1 : g[m] = f[m]
    BY <2>1, <2>2
  <2>5. IsSelecting(g, chats, chat, n)
    <3> HIDE DEF g
    <3>1. g[0] = <<>>
      BY <2>1, <2>2, <2>4 DEF IsSelecting
    <3>2. ASSUME NEW m \in 1..n PROVE g[m] = WithChat(g[m-1], chats[m], chat)
      <4>1. CASE m = n
        BY <2>2, <2>3, <2>4, <4>1
      <4>2. CASE m # n
        <5>1. m \in 0..n - 1 /\ m - 1 \in 0..n - 1 /\ m \in 1..n - 1
          BY <2>2, <4>2
        <5>2. f[m] = WithChat(f[m-1], chats[m], chat)
          BY <2>1, <5>1 DEF IsSelecting
        <5> QED
          BY <2>4, <5>1, <5>2
      <4> QED
        BY <4>1, <4>2
    <3> QED
      BY <3>1, <3>2 DEF IsSelecting
  <2> HIDE DEF g
  <2> QED
    BY <2>4, <2>5
<1>3. len \in Good
  <2> HIDE DEF Good
  <2>1. len \in 0..len
    OBVIOUS
  <2> QED
    BY <1>1, <1>2, <2>1, UpTo
<1> QED
  BY <1>3

\* The selected are chats in their order, none of them twice.
ComesFrom(s, chats, len) ==
    /\ \A i \in 1..Len(s) : \E p \in 1..len : s[i] = chats[p]
    /\ \A i, j \in 1..Len(s) : i < j => \E p, q \in 1..len : p < q /\ s[i] = chats[p] /\ s[j] = chats[q]

Same(s, chats, len) == Len(s) = len /\ \A i \in 1..len : s[i] = chats[i]

LEMMA ChatAdded ==
    ASSUME NEW S, NEW chats, NEW n \in Nat \ {0}, chats[n] \in S, NEW chat,
           NEW s \in Seq(S), ComesFrom(s, chats, n - 1), chat = Unset => Same(s, chats, n - 1),
           NEW t, t = WithChat(s, chats[n], chat)
    PROVE  t \in Seq(S) /\ ComesFrom(t, chats, n) /\ (chat = Unset => Same(t, chats, n))
<1>1. Len(s) \in Nat /\ \A p \in 1..n - 1 : p \in 1..n /\ p < n
  BY LenProperties
<1>2. CASE t = s /\ chat # Unset
  BY <1>1, <1>2 DEF ComesFrom
<1>3. CASE t = Append(s, chats[n])
  <2>1. /\ t \in Seq(S) /\ Len(t) = Len(s) + 1
        /\ \A i \in 1..Len(s) : t[i] = s[i]
        /\ t[Len(s) + 1] = chats[n]
    BY <1>3, AppendProperties
  <2>2. \A i \in 1..Len(t) : i \in 1..Len(s) \/ i = Len(s) + 1
    BY <1>1, <2>1
  <2>3. ASSUME NEW i \in 1..Len(t) PROVE \E p \in 1..n : t[i] = chats[p]
    <3>1. CASE i = Len(s) + 1
      BY <2>1, <3>1
    <3>2. CASE i \in 1..Len(s)
      BY <1>1, <2>1, <3>2 DEF ComesFrom
    <3> QED
      BY <2>2, <3>1, <3>2
  <2>4. ASSUME NEW i \in 1..Len(t), NEW j \in 1..Len(t), i < j
        PROVE  \E p, q \in 1..n : p < q /\ t[i] = chats[p] /\ t[j] = chats[q]
    <3>1. i \in 1..Len(s)
      BY <1>1, <2>1, <2>4
    <3>2. CASE j = Len(s) + 1
      <4>1. PICK p \in 1..n - 1 : s[i] = chats[p]
        BY <3>1 DEF ComesFrom
      <4>2. p \in 1..n /\ n \in 1..n /\ p < n /\ t[i] = chats[p] /\ t[j] = chats[n]
        BY <1>1, <2>1, <3>1, <3>2, <4>1
      <4> QED
        BY <4>2
    <3>3. CASE j \in 1..Len(s)
      <4>1. PICK p \in 1..n - 1, q \in 1..n - 1 : p < q /\ s[i] = chats[p] /\ s[j] = chats[q]
        BY <2>4, <3>1, <3>3 DEF ComesFrom
      <4>2. p \in 1..n /\ q \in 1..n /\ t[i] = chats[p] /\ t[j] = chats[q]
        BY <1>1, <2>1, <3>1, <3>3, <4>1
      <4> QED
        BY <4>1, <4>2
    <3> QED
      BY <2>2, <3>2, <3>3
  <2>5. ComesFrom(t, chats, n)
    BY <2>3, <2>4 DEF ComesFrom
  <2>6. ASSUME chat = Unset PROVE Same(t, chats, n)
    <3>1. Len(s) = n - 1 /\ \A i \in 1..n - 1 : s[i] = chats[i]
      BY <2>6 DEF Same
    <3>2. \A i \in 1..n : i \in 1..n - 1 \/ i = n
      OBVIOUS
    <3> QED
      BY <2>1, <3>1, <3>2 DEF Same
  <2> QED
    BY <2>1, <2>5, <2>6
<1> QED
  BY <1>2, <1>3 DEF WithChat

LEMMA SelectionIs ==
    ASSUME NEW S, NEW chats \in Seq(S), NEW chat
    PROVE  /\ Selection(chats, chat) \in Seq(S)
           /\ ComesFrom(Selection(chats, chat), chats, Len(chats))
           /\ chat = Unset => Same(Selection(chats, chat), chats, Len(chats))
<1>1. PICK len \in Nat : len = Len(chats)
  BY LenProperties
<1>2. \A n \in 1..len : chats[n] \in S
  BY <1>1, ElementOfSeq
<1> DEFINE Loop(f) ==
               f = [n \in 0..Len(chats) |->
                       IF n = 0 THEN <<>>
                       ELSE IF chat = Unset \/ ChatOf(chats[n]) = Normal[chat]
                            THEN Append(f[n-1], chats[n])
                            ELSE f[n-1]]
           f == CHOOSE g : Loop(g)
<1>3. Loop(f)
  <2>1. PICK g \in [0..len -> Seq(S)] : IsSelecting(g, chats, chat, len)
    BY <1>2, SelectingExists
  <2>2. \A n \in 0..len : n # 0 => n \in 1..len
    OBVIOUS
  <2>3. \A n \in 0..len : g[n] = IF n = 0 THEN <<>> ELSE WithChat(g[n-1], chats[n], chat)
    BY <2>1, <2>2, Zenon DEF IsSelecting
  <2>4. g = [n \in 0..len |-> IF n = 0 THEN <<>> ELSE WithChat(g[n-1], chats[n], chat)]
    BY <2>1, <2>3
  <2>5. Loop(g)
    BY <1>1, <2>4, Zenon DEF WithChat
  <2> HIDE DEF Loop
  <2> QED
    BY <2>5
<1>4. Selection(chats, chat) = f[len]
  BY <1>1 DEF Selection
<1>5. f = [n \in 0..len |-> IF n = 0 THEN <<>> ELSE WithChat(f[n-1], chats[n], chat)]
  <2> HIDE DEF f
  <2> QED
    BY <1>1, <1>3, Zenon DEF WithChat
<1> HIDE DEF f, Loop
<1>6. f[0] = <<>> /\ \A n \in 1..len : f[n] = WithChat(f[n-1], chats[n], chat)
  <2>1. 0 \in 0..len /\ \A n \in 1..len : n \in 0..len /\ n # 0
    OBVIOUS
  <2> QED
    BY <1>5, <2>1, Zenon
<1> DEFINE Good == { n \in 0..len : /\ f[n] \in Seq(S) /\ ComesFrom(f[n], chats, n)
                                    /\ chat = Unset => Same(f[n], chats, n) }
<1>7. 0 \in Good
  <2>1. <<>> \in Seq(S) /\ Len(<<>>) = 0
    BY EmptySeq
  <2>2. PICK none \in Seq(S) : none = f[0] /\ Len(none) = 0
    BY <1>6, <2>1
  <2>3. ComesFrom(none, chats, 0) /\ Same(none, chats, 0)
    BY <2>2 DEF ComesFrom, Same
  <2> QED
    BY <2>2, <2>3
<1>8. ASSUME NEW n \in 1..len, n - 1 \in Good PROVE n \in Good
  <2>1. /\ f[n-1] \in Seq(S) /\ ComesFrom(f[n-1], chats, n - 1)
        /\ chat = Unset => Same(f[n-1], chats, n - 1)
    BY <1>8, Zenon
  <2>2. n \in Nat \ {0} /\ n \in 0..len /\ chats[n] \in S
    BY <1>2
  <2>3. f[n] = WithChat(f[n-1], chats[n], chat)
    BY <1>6
  <2>4. f[n] \in Seq(S) /\ ComesFrom(f[n], chats, n) /\ (chat = Unset => Same(f[n], chats, n))
    BY <2>1, <2>2, <2>3, ChatAdded, Zenon
  <2> QED
    BY <2>2, <2>4
<1>9. len \in Good
  <2> HIDE DEF Good
  <2>1. len \in 0..len
    OBVIOUS
  <2> QED
    BY <1>7, <1>8, <2>1, UpTo
<1>10. /\ f[len] \in Seq(S) /\ ComesFrom(f[len], chats, len)
       /\ chat = Unset => Same(f[len], chats, len)
  BY <1>9, Zenon
<1> QED
  BY <1>1, <1>4, <1>10, Zenon

\* Two chats of a valid mapping have files that do not collide.
LEMMA MappingSeparates ==
    ASSUME NEW d, NEW chats, MappingIsValid(d, chats), NEW len \in Nat, DOMAIN chats = 1..len
    PROVE  /\ \A p \in 1..len : FileOf(chats[p]) \in Names /\ ~Dangling(d, FileOf(chats[p]))
           /\ \A p, q \in 1..len : p # q => ~Collide(d, FileOf(chats[p]), FileOf(chats[q]))
<1>1. \A p \in 1..len : FileOf(chats[p]) \in Names /\ ~Dangling(d, FileOf(chats[p]))
  BY MappingAssumption DEF MappingIsValid
<1>2. \A p, q \in 1..len : p < q => ~Collide(d, FileOf(chats[p]), FileOf(chats[q]))
  <2> TAKE p, q \in 1..len
  <2> HAVE p < q
  <2>1. p \in 1..q - 1
    OBVIOUS
  <2> QED
    BY <2>1 DEF MappingIsValid
<1>3. \A m, n : Collide(d, m, n) <=> Collide(d, n, m)
  BY DEF Collide, SameFile
<1>4. \A p, q \in 1..len : p # q => p < q \/ q < p
  OBVIOUS
<1> QED
  BY <1>1, <1>2, <1>3, <1>4

-----------------------------------------------------------------------------
(* Loops over a sequence                                                   *)

\* What a loop has computed after each of its rounds.
IsTable(f, base, step, len) ==
    f[0] = base /\ \A n \in 1..len : f[n] = step[<<f[n-1], n>>]

\* Every loop has such a table.
LEMMA TableExists ==
    ASSUME NEW S, NEW base \in S, NEW len \in Nat, NEW step \in [S \X (1..len) -> S]
    PROVE  \E f \in [0..len -> S] : IsTable(f, base, step, len)
<1> DEFINE Good == { n \in 0..len : \E f \in [0..n -> S] : IsTable(f, base, step, n) }
<1>1. 0 \in Good
  <2> DEFINE f == [n \in 0..0 |-> base]
  <2>1. f \in [0..0 -> S] /\ f[0] = base
    OBVIOUS
  <2>2. IsTable(f, base, step, 0)
    BY <2>1 DEF IsTable
  <2> QED
    BY <2>1, <2>2
<1>2. ASSUME NEW n \in 1..len, n - 1 \in Good PROVE n \in Good
  <2>1. PICK f \in [0..n - 1 -> S] : IsTable(f, base, step, n - 1)
    BY <1>2
  <2>2. /\ n - 1 \in 0..n - 1 /\ n \notin 0..n - 1 /\ n \in 0..n /\ 0 # n /\ 0 \in 0..n - 1
        /\ \A m \in 0..n : m # n => m \in 0..n - 1
        /\ \A m \in 1..n : m # n => m \in 0..n - 1 /\ m - 1 \in 0..n - 1 /\ m \in 1..n - 1
    OBVIOUS
  <2>3. PICK last \in S : last = step[<<f[n-1], n>>]
    <3>1. <<f[n-1], n>> \in S \X (1..len)
      BY <2>1, <2>2
    <3> QED
      BY <3>1
  <2> DEFINE g == [m \in 0..n |-> IF m = n THEN last ELSE f[m]]
  <2>4. g \in [0..n -> S] /\ g[n] = last /\ \A m \in 0..n - 1 : g[m] = f[m]
    BY <2>1, <2>2
  <2>5. IsTable(g, base, step, n)
    <3> HIDE DEF g
    <3>1. g[0] = base
      BY <2>1, <2>2, <2>4 DEF IsTable
    <3>2. ASSUME NEW m \in 1..n PROVE g[m] = step[<<g[m-1], m>>]
      <4>1. CASE m = n
        BY <2>2, <2>3, <2>4, <4>1
      <4>2. CASE m # n
        <5>1. m \in 0..n - 1 /\ m - 1 \in 0..n - 1 /\ m \in 1..n - 1
          BY <2>2, <4>2
        <5>2. f[m] = step[<<f[m-1], m>>]
          BY <2>1, <5>1 DEF IsTable
        <5> QED
          BY <2>4, <5>1, <5>2
      <4> QED
        BY <4>1, <4>2
    <3> QED
      BY <3>1, <3>2 DEF IsTable
  <2> HIDE DEF g
  <2> QED
    BY <2>4, <2>5
<1>3. 0..len \subseteq Good
  <2> HIDE DEF Good
  <2> QED
    BY <1>1, <1>2, UpTo
<1> QED
  BY <1>3

-----------------------------------------------------------------------------
(* The parameters of a page                                                *)

\* The fields of the form, each at its place.
IsForm(len) ==
    /\ len = Len(FormFields) /\ DOMAIN FormFields = 1..len
    /\ \A p, q \in 1..len : FormFields[p] = FormFields[q] => p = q
    /\ \A p \in 1..len : FormPlace(FormFields[p]) = p
    /\ ToSet(FormFields) = { FormFields[p] : p \in 1..len }

LEMMA FormIs == \E len \in Nat : IsForm(len)
<1>1. PICK len \in Nat : len = Len(FormFields) /\ DOMAIN FormFields = 1..len
  <2>1. FormFields \in Seq(ToSet(FormFields))
    BY SearchAssumption
  <2> QED
    BY <2>1, LenProperties
<1>2. \A p, q \in 1..len : FormFields[p] = FormFields[q] => p = q
  BY <1>1, SearchAssumption DEF IsInjective
<1>3. \A p \in 1..len : FormPlace(FormFields[p]) = p
  BY <1>1, <1>2 DEF FormPlace
<1>4. ToSet(FormFields) = { FormFields[p] : p \in 1..len }
  BY <1>1 DEF ToSet
<1> QED
  BY <1>1, <1>2, <1>3, <1>4 DEF IsForm

\* A query of fields of the form with values they take.
IsQuery(query) ==
    DOMAIN query \subseteq ToSet(FormFields) /\ \A f \in DOMAIN query : query[f] \in Accepted[f]

FormParameters == ToSet(FormFields) \X UNION { Accepted[f] : f \in DOMAIN Accepted }

Parameter(query, p) == <<FormFields[p], query[FormFields[p]]>>

LEMMA ParameterIs ==
    ASSUME NEW query, IsQuery(query), NEW len \in Nat, IsForm(len),
           NEW p \in 1..len, FormFields[p] \in DOMAIN query
    PROVE  Parameter(query, p) \in FormParameters
<1>1. query[FormFields[p]] \in Accepted[FormFields[p]] /\ FormFields[p] \in ToSet(FormFields)
  BY DEF IsQuery
<1>2. FormFields[p] \in DOMAIN Accepted
  BY <1>1, SearchAssumption
<1> QED
  BY <1>1, <1>2 DEF Parameter, FormParameters

\* The parameters up to a field, given those before it.
WithField(params, query, p) ==
    IF FormFields[p] \in DOMAIN query THEN Append(params, Parameter(query, p)) ELSE params

\* The parameters are those of the fields up to one of them, in form order.
HasFields(params, query, n) ==
    /\ \A i \in 1..Len(params) : \E p \in 1..n :
          FormFields[p] \in DOMAIN query /\ params[i] = Parameter(query, p)
    /\ \A i, j \in 1..Len(params) : i < j => \E p, q \in 1..n :
          p < q /\ params[i] = Parameter(query, p) /\ params[j] = Parameter(query, q)
    /\ \A p \in 1..n : FormFields[p] \in DOMAIN query =>
          \E i \in 1..Len(params) : params[i] = Parameter(query, p)

LEMMA FieldAdded ==
    ASSUME NEW query, IsQuery(query), NEW len \in Nat, IsForm(len), NEW n \in 1..len,
           NEW params \in Seq(FormParameters), HasFields(params, query, n - 1),
           NEW more, more = WithField(params, query, n)
    PROVE  more \in Seq(FormParameters) /\ HasFields(more, query, n)
<1>1. /\ Len(params) \in Nat /\ n \in 1..n
      /\ \A p \in 1..n - 1 : p \in 1..n /\ p < n
      /\ \A p \in 1..n : p \in 1..n - 1 \/ p = n
  BY LenProperties
<1>2. CASE FormFields[n] \notin DOMAIN query
  <2>1. more = params
    BY <1>2, Zenon DEF WithField
  <2>2. \A i \in 1..Len(params) : \E p \in 1..n :
            FormFields[p] \in DOMAIN query /\ params[i] = Parameter(query, p)
    BY <1>1 DEF HasFields
  <2>3. \A i, j \in 1..Len(params) : i < j => \E p, q \in 1..n :
            p < q /\ params[i] = Parameter(query, p) /\ params[j] = Parameter(query, q)
    <3> TAKE i, j \in 1..Len(params)
    <3> HAVE i < j
    <3>1. PICK p \in 1..n - 1, q \in 1..n - 1 :
              p < q /\ params[i] = Parameter(query, p) /\ params[j] = Parameter(query, q)
      BY DEF HasFields
    <3> QED
      BY <1>1, <3>1
  <2>4. \A p \in 1..n : FormFields[p] \in DOMAIN query =>
            \E i \in 1..Len(params) : params[i] = Parameter(query, p)
    BY <1>1, <1>2 DEF HasFields
  <2> QED
    BY <2>1, <2>2, <2>3, <2>4 DEF HasFields
<1>3. CASE FormFields[n] \in DOMAIN query
  <2>1. PICK e \in FormParameters : e = Parameter(query, n)
    BY <1>3, ParameterIs
  <2>2. more = Append(params, e)
    BY <1>3, <2>1, Zenon DEF WithField
  <2>3. /\ more \in Seq(FormParameters) /\ Len(more) = Len(params) + 1
        /\ \A i \in 1..Len(params) : more[i] = params[i]
        /\ more[Len(params) + 1] = e
    BY <2>2, AppendProperties
  <2>4. \A i \in 1..Len(more) : i \in 1..Len(params) \/ i = Len(params) + 1
    BY <1>1, <2>3
  <2>5. ASSUME NEW i \in 1..Len(more)
        PROVE  \E p \in 1..n : FormFields[p] \in DOMAIN query /\ more[i] = Parameter(query, p)
    <3>1. CASE i = Len(params) + 1
      BY <1>1, <1>3, <2>1, <2>3, <3>1
    <3>2. CASE i \in 1..Len(params)
      BY <1>1, <2>3, <3>2 DEF HasFields
    <3> QED
      BY <2>4, <3>1, <3>2
  <2>6. ASSUME NEW i \in 1..Len(more), NEW j \in 1..Len(more), i < j
        PROVE  \E p, q \in 1..n : p < q /\ more[i] = Parameter(query, p) /\ more[j] = Parameter(query, q)
    <3>1. i \in 1..Len(params)
      BY <1>1, <2>3, <2>6
    <3>2. CASE j = Len(params) + 1
      <4>1. PICK p \in 1..n - 1 : params[i] = Parameter(query, p)
        BY <3>1 DEF HasFields
      <4>2. p \in 1..n /\ p < n /\ more[i] = Parameter(query, p) /\ more[j] = Parameter(query, n)
        BY <1>1, <2>1, <2>3, <3>1, <3>2, <4>1
      <4> QED
        BY <1>1, <4>2
    <3>3. CASE j \in 1..Len(params)
      <4>1. PICK p \in 1..n - 1, q \in 1..n - 1 :
                p < q /\ params[i] = Parameter(query, p) /\ params[j] = Parameter(query, q)
        BY <2>6, <3>1, <3>3 DEF HasFields
      <4>2. p \in 1..n /\ q \in 1..n /\ more[i] = Parameter(query, p) /\ more[j] = Parameter(query, q)
        BY <1>1, <2>3, <3>1, <3>3, <4>1
      <4> QED
        BY <4>1, <4>2
    <3> QED
      BY <2>4, <3>2, <3>3
  <2>7. ASSUME NEW p \in 1..n, FormFields[p] \in DOMAIN query
        PROVE  \E i \in 1..Len(more) : more[i] = Parameter(query, p)
    <3>1. CASE p = n
      <4>1. Len(params) + 1 \in 1..Len(more)
        BY <1>1, <2>3
      <4> QED
        BY <2>1, <2>3, <3>1, <4>1
    <3>2. CASE p \in 1..n - 1
      <4>1. PICK i \in 1..Len(params) : params[i] = Parameter(query, p)
        BY <2>7, <3>2 DEF HasFields
      <4>2. i \in 1..Len(more) /\ more[i] = Parameter(query, p)
        BY <1>1, <2>3, <4>1
      <4> QED
        BY <4>2
    <3> QED
      BY <1>1, <3>1, <3>2
  <2> QED
    BY <2>3, <2>5, <2>6, <2>7 DEF HasFields
<1> QED
  BY <1>2, <1>3

\* The loop over the form gives the parameters of all its fields.
LEMMA GivenIs ==
    ASSUME NEW query, IsQuery(query), NEW len \in Nat, IsForm(len)
    PROVE  Given(query) \in Seq(FormParameters) /\ HasFields(Given(query), query, len)
<1> DEFINE step == [x \in Seq(FormParameters) \X (1..len) |-> WithField(x[1], query, x[2])]
<1>1. \A params \in Seq(FormParameters), n \in 1..len : WithField(params, query, n) \in Seq(FormParameters)
  <2> TAKE params \in Seq(FormParameters), n \in 1..len
  <2>1. CASE FormFields[n] \in DOMAIN query
    <3>1. Append(params, Parameter(query, n)) \in Seq(FormParameters)
      BY <2>1, ParameterIs, AppendProperties
    <3> QED
      BY <2>1, <3>1, Zenon DEF WithField
  <2>2. CASE FormFields[n] \notin DOMAIN query
    BY <2>2, Zenon DEF WithField
  <2> QED
    BY <2>1, <2>2
<1>2. /\ step \in [Seq(FormParameters) \X (1..len) -> Seq(FormParameters)]
      /\ \A params \in Seq(FormParameters), n \in 1..len : step[<<params, n>>] = WithField(params, query, n)
  BY <1>1
<1> HIDE DEF step
<1>3. PICK g \in [0..len -> Seq(FormParameters)] : IsTable(g, <<>>, step, len)
  BY <1>2, EmptySeq, TableExists
<1>4. \A n \in 1..len : n \in 0..len /\ n # 0 /\ n - 1 \in 0..len
  OBVIOUS
<1>5. g[0] = <<>> /\ \A n \in 1..len : g[n] = WithField(g[n-1], query, n)
  BY <1>2, <1>3, <1>4 DEF IsTable
<1> DEFINE Loop(f) ==
               f = [n \in 0..Len(FormFields) |->
                       IF n = 0 THEN <<>>
                       ELSE IF FormFields[n] \in DOMAIN query
                            THEN Append(f[n-1], <<FormFields[n], query[FormFields[n]]>>)
                            ELSE f[n-1]]
           f == CHOOSE h : Loop(h)
<1>6. Loop(f)
  <2>1. \A n \in 0..len : n # 0 => n \in 1..len
    OBVIOUS
  <2>2. \A n \in 0..len : g[n] = IF n = 0 THEN <<>> ELSE WithField(g[n-1], query, n)
    BY <1>5, <2>1, Zenon
  <2>3. g = [n \in 0..len |-> IF n = 0 THEN <<>> ELSE WithField(g[n-1], query, n)]
    BY <1>3, <2>2
  <2>4. Loop(g)
    BY <2>3, Zenon DEF WithField, Parameter, IsForm
  <2> HIDE DEF Loop
  <2> QED
    BY <2>4
<1>7. Given(query) = f[len]
  BY DEF Given, IsForm
<1>8. f = [n \in 0..len |-> IF n = 0 THEN <<>> ELSE WithField(f[n-1], query, n)]
  <2> HIDE DEF f
  <2> QED
    BY <1>6, Zenon DEF WithField, Parameter, IsForm
<1> HIDE DEF f, Loop
<1>9. f[0] = <<>> /\ \A n \in 1..len : f[n] = WithField(f[n-1], query, n)
  <2>1. 0 \in 0..len
    OBVIOUS
  <2> QED
    BY <1>4, <1>8, <2>1, Zenon
<1> DEFINE Right == { n \in 0..len : f[n] \in Seq(FormParameters) /\ HasFields(f[n], query, n) }
<1>10. 0 \in Right
  <2>1. <<>> \in Seq(FormParameters) /\ Len(<<>>) = 0
    BY EmptySeq
  <2>2. PICK none \in Seq(FormParameters) : none = f[0] /\ Len(none) = 0
    BY <1>9, <2>1
  <2>3. HasFields(none, query, 0)
    BY <2>2 DEF HasFields
  <2> QED
    BY <2>2, <2>3
<1>11. ASSUME NEW n \in 1..len, n - 1 \in Right PROVE n \in Right
  <2>1. f[n-1] \in Seq(FormParameters) /\ HasFields(f[n-1], query, n - 1)
    BY <1>11, Zenon
  <2>2. f[n] \in Seq(FormParameters) /\ HasFields(f[n], query, n)
    BY <1>9, <2>1, FieldAdded, Zenon
  <2> QED
    BY <1>4, <2>2
<1>12. len \in Right
  <2> HIDE DEF Right
  <2>1. len \in 0..len
    OBVIOUS
  <2> QED
    BY <1>10, <1>11, <2>1, UpTo
<1> QED
  BY <1>7, <1>12, Zenon

-----------------------------------------------------------------------------
(* What parameters ask                                                     *)

\* Asks, by the fields and values of the parameters.
AsksFor(params, query, n) ==
    /\ \A i, j \in 1..n : params[i][1] = params[j][1] => i = j
    /\ \A i \in 1..n : params[i][1] \in DOMAIN query \cup {LastDays}
    /\ \A f \in DOMAIN query \cup {LastDays} : \E i \in 1..n : params[i][1] = f
    /\ \A i \in 1..n : params[i][2] = IF params[i][1] \in DOMAIN query THEN query[params[i][1]] ELSE Week
    /\ \A i, j \in 1..n : i < j /\ params[i][1] \in DOMAIN query /\ params[j][1] \in DOMAIN query
                             => FormPlace(params[i][1]) < FormPlace(params[j][1])
    /\ LastDays \notin DOMAIN query => params[n][1] = LastDays

LEMMA AsksIs ==
    ASSUME NEW query, NEW params \in Seq(FormParameters), NEW n \in Nat, n = Len(params)
    PROVE  Asks(params, query) <=> AsksFor(params, query, n)
<1>1. DOMAIN params = 1..n /\ \A i \in 1..n : params[i] \in FormParameters
  BY LenProperties, ElementOfSeq
<1> DEFINE fields == [i \in DOMAIN params |-> params[i][1]]
<1>2. DOMAIN fields = 1..n /\ \A i \in 1..n : fields[i] = params[i][1]
  BY <1>1
<1>3. Len(fields) = n
  <2>1. fields \in [1..n -> ToSet(FormFields)]
    BY <1>1 DEF FormParameters
  <2> HIDE DEF fields
  <2>2. fields \in Seq(ToSet(FormFields))
    BY <2>1, SeqDef
  <2>3. Len(fields) \in Nat /\ DOMAIN fields = 1..Len(fields)
    BY <2>2, LenProperties
  <2> QED
    BY <1>2, <2>3
<1>4. Asks(params, query) <=>
        /\ IsInjective(fields) /\ ToSet(fields) = DOMAIN query \cup {LastDays}
        /\ \A i \in DOMAIN params :
              params[i][2] = IF fields[i] \in DOMAIN query THEN query[fields[i]] ELSE Week
        /\ \A i, j \in DOMAIN fields :
              i < j /\ fields[i] \in DOMAIN query /\ fields[j] \in DOMAIN query
              => FormPlace(fields[i]) < FormPlace(fields[j])
        /\ LastDays \notin DOMAIN query => Last(fields) = LastDays
  BY Zenon DEF Asks
<1> HIDE DEF fields
<1>5. IsInjective(fields) <=> \A i, j \in 1..n : params[i][1] = params[j][1] => i = j
  BY <1>2 DEF IsInjective
<1>6. ToSet(fields) = { params[i][1] : i \in 1..n }
  BY <1>2 DEF ToSet
<1>7. ToSet(fields) = DOMAIN query \cup {LastDays} <=>
        /\ \A i \in 1..n : params[i][1] \in DOMAIN query \cup {LastDays}
        /\ \A f \in DOMAIN query \cup {LastDays} : \E i \in 1..n : params[i][1] = f
  BY <1>6
<1>8. Last(fields) = fields[n]
  BY <1>3 DEF Last
<1>9. (\E i \in 1..n : params[i][1] = LastDays) => fields[n] = params[n][1]
  BY <1>2
<1>10. (\A i \in DOMAIN params :
           params[i][2] = IF fields[i] \in DOMAIN query THEN query[fields[i]] ELSE Week)
       <=> \A i \in 1..n :
              params[i][2] = IF params[i][1] \in DOMAIN query THEN query[params[i][1]] ELSE Week
  BY <1>1, <1>2, Zenon
<1>11. (\A i, j \in DOMAIN fields :
           i < j /\ fields[i] \in DOMAIN query /\ fields[j] \in DOMAIN query
           => FormPlace(fields[i]) < FormPlace(fields[j]))
       <=> \A i, j \in 1..n :
              i < j /\ params[i][1] \in DOMAIN query /\ params[j][1] \in DOMAIN query
              => FormPlace(params[i][1]) < FormPlace(params[j][1])
  BY <1>2
<1>12. (\A f \in DOMAIN query \cup {LastDays} : \E i \in 1..n : params[i][1] = f)
       => Last(fields) = params[n][1]
  BY <1>8, <1>9
<1> QED
  BY <1>4, <1>5, <1>7, <1>10, <1>11, <1>12, Zenon DEF AsksFor

\* The page of a query asks it.
LEMMA PageAsks ==
    ASSUME NEW query, IsQuery(query)
    PROVE  /\ SearchURL(query) = [page |-> "form", parameters |-> SearchURL(query).parameters]
           /\ SearchURL(query).parameters \in Seq(FormParameters)
           /\ Asks(SearchURL(query).parameters, query)
<1>1. PICK len \in Nat : IsForm(len)
  BY FormIs
<1>2. PICK given \in Seq(FormParameters) : given = Given(query) /\ HasFields(given, query, len)
  BY <1>1, GivenIs
<1>3. PICK n \in Nat : n = Len(given)
  BY <1>2, LenProperties
<1>4. /\ \A p, q \in 1..len : FormFields[p] = FormFields[q] => p = q
      /\ \A p \in 1..len : FormPlace(FormFields[p]) = p
      /\ \A f \in DOMAIN query \cup {LastDays} : \E p \in 1..len : f = FormFields[p]
  BY <1>1, SearchAssumption DEF IsForm, IsQuery
<1>5. \A p \in 1..len : Parameter(query, p)[1] = FormFields[p] /\ Parameter(query, p)[2] = query[FormFields[p]]
  BY DEF Parameter
<1>6. /\ \A i \in 1..n : \E p \in 1..len : FormFields[p] \in DOMAIN query /\ given[i] = Parameter(query, p)
      /\ \A i, j \in 1..n : i < j => \E p, q \in 1..len :
            p < q /\ given[i] = Parameter(query, p) /\ given[j] = Parameter(query, q)
      /\ \A p \in 1..len : FormFields[p] \in DOMAIN query =>
            \E i \in 1..n : given[i] = Parameter(query, p)
  BY <1>2, <1>3 DEF HasFields
<1>7. \A i \in 1..n : given[i][1] \in DOMAIN query /\ given[i][2] = query[given[i][1]]
  <2> TAKE i \in 1..n
  <2>1. PICK p \in 1..len : FormFields[p] \in DOMAIN query /\ given[i] = Parameter(query, p)
    BY <1>6
  <2>2. given[i][1] = FormFields[p] /\ given[i][2] = query[FormFields[p]]
    BY <1>5, <2>1
  <2> QED
    BY <2>1, <2>2
<1>8. \A i, j \in 1..n : i < j => FormPlace(given[i][1]) < FormPlace(given[j][1])
  <2> TAKE i, j \in 1..n
  <2> HAVE i < j
  <2>1. PICK p \in 1..len, q \in 1..len : p < q /\ given[i] = Parameter(query, p) /\ given[j] = Parameter(query, q)
    BY <1>6
  <2> QED
    BY <1>4, <1>5, <2>1
<1>9. \A i, j \in 1..n : given[i][1] = given[j][1] => i = j
  <2>1. \A i \in 1..n : \E p \in 1..len : given[i][1] = FormFields[p]
    BY <1>5, <1>6
  <2>2. \A i \in 1..n : FormPlace(given[i][1]) \in Nat
    BY <1>4, <2>1
  <2>3. \A i, j \in 1..n : i < j \/ j < i \/ i = j
    OBVIOUS
  <2> QED
    BY <1>8, <2>2, <2>3
<1>10. \A f \in DOMAIN query : \E i \in 1..n : given[i][1] = f
  <2> TAKE f \in DOMAIN query
  <2>1. PICK p \in 1..len : f = FormFields[p]
    BY <1>4
  <2>2. PICK i \in 1..n : given[i] = Parameter(query, p)
    BY <1>6, <2>1
  <2> QED
    BY <1>5, <2>1, <2>2
<1>11. CASE LastDays \in DOMAIN query
  <2>1. SearchURL(query) = [page |-> "form", parameters |-> given]
    BY <1>2, <1>11, Zenon DEF SearchURL
  <2>2. AsksFor(given, query, n)
    BY <1>7, <1>8, <1>9, <1>10, <1>11 DEF AsksFor
  <2>3. Asks(given, query)
    BY <1>3, <2>2, AsksIs
  <2>4. SearchURL(query).parameters = given
    BY <2>1
  <2> QED
    BY <2>1, <2>3, <2>4
<1>12. CASE LastDays \notin DOMAIN query
  <2>1. PICK last \in FormParameters : last = <<LastDays, Week>>
    BY SearchAssumption DEF FormParameters
  <2>2. PICK params \in Seq(FormParameters) :
            /\ params = Append(given, last) /\ Len(params) = n + 1
            /\ \A i \in 1..n : params[i] = given[i]
            /\ params[n + 1] = last
    BY <1>3, AppendProperties
  <2>3. SearchURL(query) = [page |-> "form", parameters |-> params]
    BY <1>2, <1>12, <2>1, <2>2, Zenon DEF SearchURL
  <2>4. /\ \A i \in 1..n + 1 : i \in 1..n \/ i = n + 1
        /\ \A i \in 1..n : i \in 1..n + 1
        /\ n + 1 \in 1..n + 1
    OBVIOUS
  <2>5. /\ \A i \in 1..n : params[i][1] = given[i][1] /\ params[i][2] = given[i][2] /\ params[i][1] # LastDays
        /\ params[n + 1][1] = LastDays /\ params[n + 1][2] = Week
    BY <1>7, <1>12, <2>1, <2>2
  <2>6. \A i, j \in 1..n + 1 : params[i][1] = params[j][1] => i = j
    BY <1>9, <2>4, <2>5
  <2>7. \A i \in 1..n + 1 : params[i][1] \in DOMAIN query \cup {LastDays}
    BY <1>7, <2>4, <2>5
  <2>8. \A f \in DOMAIN query \cup {LastDays} : \E i \in 1..n + 1 : params[i][1] = f
    BY <1>10, <2>4, <2>5
  <2>9. \A i \in 1..n + 1 :
            params[i][2] = IF params[i][1] \in DOMAIN query THEN query[params[i][1]] ELSE Week
    <3> TAKE i \in 1..n + 1
    <3>1. CASE i \in 1..n
      <4>1. params[i][1] \in DOMAIN query /\ params[i][2] = query[params[i][1]]
        BY <1>7, <2>5, <3>1
      <4> QED
        BY <4>1
    <3>2. CASE i = n + 1
      BY <1>12, <2>5, <3>2
    <3> QED
      BY <2>4, <3>1, <3>2
  <2>10. \A i, j \in 1..n + 1 : i < j /\ params[i][1] \in DOMAIN query /\ params[j][1] \in DOMAIN query
                                   => FormPlace(params[i][1]) < FormPlace(params[j][1])
    BY <1>8, <1>12, <2>4, <2>5
  <2>11. AsksFor(params, query, n + 1)
    BY <2>5, <2>6, <2>7, <2>8, <2>9, <2>10 DEF AsksFor
  <2>12. Asks(params, query)
    <3>1. n + 1 \in Nat
      OBVIOUS
    <3> QED
      BY <2>2, <2>11, <3>1, AsksIs
  <2>13. SearchURL(query).parameters = params
    BY <2>3
  <2> QED
    BY <2>3, <2>12, <2>13
<1> QED
  BY <1>11, <1>12

\* The place of a parameter: the fields that are given, then the default.
Rank(query, f) == IF f \in DOMAIN query THEN FormPlace(f) ELSE Len(FormFields) + 1

LEMMA RanksGrow ==
    ASSUME NEW query, IsQuery(query), NEW params, NEW n \in Nat, AsksFor(params, query, n)
    PROVE  /\ \A i \in 1..n : Rank(query, params[i][1]) \in Nat
           /\ \A i, j \in 1..n : i < j => Rank(query, params[i][1]) < Rank(query, params[j][1])
<1>1. PICK len \in Nat : IsForm(len)
  BY FormIs
<1>2. /\ len = Len(FormFields)
      /\ \A f \in DOMAIN query : FormPlace(f) \in 1..len
  BY <1>1 DEF IsForm, IsQuery
<1>3. \A i \in 1..n : Rank(query, params[i][1]) \in Nat
  BY <1>2 DEF Rank
<1>4. ASSUME NEW i \in 1..n, NEW j \in 1..n, i < j
      PROVE  Rank(query, params[i][1]) < Rank(query, params[j][1])
  <2>1. params[i][1] \in DOMAIN query
    <3>1. CASE LastDays \in DOMAIN query
      BY <3>1 DEF AsksFor
    <3>2. CASE LastDays \notin DOMAIN query
      <4>1. n \in 1..n /\ i # n /\ params[n][1] = LastDays
        BY <1>4, <3>2 DEF AsksFor
      <4>2. params[i][1] # LastDays
        BY <4>1 DEF AsksFor
      <4> QED
        BY <4>2 DEF AsksFor
    <3> QED
      BY <3>1, <3>2
  <2>2. CASE params[j][1] \in DOMAIN query
    BY <1>4, <2>1, <2>2 DEF AsksFor, Rank
  <2>3. CASE params[j][1] \notin DOMAIN query
    BY <1>2, <2>1, <2>3 DEF Rank
  <2> QED
    BY <2>2, <2>3
<1> QED
  BY <1>3, <1>4

\* The fields before the k-th are the same.
AgreeBefore(s, t, n, k) == \A i \in 1..k - 1 : i \in 1..n /\ s[i][1] = t[i][1]

\* Up to where two lists of parameters agree, neither may end, nor have a later
\* field next than the other.
LEMMA NotBehind ==
    ASSUME NEW query, IsQuery(query),
           NEW s, NEW m \in Nat, AsksFor(s, query, m),
           NEW t, NEW n \in Nat, AsksFor(t, query, n),
           NEW k \in 1..m, AgreeBefore(s, t, n, k)
    PROVE  /\ k \in 1..n
           /\ s[k][1] = t[k][1] \/ Rank(query, t[k][1]) < Rank(query, s[k][1])
<1>1. PICK l \in 1..n : t[l][1] = s[k][1]
  BY DEF AsksFor
<1>2. ~(l < k)
  <2> SUFFICES ASSUME l < k PROVE FALSE
    OBVIOUS
  <2>1. l \in 1..k - 1 /\ l \in 1..m /\ l # k
    OBVIOUS
  <2>2. l \in 1..n /\ s[l][1] = t[l][1]
    BY <2>1 DEF AgreeBefore
  <2> QED
    BY <1>1, <2>1, <2>2 DEF AsksFor
<1>3. k \in 1..n
  BY <1>2
<1>4. l = k \/ k < l
  BY <1>2
<1> QED
  BY <1>1, <1>3, <1>4, RanksGrow

\* Only one list of parameters asks a query.
LEMMA AsksOnce ==
    ASSUME NEW query, IsQuery(query),
           NEW s \in Seq(FormParameters), Asks(s, query),
           NEW t \in Seq(FormParameters), Asks(t, query)
    PROVE  s = t
<1>1. PICK m \in Nat : m = Len(s) /\ AsksFor(s, query, m)
  BY LenProperties, AsksIs
<1>2. PICK n \in Nat : n = Len(t) /\ AsksFor(t, query, n)
  BY LenProperties, AsksIs
<1> DEFINE Agree(k) == k \in 1..m /\ k \in 1..n /\ s[k][1] = t[k][1]
           Bad == { k \in Nat : k # 0 /\ (k <= m \/ k <= n) /\ ~Agree(k) }
<1>3. ASSUME Bad # {} PROVE FALSE
  <2>1. PICK k \in Bad : \A i \in Bad : k <= i
    <3>1. Bad \subseteq Nat
      OBVIOUS
    <3> HIDE DEF Bad
    <3> QED
      BY <1>3, <3>1, Least
  <2>2. \A i \in 1..k - 1 : Agree(i)
    <3> TAKE i \in 1..k - 1
    <3>1. i \in Nat /\ i # 0 /\ (i <= m \/ i <= n) /\ ~(k <= i)
      BY <2>1
    <3> QED
      BY <2>1, <3>1
  <2>3. AgreeBefore(s, t, n, k) /\ AgreeBefore(t, s, m, k)
    BY <2>2 DEF AgreeBefore
  <2>4. k \in Nat /\ k # 0 /\ (k <= m \/ k <= n) /\ ~Agree(k)
    BY <2>1
  <2>5. ASSUME k \in 1..m
        PROVE  k \in 1..n /\ (s[k][1] = t[k][1] \/ Rank(query, t[k][1]) < Rank(query, s[k][1]))
    BY <1>1, <1>2, <2>3, <2>5, NotBehind, Zenon
  <2>6. ASSUME k \in 1..n
        PROVE  k \in 1..m /\ (t[k][1] = s[k][1] \/ Rank(query, s[k][1]) < Rank(query, t[k][1]))
    BY <1>1, <1>2, <2>3, <2>6, NotBehind, Zenon
  <2>7. k \in 1..m /\ k \in 1..n
    BY <2>4, <2>5, <2>6
  <2>8. Rank(query, s[k][1]) \in Nat /\ Rank(query, t[k][1]) \in Nat
    BY <1>1, <1>2, <2>7, RanksGrow
  <2> QED
    BY <2>4, <2>5, <2>6, <2>7, <2>8
<1>4. m = n /\ \A k \in 1..m : s[k][1] = t[k][1]
  <2>1. \A k \in Nat : k # 0 /\ (k <= m \/ k <= n) => Agree(k)
    BY <1>3
  <2> HIDE DEF Agree
  <2>2. (m # 0 => Agree(m)) /\ (n # 0 => Agree(n))
    BY <2>1
  <2>3. m <= n /\ n <= m
    BY <2>2 DEF Agree
  <2>4. \A k \in 1..m : k \in Nat /\ k # 0 /\ k <= m
    OBVIOUS
  <2> QED
    BY <2>1, <2>3, <2>4 DEF Agree
<1>5. \A k \in 1..m : s[k] = t[k]
  <2> TAKE k \in 1..m
  <2>1. s[k] \in FormParameters /\ t[k] \in FormParameters
    BY <1>1, <1>2, <1>4, ElementOfSeq
  <2>2. s[k][1] = t[k][1]
    BY <1>4
  <2>3. /\ s[k][2] = IF s[k][1] \in DOMAIN query THEN query[s[k][1]] ELSE Week
        /\ t[k][2] = IF t[k][1] \in DOMAIN query THEN query[t[k][1]] ELSE Week
    BY <1>1, <1>2, <1>4 DEF AsksFor
  <2>4. s[k][2] = t[k][2]
    <3>1. PICK f : f = s[k][1] /\ f = t[k][1]
      BY <2>2, Zenon
    <3>2. PICK v : v = IF f \in DOMAIN query THEN query[f] ELSE Week
      BY Zenon
    <3>3. s[k][2] = v /\ t[k][2] = v
      BY <2>3, <3>1, <3>2, Zenon
    <3> QED
      BY <3>3, Zenon
  <2>5. \A X, Y : \A e, d \in X \X Y : e[1] = d[1] /\ e[2] = d[2] => e = d
    OBVIOUS
  <2>6. \A e, d \in FormParameters : e[1] = d[1] /\ e[2] = d[2] => e = d
    BY <2>5 DEF FormParameters
  <2> QED
    BY <2>1, <2>2, <2>4, <2>6, Zenon
<1> QED
  BY <1>1, <1>2, <1>4, <1>5, SeqEqual

-----------------------------------------------------------------------------
(* Pages in the order of their requests                                    *)

\* The pages are those that some requests ask for, ordered by the first request
\* for each; url is the page of each request.
TellsFirst(url, urls, len, requests) ==
    /\ \A i \in 1..len : \E r \in requests : urls[i] = url[r]
    /\ \A r \in requests : \E i \in 1..len : urls[i] = url[r]
    /\ \A i, j \in 1..len : i < j =>
          \E a \in requests : urls[i] = url[a] /\ \A b \in requests : urls[j] = url[b] => Before(a, b)

Tells(url, urls, requests) == TellsFirst(url, urls, Len(urls), requests)

\* Some request for one page comes before all those for another.
IsFirst(page, other, url, requests) ==
    \E a \in requests : page = url[a] /\ \A b \in requests : other = url[b] => Before(a, b)

LEMMA FirstTold ==
    ASSUME NEW url, NEW urls, NEW len, NEW requests, TellsFirst(url, urls, len, requests),
           NEW i \in 1..len, NEW j \in 1..len, i < j
    PROVE  IsFirst(urls[i], urls[j], url, requests)
<1>1. \A m, n \in 1..len : m < n => IsFirst(urls[m], urls[n], url, requests)
  BY Zenon DEF TellsFirst, IsFirst
<1> QED
  BY <1>1

LEMMA UniqueAppended ==
    ASSUME NEW U, NEW urls \in Seq(U), NEW u \in U
    PROVE  AppendUnique(urls, u) \in Seq(U)
<1>1. Append(urls, u) \in Seq(U)
  BY AppendProperties
<1> QED
  BY <1>1, Zenon DEF AppendUnique

\* A request later than all others adds its page at the end, or none.
LEMMA RequestTold ==
    ASSUME NEW K, NEW U, NEW url \in [K -> U], NEW urls \in Seq(U),
           NEW requests \in SUBSET K, Tells(url, urls, requests),
           NEW r \in K, \A a \in requests : Before(a, r),
           NEW more, more = AppendUnique(urls, url[r])
    PROVE  Tells(url, more, requests \cup {r})
<1>1. PICK len \in Nat : len = Len(urls)
  BY LenProperties
<1>2. /\ \A i \in 1..len : \E a \in requests : urls[i] = url[a]
      /\ \A a \in requests : \E i \in 1..len : urls[i] = url[a]
      /\ \A i, j \in 1..len : i < j =>
            \E a \in requests : urls[i] = url[a] /\ \A b \in requests : urls[j] = url[b] => Before(a, b)
  <2>1. TellsFirst(url, urls, len, requests)
    BY <1>1, Zenon DEF Tells
  <2> QED
    BY <2>1, Zenon DEF TellsFirst
<1>3. CASE Contains(urls, url[r])
  <2>1. more = urls
    BY <1>3, Zenon DEF AppendUnique
  <2>2. \E i \in 1..len : urls[i] = url[r]
    BY <1>1, <1>3 DEF Contains
  <2>3. ASSUME NEW i \in 1..len, NEW j \in 1..len, i < j
        PROVE  \E a \in requests \cup {r} :
                  urls[i] = url[a] /\ \A b \in requests \cup {r} : urls[j] = url[b] => Before(a, b)
    <3>1. PICK a \in requests : urls[i] = url[a] /\ \A b \in requests : urls[j] = url[b] => Before(a, b)
      BY <1>2, <2>3
    <3>2. \A b \in requests \cup {r} : urls[j] = url[b] => Before(a, b)
      BY <3>1, Zenon
    <3> QED
      BY <3>1, <3>2, Zenon
  <2>4. /\ \A i \in 1..len : \E a \in requests \cup {r} : urls[i] = url[a]
        /\ \A a \in requests \cup {r} : \E i \in 1..len : urls[i] = url[a]
    BY <1>2, <2>2, Zenon
  <2> QED
    <3>1. TellsFirst(url, urls, len, requests \cup {r})
      BY <2>3, <2>4 DEF TellsFirst
    <3> QED
      BY <1>1, <2>1, <3>1, Zenon DEF Tells
<1>4. CASE ~Contains(urls, url[r])
  <2>1. PICK u \in U : u = url[r]
    OBVIOUS
  <2>2. more = Append(urls, u)
    BY <1>4, <2>1, Zenon DEF AppendUnique
  <2>3. /\ Len(more) = len + 1
        /\ \A i \in 1..len : more[i] = urls[i]
        /\ more[len + 1] = u
    BY <1>1, <2>2, AppendProperties
  <2>4. /\ \A i \in 1..len + 1 : i \in 1..len \/ i = len + 1
        /\ \A i \in 1..len : i \in 1..len + 1
        /\ len + 1 \in 1..len + 1
    OBVIOUS
  <2>5. \A a \in requests : url[a] # u
    <3>1. \A i \in 1..len : urls[i] # u
      BY <1>1, <1>4, <2>1 DEF Contains
    <3> QED
      BY <1>2, <3>1, Zenon
  <2>6. \A i \in 1..len + 1 : \E a \in requests \cup {r} : more[i] = url[a]
    <3> TAKE i \in 1..len + 1
    <3>1. CASE i \in 1..len
      <4>1. PICK a \in requests : urls[i] = url[a]
        BY <1>2, <3>1, Zenon
      <4> QED
        BY <2>3, <3>1, <4>1, Zenon
    <3>2. CASE i = len + 1
      BY <2>1, <2>3, <3>2, Zenon
    <3> QED
      BY <2>4, <3>1, <3>2
  <2>7. \A a \in requests \cup {r} : \E i \in 1..len + 1 : more[i] = url[a]
    <3>1. ASSUME NEW a \in requests PROVE \E i \in 1..len + 1 : more[i] = url[a]
      <4>1. PICK i \in 1..len : urls[i] = url[a]
        BY <1>2, Zenon
      <4> QED
        BY <2>3, <2>4, <4>1, Zenon
    <3>2. \E i \in 1..len + 1 : more[i] = url[r]
      BY <2>1, <2>3, <2>4, Zenon
    <3> QED
      BY <3>1, <3>2
  <2>8. ASSUME NEW i \in 1..len + 1, NEW j \in 1..len + 1, i < j
        PROVE  \E a \in requests \cup {r} :
                  more[i] = url[a] /\ \A b \in requests \cup {r} : more[j] = url[b] => Before(a, b)
    <3>1. i \in 1..len
      BY <2>8
    <3>2. CASE j \in 1..len
      <4>1. PICK a \in requests : urls[i] = url[a] /\ \A b \in requests : urls[j] = url[b] => Before(a, b)
        BY <1>2, <2>8, <3>1, <3>2
      <4>2. more[i] = url[a] /\ \A b \in requests \cup {r} : more[j] = url[b] => Before(a, b)
        BY <2>3, <3>1, <3>2, <4>1, Zenon
      <4> QED
        BY <4>2, Zenon
    <3>3. CASE j = len + 1
      <4>1. PICK a \in requests : urls[i] = url[a]
        BY <1>2, <3>1, Zenon
      <4>2. \A b \in requests \cup {r} : more[j] = url[b] => Before(a, b)
        BY <2>3, <2>5, <3>3, Zenon
      <4> QED
        BY <2>3, <3>1, <4>1, <4>2, Zenon
    <3> QED
      BY <2>4, <3>2, <3>3
  <2> QED
    <3>1. TellsFirst(url, more, len + 1, requests \cup {r})
      BY <2>6, <2>7, <2>8 DEF TellsFirst
    <3> QED
      BY <2>3, <3>1, Zenon DEF Tells
<1> QED
  BY <1>3, <1>4

\* The loop that appends each of some pages.
IsList(more, len, U) == len = Len(more) /\ \A n \in 1..len : more[n] \in U

IsAppending(f, urls, more, len) ==
    /\ f[0] = urls /\ \A n \in 1..len : f[n] = AppendUnique(f[n-1], more[n])
    /\ AppendEach(urls, more) = f[len]

LEMMA EachTable ==
    ASSUME NEW U, NEW urls \in Seq(U), NEW len \in Nat, NEW more, IsList(more, len, U)
    PROVE  \E f \in [0..len -> Seq(U)] : IsAppending(f, urls, more, len)
<1>0. len = Len(more) /\ \A n \in 1..len : more[n] \in U
  BY DEF IsList
<1> DEFINE step == [x \in Seq(U) \X (1..len) |-> AppendUnique(x[1], more[x[2]])]
<1>1. \A s \in Seq(U), n \in 1..len : AppendUnique(s, more[n]) \in Seq(U)
  BY <1>0, UniqueAppended
<1>2. /\ step \in [Seq(U) \X (1..len) -> Seq(U)]
      /\ \A s \in Seq(U), n \in 1..len : step[<<s, n>>] = AppendUnique(s, more[n])
  BY <1>1
<1> HIDE DEF step
<1>3. PICK g \in [0..len -> Seq(U)] : IsTable(g, urls, step, len)
  BY <1>2, TableExists
<1>4. 0 \in 0..len /\ \A n \in 1..len : n \in 0..len /\ n # 0 /\ n - 1 \in 0..len
  OBVIOUS
<1>5. g[0] = urls /\ \A n \in 1..len : g[n] = AppendUnique(g[n-1], more[n])
  BY <1>2, <1>3, <1>4 DEF IsTable
<1> DEFINE Loop(f) == f = [n \in 0..Len(more) |-> IF n = 0 THEN urls ELSE AppendUnique(f[n-1], more[n])]
           f == CHOOSE h : Loop(h)
<1>6. Loop(f)
  <2>1. \A n \in 0..len : n # 0 => n \in 1..len
    OBVIOUS
  <2>2. \A n \in 0..len : g[n] = IF n = 0 THEN urls ELSE AppendUnique(g[n-1], more[n])
    BY <1>5, <2>1, Zenon
  <2>3. g = [n \in 0..len |-> IF n = 0 THEN urls ELSE AppendUnique(g[n-1], more[n])]
    BY <1>3, <2>2
  <2>4. Loop(g)
    BY <1>0, <2>3, Zenon
  <2> HIDE DEF Loop
  <2> QED
    BY <2>4
<1>7. AppendEach(urls, more) = f[len]
  BY <1>0 DEF AppendEach
<1>8. f = [n \in 0..len |-> IF n = 0 THEN urls ELSE AppendUnique(f[n-1], more[n])]
  <2> HIDE DEF f
  <2> QED
    BY <1>0, <1>6, Zenon
<1> HIDE DEF f, Loop
<1>9. f[0] = urls /\ \A n \in 1..len : f[n] = AppendUnique(f[n-1], more[n])
  BY <1>4, <1>8, Zenon
<1> DEFINE Right == { n \in 0..len : f[n] \in Seq(U) }
<1>10. 0 \in Right
  BY <1>4, <1>9, Zenon
<1>11. ASSUME NEW n \in 1..len, n - 1 \in Right PROVE n \in Right
  <2>1. AppendUnique(f[n-1], more[n]) \in Seq(U)
    BY <1>1, <1>11, Zenon
  <2> QED
    BY <1>4, <1>9, <2>1, Zenon
<1>12. 0..len \subseteq Right
  <2> HIDE DEF Right
  <2> QED
    BY <1>10, <1>11, UpTo
<1>13. f \in [0..len -> Seq(U)]
  <2>1. \A n \in 0..len : f[n] \in Seq(U)
    BY <1>12, Zenon
  <2>2. f = [n \in 0..len |-> f[n]]
    BY <1>8
  <2> QED
    BY <2>1, <2>2
<1> QED
  BY <1>7, <1>9, <1>13, Zenon DEF IsAppending

\* Pages of requests that come one after the other.
IsRanked(more, url, rank, len) ==
    /\ len = Len(more) /\ \A n \in 1..len : more[n] = url[rank[n]]
    /\ \A m, n \in 1..len : m < n => Before(rank[m], rank[n])

\* They are told behind earlier ones.
LEMMA EachTold ==
    ASSUME NEW K, NEW U, NEW url \in [K -> U], NEW urls \in Seq(U),
           NEW requests \in SUBSET K, Tells(url, urls, requests),
           NEW len \in Nat, NEW more, NEW rank \in [1..len -> K], IsRanked(more, url, rank, len),
           \A n \in 1..len : \A a \in requests : Before(a, rank[n])
    PROVE  /\ AppendEach(urls, more) \in Seq(U)
           /\ Tells(url, AppendEach(urls, more), requests \cup { rank[n] : n \in 1..len })
<1>0. /\ len = Len(more) /\ \A n \in 1..len : more[n] = url[rank[n]]
      /\ \A m, n \in 1..len : m < n => Before(rank[m], rank[n])
  BY DEF IsRanked
<1>1. PICK f \in [0..len -> Seq(U)] : IsAppending(f, urls, more, len)
  <2>1. IsList(more, len, U)
    BY <1>0 DEF IsList
  <2> QED
    BY <2>1, EachTable, Zenon
<1>2. /\ f[0] = urls /\ \A n \in 1..len : f[n] = AppendUnique(f[n-1], more[n])
      /\ AppendEach(urls, more) = f[len]
  BY <1>1, Zenon DEF IsAppending
<1> DEFINE Told(n) == requests \cup { rank[m] : m \in 1..n }
           Good == { n \in 0..len : Tells(url, f[n], Told(n)) }
<1>3. 0 \in Good
  <2>1. Told(0) = requests /\ 0 \in 0..len
    OBVIOUS
  <2> HIDE DEF Told
  <2> QED
    BY <1>2, <2>1, Zenon
<1>4. ASSUME NEW n \in 1..len, n - 1 \in Good PROVE n \in Good
  <2>0. n - 1 \in 0..len /\ n \in 0..len
    OBVIOUS
  <2>1. n \in 0..len /\ f[n-1] \in Seq(U)
    BY <1>1, <2>0, Zenon
  <2>2. Tells(url, f[n-1], Told(n-1))
    BY <1>4, Zenon
  <2>3. Told(n-1) \in SUBSET K /\ Told(n) = Told(n-1) \cup {rank[n]}
    <3>1. (1..n - 1) \subseteq 1..len /\ 1..n = (1..n - 1) \cup {n}
      OBVIOUS
    <3> QED
      BY <3>1
  <2>4. \A a \in Told(n-1) : Before(a, rank[n])
    <3>1. ASSUME NEW m \in 1..n - 1 PROVE Before(rank[m], rank[n])
      <4>1. m \in 1..len /\ m < n
        OBVIOUS
      <4> QED
        BY <1>0, <4>1
    <3> QED
      BY <3>1, Zenon
  <2>5. f[n] = AppendUnique(f[n-1], url[rank[n]]) /\ rank[n] \in K
    BY <1>0, <1>2, Zenon
  <2> HIDE DEF Told
  <2>6. Tells(url, f[n], Told(n-1) \cup {rank[n]})
    <3>1. PICK s \in Seq(U), T \in SUBSET K, k \in K : s = f[n-1] /\ T = Told(n-1) /\ k = rank[n]
      BY <2>1, <2>3, <2>5, Zenon
    <3>2. Tells(url, s, T) /\ \A a \in T : Before(a, k)
      BY <2>2, <2>4, <3>1, Zenon
    <3>3. Tells(url, AppendUnique(s, url[k]), T \cup {k})
      BY <3>2, RequestTold, Zenon
    <3> QED
      BY <2>5, <3>1, <3>3, Zenon
  <2> QED
    BY <2>1, <2>3, <2>6, Zenon
<1>5. len \in Good
  <2> HIDE DEF Good
  <2>1. len \in 0..len
    OBVIOUS
  <2> QED
    BY <1>3, <1>4, <2>1, UpTo
<1>6. len \in 0..len /\ f[len] \in Seq(U)
  BY <1>1
<1> QED
  BY <1>2, <1>5, <1>6, Zenon

-----------------------------------------------------------------------------
(* The pages of a search                                                   *)

\* A search that was decoded and is valid.
IsSearch(s) == SearchDecodes(s) /\ SearchIsValid(s)

\* The ranks of its requests, and the page that each asks for.
CategoryRanks(s) == { <<1, i, 0>> : i \in DOMAIN s.categories }

FilterRanks(s, p) ==
    IF FormFields[p] \in DOMAIN s.filters
    THEN { <<2, p, j>> : j \in DOMAIN s.filters[FormFields[p]] }
    ELSE {}

QueryRanks(s) == { <<3, i, 0>> : i \in DOMAIN s.queries }

RanksUpTo(s, n) == CategoryRanks(s) \cup UNION { FilterRanks(s, p) : p \in 1..n }

Ranks(s) == RanksUpTo(s, Len(FormFields)) \cup QueryRanks(s)

RankQuery(s, r) ==
    IF r[1] = 2 THEN [f \in {FormFields[r[2]]} |-> s.filters[FormFields[r[2]]][r[3]]]
    ELSE s.queries[r[2]]

RankURL(s, r) ==
    IF r[1] = 1 THEN CategoryURL(s.categories[r[2]]) ELSE SearchURL(RankQuery(s, r))

URLOf(s) == [r \in Ranks(s) |-> RankURL(s, r)]

PagesOf(s) == { RankURL(s, r) : r \in Ranks(s) }

LEMMA Earlier ==
    /\ \A a, b : a[1] < b[1] => Before(a, b)
    /\ \A a, b : a[1] = b[1] /\ a[2] < b[2] => Before(a, b)
    /\ \A a, b : a[1] = b[1] /\ a[2] = b[2] /\ a[3] < b[3] => Before(a, b)
<1>1. /\ 1 \in 1..3 /\ 2 \in 1..3 /\ 3 \in 1..3
      /\ \A l : l \notin 1..1 - 1
      /\ \A l \in 1..2 - 1 : l = 1
      /\ \A l \in 1..3 - 1 : l = 1 \/ l = 2
  OBVIOUS
<1>2. ASSUME NEW a, NEW b, a[1] < b[1] PROVE Before(a, b)
  BY <1>1, <1>2, Zenon DEF Before
<1>3. ASSUME NEW a, NEW b, a[1] = b[1], a[2] < b[2] PROVE Before(a, b)
  BY <1>1, <1>3, Zenon DEF Before
<1>4. ASSUME NEW a, NEW b, a[1] = b[1], a[2] = b[2], a[3] < b[3] PROVE Before(a, b)
  BY <1>1, <1>4, Zenon DEF Before
<1> QED
  BY <1>2, <1>3, <1>4, Zenon

LEMMA LenIs ==
    ASSUME NEW len \in Nat, NEW S, NEW list \in [1..len -> S]
    PROVE  Len(list) = len
<1>1. list \in Seq(S) /\ DOMAIN list = 1..len
  BY SeqDef
<1>2. Len(list) \in Nat /\ DOMAIN list = 1..Len(list)
  BY <1>1, LenProperties
<1> QED
  BY <1>1, <1>2

\* Pages of some requests, in their order.
IsBatch(more, url, K, requests) ==
    \E len \in Nat : \E rank \in [1..len -> K] :
        /\ IsRanked(more, url, rank, len)
        /\ requests = { rank[n] : n \in 1..len }

LEMMA BatchTold ==
    ASSUME NEW K, NEW U, NEW url \in [K -> U], NEW urls \in Seq(U),
           NEW more, NEW batch, IsBatch(more, url, K, batch)
    PROVE  /\ AppendEach(urls, more) \in Seq(U)
           /\ \A requests \in SUBSET K :
                 Tells(url, urls, requests) /\ (\A a \in requests, b \in batch : Before(a, b))
                 => Tells(url, AppendEach(urls, more), requests \cup batch)
<1>1. PICK len \in Nat : \E rank \in [1..len -> K] :
          /\ IsRanked(more, url, rank, len)
          /\ batch = { rank[n] : n \in 1..len }
  BY Zenon DEF IsBatch
<1>2. PICK rank \in [1..len -> K] :
          /\ IsRanked(more, url, rank, len)
          /\ batch = { rank[n] : n \in 1..len }
  BY <1>1, Zenon
<1>3. AppendEach(urls, more) \in Seq(U)
  <2>1. \A n \in 1..len : more[n] \in U
    BY <1>2 DEF IsRanked
  <2>2. IsList(more, len, U)
    BY <1>2, <2>1, Zenon DEF IsList, IsRanked
  <2>3. PICK f \in [0..len -> Seq(U)] : IsAppending(f, urls, more, len)
    BY <2>2, EachTable, Zenon
  <2>4. len \in 0..len /\ f[len] \in Seq(U)
    BY <2>3
  <2> QED
    BY <2>3, <2>4, Zenon DEF IsAppending
<1>4. ASSUME NEW requests \in SUBSET K, Tells(url, urls, requests),
             \A a \in requests, b \in batch : Before(a, b)
      PROVE  Tells(url, AppendEach(urls, more), requests \cup batch)
  <2>1. \A n \in 1..len : \A a \in requests : Before(a, rank[n])
    BY <1>2, <1>4, Zenon
  <2>2. IsRanked(more, url, rank, len)
    BY <1>2, Zenon
  <2>3. Tells(url, urls, requests)
    BY <1>4, Zenon
  <2>4. Tells(url, AppendEach(urls, more), requests \cup { rank[n] : n \in 1..len })
    BY <2>1, <2>2, <2>3, EachTold
  <2> QED
    BY <1>2, <2>4, Zenon
<1> QED
  BY <1>3, <1>4

LEMMA URLsAre ==
    ASSUME NEW s
    PROVE  /\ URLOf(s) \in [Ranks(s) -> PagesOf(s)]
           /\ \A r \in Ranks(s) : URLOf(s)[r] = RankURL(s, r) /\ RankURL(s, r) \in PagesOf(s)
BY DEF URLOf, PagesOf

LEMMA CategoryBatch ==
    ASSUME NEW s, IsSearch(s)
    PROVE  IsBatch(CategoryURLs(s.categories), URLOf(s), Ranks(s), CategoryRanks(s))
<1>1. PICK len \in Nat : DOMAIN s.categories = 1..len
  <2>1. s.categories \in Seq(ToSet(s.categories))
    BY DEF IsSearch, SearchDecodes
  <2> QED
    BY <2>1, LenProperties
<1> DEFINE rank == [i \in 1..len |-> <<1, i, 0>>]
           more == CategoryURLs(s.categories)
<1>2. CategoryRanks(s) = { <<1, i, 0>> : i \in 1..len }
  BY <1>1 DEF CategoryRanks
<1>3. CategoryRanks(s) \subseteq Ranks(s)
  BY DEF Ranks, RanksUpTo
<1>4. rank \in [1..len -> Ranks(s)] /\ \A i \in 1..len : rank[i] = <<1, i, 0>> /\ rank[i] \in Ranks(s)
  BY <1>2, <1>3
<1>5. more = [i \in 1..len |-> CategoryURL(s.categories[i])]
  BY <1>1 DEF CategoryURLs
<1>6. \A i \in 1..len : RankURL(s, <<1, i, 0>>) = CategoryURL(s.categories[i])
  BY DEF RankURL
<1>7. \A i \in 1..len : URLOf(s)[rank[i]] = CategoryURL(s.categories[i]) /\ CategoryURL(s.categories[i]) \in PagesOf(s)
  BY <1>4, <1>6, URLsAre
<1>8. more \in [1..len -> PagesOf(s)] /\ \A i \in 1..len : more[i] = CategoryURL(s.categories[i])
  BY <1>5, <1>7
<1> HIDE DEF more, rank
<1>9. len = Len(more)
  BY <1>8, LenIs
<1>10. \A m, n \in 1..len : m < n => Before(rank[m], rank[n])
  <2> TAKE m, n \in 1..len
  <2> HAVE m < n
  <2>1. rank[m][1] = rank[n][1] /\ rank[m][2] < rank[n][2]
    BY <1>4
  <2> QED
    BY <2>1, Earlier, Zenon
<1>11. CategoryRanks(s) = { rank[n] : n \in 1..len }
  BY <1>2, <1>4
<1>12. \A n \in 1..len : more[n] = URLOf(s)[rank[n]]
  BY <1>7, <1>8
<1>13. IsBatch(more, URLOf(s), Ranks(s), CategoryRanks(s))
  BY <1>4, <1>9, <1>10, <1>11, <1>12, Zenon DEF IsBatch, IsRanked
<1> QED
  BY <1>13 DEF more

LEMMA QueryBatch ==
    ASSUME NEW s, IsSearch(s)
    PROVE  IsBatch(QueryURLs(s.queries), URLOf(s), Ranks(s), QueryRanks(s))
<1>1. PICK len \in Nat : DOMAIN s.queries = 1..len
  <2>1. s.queries \in Seq(ToSet(s.queries))
    BY DEF IsSearch, SearchDecodes
  <2> QED
    BY <2>1, LenProperties
<1> DEFINE rank == [i \in 1..len |-> <<3, i, 0>>]
           more == QueryURLs(s.queries)
<1>2. QueryRanks(s) = { <<3, i, 0>> : i \in 1..len }
  BY <1>1 DEF QueryRanks
<1>3. QueryRanks(s) \subseteq Ranks(s)
  BY DEF Ranks
<1>4. rank \in [1..len -> Ranks(s)] /\ \A i \in 1..len : rank[i] = <<3, i, 0>> /\ rank[i] \in Ranks(s)
  BY <1>2, <1>3
<1>5. more = [i \in 1..len |-> SearchURL(s.queries[i])]
  BY <1>1 DEF QueryURLs
<1>6. \A i \in 1..len : RankURL(s, <<3, i, 0>>) = SearchURL(s.queries[i])
  BY DEF RankURL, RankQuery
<1>7. \A i \in 1..len : URLOf(s)[rank[i]] = SearchURL(s.queries[i]) /\ SearchURL(s.queries[i]) \in PagesOf(s)
  BY <1>4, <1>6, URLsAre
<1>8. more \in [1..len -> PagesOf(s)] /\ \A i \in 1..len : more[i] = SearchURL(s.queries[i])
  BY <1>5, <1>7
<1> HIDE DEF more, rank
<1>9. len = Len(more)
  BY <1>8, LenIs
<1>10. \A m, n \in 1..len : m < n => Before(rank[m], rank[n])
  <2> TAKE m, n \in 1..len
  <2> HAVE m < n
  <2>1. rank[m][1] = rank[n][1] /\ rank[m][2] < rank[n][2]
    BY <1>4
  <2> QED
    BY <2>1, Earlier, Zenon
<1>11. QueryRanks(s) = { rank[n] : n \in 1..len }
  BY <1>2, <1>4
<1>12. \A n \in 1..len : more[n] = URLOf(s)[rank[n]]
  BY <1>7, <1>8
<1>13. IsBatch(more, URLOf(s), Ranks(s), QueryRanks(s))
  BY <1>4, <1>9, <1>10, <1>11, <1>12, Zenon DEF IsBatch, IsRanked
<1> QED
  BY <1>13 DEF more

LEMMA FilterBatch ==
    ASSUME NEW s, IsSearch(s), NEW p \in 1..Len(FormFields)
    PROVE  IsBatch(FilterURLs(s.filters, FormFields[p]), URLOf(s), Ranks(s), FilterRanks(s, p))
<1>1. CASE FormFields[p] \notin DOMAIN s.filters
  <2>1. FilterURLs(s.filters, FormFields[p]) = <<>> /\ FilterRanks(s, p) = {}
    BY <1>1 DEF FilterURLs, FilterRanks
  <2>2. Len(<<>>) = 0 /\ 0 \in Nat /\ \A n : n \notin 1..0
    BY EmptySeq
  <2>3. PICK rank : rank \in [1..0 -> Ranks(s)] /\ {} = { rank[n] : n \in 1..0 }
    <3>1. [n \in 1..0 |-> 0] \in [1..0 -> Ranks(s)] /\ {} = { [n \in 1..0 |-> 0][m] : m \in 1..0 }
      BY <2>2
    <3> QED
      BY <3>1
  <2> QED
    BY <2>1, <2>2, <2>3, Zenon DEF IsBatch, IsRanked
<1>2. CASE FormFields[p] \in DOMAIN s.filters
  <2>1. PICK values : values = s.filters[FormFields[p]] /\ values \in Seq(ToSet(values))
    BY <1>2 DEF IsSearch, SearchDecodes
  <2>2. PICK len \in Nat : DOMAIN values = 1..len
    BY <2>1, LenProperties
  <2> DEFINE rank == [j \in 1..len |-> <<2, p, j>>]
             more == FilterURLs(s.filters, FormFields[p])
             page(j) == SearchURL([f \in {FormFields[p]} |-> values[j]])
  <2>3. FilterRanks(s, p) = { <<2, p, j>> : j \in 1..len }
    BY <1>2, <2>1, <2>2 DEF FilterRanks
  <2>4. FilterRanks(s, p) \subseteq Ranks(s)
    BY DEF Ranks, RanksUpTo
  <2>5. rank \in [1..len -> Ranks(s)] /\ \A j \in 1..len : rank[j] = <<2, p, j>> /\ rank[j] \in Ranks(s)
    BY <2>3, <2>4
  <2>6. more = [j \in 1..len |-> page(j)]
    BY <1>2, <2>1, <2>2, Zenon DEF FilterURLs
  <2>7. \A j \in 1..len : RankURL(s, <<2, p, j>>) = page(j)
    BY <2>1 DEF RankURL, RankQuery
  <2> HIDE DEF page
  <2>8. \A j \in 1..len : URLOf(s)[rank[j]] = page(j) /\ page(j) \in PagesOf(s)
    BY <2>5, <2>7, URLsAre
  <2>9. more \in [1..len -> PagesOf(s)] /\ \A j \in 1..len : more[j] = page(j)
    BY <2>6, <2>8
  <2> HIDE DEF more, rank
  <2>10. len = Len(more)
    BY <2>9, LenIs
  <2>11. \A m, n \in 1..len : m < n => Before(rank[m], rank[n])
    <3> TAKE m, n \in 1..len
    <3> HAVE m < n
    <3>1. rank[m][1] = rank[n][1] /\ rank[m][2] = rank[n][2] /\ rank[m][3] < rank[n][3]
      BY <2>5
    <3> QED
      BY <3>1, Earlier, Zenon
  <2>12. FilterRanks(s, p) = { rank[n] : n \in 1..len }
    BY <2>3, <2>5
  <2>13. \A n \in 1..len : more[n] = URLOf(s)[rank[n]]
    BY <2>8, <2>9
  <2>14. IsBatch(more, URLOf(s), Ranks(s), FilterRanks(s, p))
    BY <2>5, <2>10, <2>11, <2>12, <2>13, Zenon DEF IsBatch, IsRanked
  <2> QED
    BY <2>14 DEF more
<1> QED
  BY <1>1, <1>2

\* The pages after a field's filter, given those before it.
FieldTold(urls, s, p) == AppendEach(urls, FilterURLs(s.filters, FormFields[p]))

\* The loop over the form.
LEMMA FiltersTable ==
    ASSUME NEW s, IsSearch(s), NEW len \in Nat, len = Len(FormFields),
           NEW first \in Seq(PagesOf(s)), first = AppendEach(<<>>, CategoryURLs(s.categories))
    PROVE  \E f \in [0..len -> Seq(PagesOf(s))] :
              /\ f[0] = first /\ \A n \in 1..len : f[n] = FieldTold(f[n-1], s, n)
              /\ SearchURLs(s) = AppendEach(f[len], QueryURLs(s.queries))
<1> DEFINE U    == PagesOf(s)
           step == [x \in Seq(U) \X (1..len) |-> FieldTold(x[1], s, x[2])]
<1>1. \A urls \in Seq(U), n \in 1..len : FieldTold(urls, s, n) \in Seq(U)
  <2> TAKE urls \in Seq(U), n \in 1..len
  <2>1. IsBatch(FilterURLs(s.filters, FormFields[n]), URLOf(s), Ranks(s), FilterRanks(s, n))
    BY FilterBatch
  <2>2. URLOf(s) \in [Ranks(s) -> U]
    BY URLsAre
  <2> HIDE DEF U
  <2> QED
    BY <2>1, <2>2, BatchTold, Zenon DEF FieldTold
<1> HIDE DEF U
<1>2. /\ step \in [Seq(U) \X (1..len) -> Seq(U)]
      /\ \A urls \in Seq(U), n \in 1..len : step[<<urls, n>>] = FieldTold(urls, s, n)
  BY <1>1
<1> HIDE DEF step
<1>3. PICK g \in [0..len -> Seq(U)] : IsTable(g, first, step, len)
  <2>1. first \in Seq(U)
    BY DEF U
  <2> QED
    BY <1>2, <2>1, TableExists
<1>4. 0 \in 0..len /\ \A n \in 1..len : n \in 0..len /\ n # 0 /\ n - 1 \in 0..len
  OBVIOUS
<1>5. g[0] = first /\ \A n \in 1..len : g[n] = FieldTold(g[n-1], s, n)
  BY <1>2, <1>3, <1>4 DEF IsTable
<1> DEFINE Loop(f) ==
               f = [n \in 0..Len(FormFields) |->
                       IF n = 0 THEN AppendEach(<<>>, CategoryURLs(s.categories))
                       ELSE AppendEach(f[n-1], FilterURLs(s.filters, FormFields[n]))]
           f == CHOOSE h : Loop(h)
<1>6. Loop(f)
  <2>1. \A n \in 0..len : n # 0 => n \in 1..len
    OBVIOUS
  <2>2. \A n \in 0..len : g[n] = IF n = 0 THEN first ELSE FieldTold(g[n-1], s, n)
    BY <1>5, <2>1, Zenon
  <2>3. g = [n \in 0..len |-> IF n = 0 THEN first ELSE FieldTold(g[n-1], s, n)]
    BY <1>3, <2>2
  <2>4. Loop(g)
    BY <2>3, Zenon DEF FieldTold
  <2> HIDE DEF Loop
  <2> QED
    BY <2>4
<1>7. SearchURLs(s) = AppendEach(f[len], QueryURLs(s.queries))
  BY DEF SearchURLs
<1>8. f = [n \in 0..len |-> IF n = 0 THEN first ELSE FieldTold(f[n-1], s, n)]
  <2> HIDE DEF f
  <2> QED
    BY <1>6, Zenon DEF FieldTold
<1> HIDE DEF f, Loop
<1>9. f[0] = first /\ \A n \in 1..len : f[n] = FieldTold(f[n-1], s, n)
  BY <1>4, <1>8, Zenon
<1> DEFINE Right == { n \in 0..len : f[n] \in Seq(U) }
<1>10. 0 \in Right
  <2>1. first \in Seq(U)
    BY DEF U
  <2> QED
    BY <1>4, <1>9, <2>1, Zenon
<1>11. ASSUME NEW n \in 1..len, n - 1 \in Right PROVE n \in Right
  <2>1. FieldTold(f[n-1], s, n) \in Seq(U)
    BY <1>1, <1>11, Zenon
  <2> QED
    BY <1>4, <1>9, <2>1, Zenon
<1>12. 0..len \subseteq Right
  <2> HIDE DEF Right
  <2> QED
    BY <1>10, <1>11, UpTo
<1>13. f \in [0..len -> Seq(U)]
  <2>1. \A n \in 0..len : f[n] \in Seq(U)
    BY <1>12, Zenon
  <2>2. f = [n \in 0..len |-> f[n]]
    BY <1>8
  <2> QED
    BY <2>1, <2>2
<1> QED
  BY <1>7, <1>9, <1>13, Zenon DEF U

\* What the ranks of a search say.
LEMMA RanksAre ==
    ASSUME NEW s
    PROVE  /\ \A r \in CategoryRanks(s) : r[1] = 1
           /\ \A p : \A r \in FilterRanks(s, p) : r[1] = 2 /\ r[2] = p
           /\ \A r \in QueryRanks(s) : r[1] = 3
           /\ \A n \in 0..Len(FormFields) : RanksUpTo(s, n) \in SUBSET Ranks(s)
<1>1. \A r \in CategoryRanks(s) : r[1] = 1
  BY DEF CategoryRanks
<1>2. \A p : \A r \in FilterRanks(s, p) : r[1] = 2 /\ r[2] = p
  BY DEF FilterRanks
<1>3. \A r \in QueryRanks(s) : r[1] = 3
  BY DEF QueryRanks
<1>4. \A n \in 0..Len(FormFields) : RanksUpTo(s, n) \in SUBSET Ranks(s)
  <2>1. PICK len \in Nat : len = Len(FormFields)
    BY FormIs DEF IsForm
  <2>2. \A n \in 0..len : (1..n) \subseteq (1..len)
    OBVIOUS
  <2> QED
    BY <2>1, <2>2 DEF Ranks, RanksUpTo
<1> QED
  BY <1>1, <1>2, <1>3, <1>4

\* buildSearchEndpoints gives the page of every request, in the order of the
\* first request for each.
LEMMA SearchTells ==
    ASSUME NEW s, IsSearch(s)
    PROVE  SearchURLs(s) \in Seq(PagesOf(s)) /\ Tells(URLOf(s), SearchURLs(s), Ranks(s))
<1>1. PICK len \in Nat : len = Len(FormFields)
  BY FormIs DEF IsForm
<1> DEFINE U == PagesOf(s)
           K == Ranks(s)
           url == URLOf(s)
<1>2. url \in [K -> U]
  BY URLsAre
<1> HIDE DEF U, url, K
<1>3. PICK first \in Seq(U) :
          first = AppendEach(<<>>, CategoryURLs(s.categories)) /\ Tells(url, first, CategoryRanks(s))
  <2>1. <<>> \in Seq(U) /\ Len(<<>>) = 0
    BY EmptySeq
  <2>2. PICK none \in Seq(U) : none = <<>> /\ Len(none) = 0
    BY <2>1
  <2>3. TellsFirst(url, none, 0, {})
    BY DEF TellsFirst
  <2>4. Tells(url, none, {})
    BY <2>2, <2>3, Zenon DEF Tells
  <2>5. IsBatch(CategoryURLs(s.categories), url, K, CategoryRanks(s))
    BY CategoryBatch, Zenon DEF url, K
  <2>6. {} \in SUBSET K /\ \A a \in {}, b \in CategoryRanks(s) : Before(a, b)
    OBVIOUS
  <2>7. /\ AppendEach(none, CategoryURLs(s.categories)) \in Seq(U)
        /\ Tells(url, AppendEach(none, CategoryURLs(s.categories)), {} \cup CategoryRanks(s))
    BY <1>2, <2>4, <2>5, <2>6, BatchTold, Zenon
  <2>8. {} \cup CategoryRanks(s) = CategoryRanks(s)
    OBVIOUS
  <2> QED
    BY <2>2, <2>7, <2>8, Zenon
<1>4. PICK f \in [0..len -> Seq(U)] :
          /\ f[0] = first /\ \A n \in 1..len : f[n] = FieldTold(f[n-1], s, n)
          /\ SearchURLs(s) = AppendEach(f[len], QueryURLs(s.queries))
  BY <1>1, <1>3, FiltersTable DEF U
<1> DEFINE Good == { n \in 0..len : Tells(url, f[n], RanksUpTo(s, n)) }
<1>5. 0 \in Good
  <2>1. RanksUpTo(s, 0) = CategoryRanks(s) /\ 0 \in 0..len
    BY DEF RanksUpTo
  <2> QED
    BY <1>3, <1>4, <2>1, Zenon
<1>6. ASSUME NEW n \in 1..len, n - 1 \in Good PROVE n \in Good
  <2>1. n - 1 \in 0..len /\ n \in 0..len
    OBVIOUS
  <2>2. PICK urls \in Seq(U) : urls = f[n-1] /\ Tells(url, urls, RanksUpTo(s, n - 1))
    BY <1>4, <1>6, <2>1, Zenon
  <2>3. RanksUpTo(s, n - 1) \in SUBSET K
    BY <1>1, <2>1, RanksAre DEF K
  <2>4. IsBatch(FilterURLs(s.filters, FormFields[n]), url, K, FilterRanks(s, n))
    BY <1>1, FilterBatch DEF url, K
  <2>5. \A a \in RanksUpTo(s, n - 1), b \in FilterRanks(s, n) : Before(a, b)
    <3> TAKE a \in RanksUpTo(s, n - 1), b \in FilterRanks(s, n)
    <3>1. b[1] = 2 /\ b[2] = n
      BY RanksAre
    <3>2. CASE a \in CategoryRanks(s)
      <4>1. a[1] < b[1]
        BY <3>1, <3>2, RanksAre
      <4> QED
        BY <4>1, Earlier, Zenon
    <3>3. ASSUME NEW p \in 1..n - 1, a \in FilterRanks(s, p) PROVE Before(a, b)
      <4>1. a[1] = 2 /\ a[2] = p
        BY <3>3, RanksAre, Zenon
      <4>2. p < n
        OBVIOUS
      <4>3. a[1] = b[1] /\ a[2] < b[2]
        BY <3>1, <4>1, <4>2
      <4> QED
        BY <4>3, Earlier, Zenon
    <3> QED
      BY <3>2, <3>3 DEF RanksUpTo
  <2>6. RanksUpTo(s, n) = RanksUpTo(s, n - 1) \cup FilterRanks(s, n)
    <3>1. \A p : p \in 1..n <=> p \in 1..n - 1 \/ p = n
      OBVIOUS
    <3>2. ASSUME NEW r PROVE r \in RanksUpTo(s, n) <=> r \in RanksUpTo(s, n - 1) \cup FilterRanks(s, n)
      <4>1. r \in RanksUpTo(s, n) <=>
               r \in CategoryRanks(s) \/ \E p \in 1..n : r \in FilterRanks(s, p)
        BY Zenon DEF RanksUpTo
      <4>2. r \in RanksUpTo(s, n - 1) <=>
               r \in CategoryRanks(s) \/ \E p \in 1..n - 1 : r \in FilterRanks(s, p)
        BY Zenon DEF RanksUpTo
      <4> QED
        BY <3>1, <4>1, <4>2, Zenon
    <3> QED
      BY <3>2, Zenon
  <2>7. Tells(url, FieldTold(urls, s, n), RanksUpTo(s, n - 1) \cup FilterRanks(s, n))
    BY <1>2, <2>2, <2>3, <2>4, <2>5, BatchTold, Zenon DEF FieldTold
  <2>8. f[n] = FieldTold(urls, s, n)
    BY <1>4, <2>2, Zenon
  <2> QED
    BY <2>1, <2>6, <2>7, <2>8, Zenon
<1>7. len \in Good
  <2> HIDE DEF Good
  <2>1. len \in 0..len
    OBVIOUS
  <2> QED
    BY <1>5, <1>6, <2>1, UpTo
<1>8. PICK urls \in Seq(U) : urls = f[len] /\ Tells(url, urls, RanksUpTo(s, len))
  <2>1. len \in 0..len
    OBVIOUS
  <2> QED
    BY <1>4, <1>7, <2>1, Zenon
<1>9. IsBatch(QueryURLs(s.queries), url, K, QueryRanks(s))
  BY QueryBatch, Zenon DEF url, K
<1>10. RanksUpTo(s, len) \in SUBSET K
  <2>1. len \in 0..len
    OBVIOUS
  <2> QED
    BY <1>1, <2>1, RanksAre DEF K
<1>11. \A a \in RanksUpTo(s, len), b \in QueryRanks(s) : Before(a, b)
  <2> TAKE a \in RanksUpTo(s, len), b \in QueryRanks(s)
  <2>1. b[1] = 3
    BY RanksAre
  <2>2. a[1] = 1 \/ a[1] = 2
    BY RanksAre DEF RanksUpTo
  <2>3. a[1] < b[1]
    BY <2>1, <2>2
  <2> QED
    BY <2>3, Earlier, Zenon
<1>12. /\ AppendEach(urls, QueryURLs(s.queries)) \in Seq(U)
       /\ Tells(url, AppendEach(urls, QueryURLs(s.queries)), RanksUpTo(s, len) \cup QueryRanks(s))
  BY <1>2, <1>8, <1>9, <1>10, <1>11, BatchTold, Zenon
<1>13. Ranks(s) = RanksUpTo(s, len) \cup QueryRanks(s)
  BY <1>1 DEF Ranks
<1> QED
  BY <1>4, <1>8, <1>12, <1>13, Zenon DEF U, url

-----------------------------------------------------------------------------
(* The requests that a page answers                                        *)

\* Each rank is that of a category, of a filter's value or of a query.
LEMMA RankCases ==
    ASSUME NEW s, NEW r \in Ranks(s)
    PROVE  \/ r[1] = 1 /\ r \in CategoryRanks(s)
           \/ r[1] = 2 /\ \E p \in 1..Len(FormFields) : r \in FilterRanks(s, p)
           \/ r[1] = 3 /\ r \in QueryRanks(s)
<1>1. r \in CategoryRanks(s) \/ (\E p \in 1..Len(FormFields) : r \in FilterRanks(s, p)) \/ r \in QueryRanks(s)
  BY DEF Ranks, RanksUpTo
<1>2. CASE r \in CategoryRanks(s)
  BY <1>2, RanksAre
<1>3. ASSUME NEW p \in 1..Len(FormFields), r \in FilterRanks(s, p) PROVE r[1] = 2
  BY <1>3 DEF FilterRanks
<1>4. CASE r \in QueryRanks(s)
  BY <1>4, RanksAre
<1> QED
  BY <1>1, <1>2, <1>3, <1>4, Zenon

LEMMA QueriesAre ==
    ASSUME NEW s, IsSearch(s), NEW r \in Ranks(s), r[1] # 1
    PROVE  IsQuery(RankQuery(s, r))
<1>1. FiltersAreValid(s.filters) /\ \A q \in ToSet(s.queries) : QueryIsValid(q)
  BY DEF IsSearch, SearchIsValid
<1>2. CASE r[1] = 3 /\ r \in QueryRanks(s)
  <2>1. PICK i \in DOMAIN s.queries : r = <<3, i, 0>>
    BY <1>2 DEF QueryRanks
  <2>2. RankQuery(s, r) = s.queries[i] /\ s.queries[i] \in ToSet(s.queries)
    BY <2>1 DEF RankQuery, ToSet
  <2>3. QueryIsValid(RankQuery(s, r))
    BY <1>1, <2>2, Zenon
  <2> QED
    BY <2>3 DEF QueryIsValid, ValueIsValid, IsQuery
<1>3. ASSUME NEW p \in 1..Len(FormFields), r \in FilterRanks(s, p)
      PROVE  IsQuery(RankQuery(s, r))
  <2>1. PICK field : field = FormFields[p]
    OBVIOUS
  <2>2. field \in DOMAIN s.filters
    BY <1>3, <2>1 DEF FilterRanks
  <2>3. PICK values : values = s.filters[field]
    OBVIOUS
  <2>4. PICK j \in DOMAIN values : r = <<2, p, j>>
    BY <1>3, <2>1, <2>2, <2>3 DEF FilterRanks
  <2>5. RankQuery(s, r) = [f \in {field} |-> values[j]]
    BY <2>1, <2>3, <2>4 DEF RankQuery
  <2>6. field \in ToSet(FormFields) /\ values[j] \in Accepted[field]
    <3>1. values[j] \in ToSet(values)
      BY DEF ToSet
    <3>2. DOMAIN s.filters \subseteq ToSet(FormFields) /\ ValueIsValid(field, values[j])
      BY <1>1, <2>2, <2>3, <3>1, Zenon DEF FiltersAreValid
    <3> QED
      BY <2>2, <3>2 DEF ValueIsValid
  <2> QED
    BY <2>5, <2>6 DEF IsQuery
<1> QED
  BY <1>2, <1>3, RankCases

\* The requests of the property are those of the ranks.
FilterRequest(s, p, j) ==
    [rank |-> <<2, p, j>>, query |-> [f \in {FormFields[p]} |-> s.filters[f][j]]]

QueryRequest(s, i) == [rank |-> <<3, i, 0>>, query |-> s.queries[i]]

FilterPlaces(s) == { p \in DOMAIN FormFields : FormFields[p] \in DOMAIN s.filters }

FilterRequests(s, p) == { FilterRequest(s, p, j) : j \in DOMAIN s.filters[FormFields[p]] }

QueryRequests(s) == { QueryRequest(s, i) : i \in DOMAIN s.queries }

LEMMA RequestsAre ==
    ASSUME NEW s
    PROVE  /\ \A c \in CategoryRequests(s) :
                 c.rank \in Ranks(s) /\ c.rank[1] = 1 /\ c.word = s.categories[c.rank[2]]
           /\ \A r \in Ranks(s) : r[1] = 1 =>
                 \E c \in CategoryRequests(s) : c.rank = r /\ c.word = s.categories[r[2]]
           /\ \A q \in FormRequests(s) :
                 q.rank \in Ranks(s) /\ q.rank[1] # 1 /\ q.query = RankQuery(s, q.rank)
           /\ \A r \in Ranks(s) : r[1] # 1 =>
                 \E q \in FormRequests(s) : q.rank = r /\ q.query = RankQuery(s, r)
<1>1. PICK len \in Nat : len = Len(FormFields) /\ DOMAIN FormFields = 1..len
  BY FormIs DEF IsForm
<1>2. ASSUME NEW c \in CategoryRequests(s)
      PROVE  c.rank \in Ranks(s) /\ c.rank[1] = 1 /\ c.word = s.categories[c.rank[2]]
  <2>1. PICK i \in DOMAIN s.categories : c = [rank |-> <<1, i, 0>>, word |-> s.categories[i]]
    BY DEF CategoryRequests
  <2>2. <<1, i, 0>> \in CategoryRanks(s) /\ CategoryRanks(s) \subseteq Ranks(s)
    BY DEF CategoryRanks, Ranks, RanksUpTo
  <2> QED
    BY <2>1, <2>2
<1>3. ASSUME NEW r \in Ranks(s), r[1] = 1
      PROVE  \E c \in CategoryRequests(s) : c.rank = r /\ c.word = s.categories[r[2]]
  <2>1. PICK i \in DOMAIN s.categories : r = <<1, i, 0>>
    BY <1>3, RankCases DEF CategoryRanks
  <2>2. [rank |-> <<1, i, 0>>, word |-> s.categories[i]] \in CategoryRequests(s)
    BY DEF CategoryRequests
  <2> QED
    BY <2>1, <2>2
<1>4. ASSUME NEW q, q \in FormRequests(s)
      PROVE  \/ \E p \in 1..len : /\ FormFields[p] \in DOMAIN s.filters
                                  /\ \E j \in DOMAIN s.filters[FormFields[p]] : q = FilterRequest(s, p, j)
             \/ \E i \in DOMAIN s.queries : q = QueryRequest(s, i)
  <2>1. CASE \E i \in DOMAIN s.queries : q = [rank |-> <<3, i, 0>>, query |-> s.queries[i]]
    BY <2>1, Zenon DEF QueryRequest
  <2>2. ASSUME NEW p \in { k \in DOMAIN FormFields : FormFields[k] \in DOMAIN s.filters },
               NEW j \in DOMAIN s.filters[FormFields[p]],
               q = [rank |-> <<2, p, j>>, query |-> [f \in {FormFields[p]} |-> s.filters[f][j]]]
        PROVE  \E k \in 1..len : /\ FormFields[k] \in DOMAIN s.filters
                                 /\ \E l \in DOMAIN s.filters[FormFields[k]] : q = FilterRequest(s, k, l)
    <3>1. q = FilterRequest(s, p, j)
      BY <2>2 DEF FilterRequest
    <3>2. p \in 1..len /\ FormFields[p] \in DOMAIN s.filters
      BY <1>1
    <3> QED
      BY <3>1, <3>2, Zenon
  <2> QED
    BY <1>4, <2>1, <2>2, Zenon DEF FormRequests
<1>5. /\ \A p \in 1..len : FormFields[p] \in DOMAIN s.filters =>
            \A j \in DOMAIN s.filters[FormFields[p]] : FilterRequest(s, p, j) \in FormRequests(s)
      /\ \A i \in DOMAIN s.queries : QueryRequest(s, i) \in FormRequests(s)
  <2>1. ASSUME NEW p \in 1..len, FormFields[p] \in DOMAIN s.filters,
               NEW j \in DOMAIN s.filters[FormFields[p]]
        PROVE  FilterRequest(s, p, j) \in FormRequests(s)
    <3>1. FormRequests(s) = QueryRequests(s) \cup UNION { FilterRequests(s, k) : k \in FilterPlaces(s) }
      BY Zenon DEF FormRequests, QueryRequests, QueryRequest, FilterRequests, FilterRequest, FilterPlaces
    <3>2. p \in FilterPlaces(s) /\ FilterRequest(s, p, j) \in FilterRequests(s, p)
      BY <1>1, <2>1 DEF FilterPlaces, FilterRequests
    <3>3. FilterRequest(s, p, j) \in UNION { FilterRequests(s, k) : k \in FilterPlaces(s) }
      BY <3>2, Zenon
    <3> QED
      BY <3>1, <3>3, Zenon
  <2>2. ASSUME NEW i \in DOMAIN s.queries PROVE QueryRequest(s, i) \in FormRequests(s)
    BY Zenon DEF FormRequests, QueryRequest
  <2> QED
    BY <2>1, <2>2, Zenon
<1>6. \A p, j : /\ FilterRequest(s, p, j).rank = <<2, p, j>>
                /\ FilterRequest(s, p, j).query = RankQuery(s, <<2, p, j>>)
  <2> TAKE p, j
  <2>1. RankQuery(s, <<2, p, j>>) = [f \in {FormFields[p]} |-> s.filters[FormFields[p]][j]]
    BY DEF RankQuery
  <2>2. FilterRequest(s, p, j).query = [f \in {FormFields[p]} |-> s.filters[f][j]]
    BY DEF FilterRequest
  <2>3. FilterRequest(s, p, j).rank = <<2, p, j>>
    BY DEF FilterRequest
  <2> QED
    BY <2>1, <2>2, <2>3
<1>7. \A i : /\ QueryRequest(s, i).rank = <<3, i, 0>> /\ QueryRequest(s, i).query = s.queries[i]
             /\ RankQuery(s, <<3, i, 0>>) = s.queries[i]
  BY DEF RankQuery, QueryRequest
<1>8. ASSUME NEW q \in FormRequests(s)
      PROVE  q.rank \in Ranks(s) /\ q.rank[1] # 1 /\ q.query = RankQuery(s, q.rank)
  <2>1. ASSUME NEW p \in 1..len, FormFields[p] \in DOMAIN s.filters,
               NEW j \in DOMAIN s.filters[FormFields[p]], q = FilterRequest(s, p, j)
        PROVE  q.rank \in Ranks(s) /\ q.rank[1] # 1 /\ q.query = RankQuery(s, q.rank)
    <3>1. <<2, p, j>> \in FilterRanks(s, p)
      BY <2>1 DEF FilterRanks
    <3>2. FilterRanks(s, p) \subseteq Ranks(s)
      BY <1>1 DEF Ranks, RanksUpTo
    <3>3. q.rank = <<2, p, j>> /\ q.query = RankQuery(s, <<2, p, j>>)
      BY <1>6, <2>1, Zenon
    <3>4. <<2, p, j>>[1] # 1
      OBVIOUS
    <3> QED
      BY <3>1, <3>2, <3>3, <3>4, Zenon
  <2>2. ASSUME NEW i \in DOMAIN s.queries, q = QueryRequest(s, i)
        PROVE  q.rank \in Ranks(s) /\ q.rank[1] # 1 /\ q.query = RankQuery(s, q.rank)
    <3>1. <<3, i, 0>> \in Ranks(s) /\ <<3, i, 0>>[1] # 1
      BY DEF Ranks, QueryRanks
    <3>2. q.rank = <<3, i, 0>> /\ q.query = RankQuery(s, <<3, i, 0>>)
      BY <1>7, <2>2, Zenon
    <3> QED
      BY <3>1, <3>2, Zenon
  <2> QED
    BY <1>4, <2>1, <2>2, Zenon
<1>9. ASSUME NEW r \in Ranks(s), r[1] # 1
      PROVE  \E q \in FormRequests(s) : q.rank = r /\ q.query = RankQuery(s, r)
  <2>1. ASSUME NEW p \in 1..len, r \in FilterRanks(s, p)
        PROVE  \E q \in FormRequests(s) : q.rank = r /\ q.query = RankQuery(s, r)
    <3>1. PICK j \in DOMAIN s.filters[FormFields[p]] : r = <<2, p, j>> /\ FormFields[p] \in DOMAIN s.filters
      BY <2>1 DEF FilterRanks
    <3>2. FilterRequest(s, p, j) \in FormRequests(s)
      BY <1>5, <3>1, Zenon
    <3>3. FilterRequest(s, p, j).rank = r /\ FilterRequest(s, p, j).query = RankQuery(s, r)
      BY <1>6, <3>1, Zenon
    <3> QED
      BY <3>2, <3>3, Zenon
  <2>2. ASSUME r \in QueryRanks(s)
        PROVE  \E q \in FormRequests(s) : q.rank = r /\ q.query = RankQuery(s, r)
    <3>1. PICK i \in DOMAIN s.queries : r = <<3, i, 0>>
      BY <2>2 DEF QueryRanks
    <3>2. QueryRequest(s, i) \in FormRequests(s)
      BY <1>5, Zenon
    <3> QED
      BY <1>7, <3>1, <3>2, Zenon
  <2> QED
    BY <1>1, <1>9, <2>1, <2>2, RankCases
<1> QED
  BY <1>2, <1>3, <1>8, <1>9

\* A category's page asks no query.
LEMMA AsksSomething ==
    ASSUME NEW query
    PROVE  ~Asks(<<>>, query)
<1>1. DOMAIN <<>> = {}
  OBVIOUS
<1> DEFINE fields == [i \in DOMAIN <<>> |-> <<>>[i][1]]
<1>2. ToSet(fields) = {}
  BY <1>1 DEF ToSet
<1>3. Asks(<<>>, query) => ToSet(fields) = DOMAIN query \cup {LastDays}
  BY Zenon DEF Asks
<1> QED
  BY <1>2, <1>3

\* The page of a request answers those with the same page, and no others.
LEMMA AnswersAre ==
    ASSUME NEW s, IsSearch(s), NEW r \in Ranks(s), NEW url, url = RankURL(s, r)
    PROVE  \A x : x \in Answers(url, s) <=> x \in Ranks(s) /\ RankURL(s, x) = url
<1>1. \A x \in Ranks(s) : x[1] = 1 => RankURL(s, x) = CategoryURL(s.categories[x[2]])
  BY Zenon DEF RankURL
<1>2. \A x \in Ranks(s) : x[1] # 1 =>
         RankURL(s, x) = SearchURL(RankQuery(s, x)) /\ IsQuery(RankQuery(s, x))
  BY QueriesAre, Zenon DEF RankURL
<1>3. \A x : x \in Answers(url, s) <=>
         \/ \E c \in CategoryRequests(s) : url = CategoryURL(c.word) /\ x = c.rank
         \/ \E q \in FormRequests(s) : url.page = "form" /\ Asks(url.parameters, q.query) /\ x = q.rank
  BY Zenon DEF Answers
<1>4. ASSUME NEW x, x \in Answers(url, s)
      PROVE  x \in Ranks(s) /\ RankURL(s, x) = url
  <2>1. ASSUME NEW c \in CategoryRequests(s), url = CategoryURL(c.word), x = c.rank
        PROVE  x \in Ranks(s) /\ RankURL(s, x) = url
    <3>1. x \in Ranks(s) /\ x[1] = 1 /\ c.word = s.categories[x[2]]
      BY <2>1, RequestsAre
    <3> QED
      BY <1>1, <2>1, <3>1, Zenon
  <2>2. ASSUME NEW q \in FormRequests(s), Asks(url.parameters, q.query), x = q.rank
        PROVE  x \in Ranks(s) /\ RankURL(s, x) = url
    <3>1. x \in Ranks(s) /\ x[1] # 1 /\ Asks(url.parameters, RankQuery(s, x))
      <4>1. q.rank \in Ranks(s) /\ q.rank[1] # 1 /\ q.query = RankQuery(s, q.rank)
        BY RequestsAre
      <4> QED
        BY <2>2, <4>1, Zenon
    <3>2. r[1] # 1
      <4>1. SUFFICES ASSUME r[1] = 1 PROVE FALSE
        OBVIOUS
      <4>2. url = CategoryURL(s.categories[r[2]])
        BY <1>1, <4>1, Zenon
      <4>3. url.parameters = <<>>
        BY <4>2 DEF CategoryURL
      <4> QED
        BY <3>1, <4>3, AsksSomething, Zenon
    <3>3. PICK mine : mine = RankQuery(s, r) /\ IsQuery(mine) /\ url = SearchURL(mine)
      BY <1>2, <3>2, Zenon
    <3>4. PICK other : other = RankQuery(s, x) /\ IsQuery(other) /\ RankURL(s, x) = SearchURL(other)
      BY <1>2, <3>1, Zenon
    <3>5. PICK p \in Seq(FormParameters) : p = SearchURL(mine).parameters /\ SearchURL(mine) = [page |-> "form", parameters |-> p]
      BY <3>3, PageAsks, Zenon
    <3>6. PICK o \in Seq(FormParameters) :
              o = SearchURL(other).parameters /\ SearchURL(other) = [page |-> "form", parameters |-> o] /\ Asks(o, other)
      BY <3>4, PageAsks, Zenon
    <3>7. Asks(p, other)
      BY <3>1, <3>3, <3>4, <3>5, Zenon
    <3>8. p = o
      BY <3>4, <3>6, <3>7, AsksOnce, Zenon
    <3> QED
      BY <3>1, <3>3, <3>4, <3>5, <3>6, <3>8, Zenon
  <2> QED
    BY <1>3, <1>4, <2>1, <2>2, Zenon
<1>5. ASSUME NEW x \in Ranks(s), RankURL(s, x) = url
      PROVE  x \in Answers(url, s)
  <2>1. CASE x[1] = 1
    <3>1. PICK c \in CategoryRequests(s) : c.rank = x /\ c.word = s.categories[x[2]]
      BY <2>1, RequestsAre
    <3>2. url = CategoryURL(c.word)
      BY <1>1, <1>5, <2>1, <3>1, Zenon
    <3> QED
      BY <1>3, <3>1, <3>2, Zenon
  <2>2. CASE x[1] # 1
    <3>1. PICK q \in FormRequests(s) : q.rank = x /\ q.query = RankQuery(s, x)
      BY <2>2, RequestsAre, Zenon
    <3>2. url = SearchURL(q.query) /\ IsQuery(q.query)
      BY <1>2, <1>5, <2>2, <3>1, Zenon
    <3>3. Asks(url.parameters, q.query) /\ url = [page |-> "form", parameters |-> url.parameters]
      BY <3>2, PageAsks, Zenon
    <3>4. url.page = "form"
      BY <3>3
    <3> QED
      BY <1>3, <3>1, <3>3, <3>4, Zenon
  <2> QED
    BY <2>1, <2>2
<1> QED
  BY <1>4, <1>5, Zenon

\* The pages of a search are those its requests ask for.
AsConfigured(urls, s) ==
    /\ UNION { Answers(u, s) : u \in ToSet(urls) } =
          { r.rank : r \in CategoryRequests(s) } \cup { r.rank : r \in FormRequests(s) }
    /\ \A u \in ToSet(urls) : Answers(u, s) # {}
    /\ \A i, j \in DOMAIN urls : i < j =>
          \E a \in Answers(urls[i], s) : \A b \in Answers(urls[j], s) : Before(a, b)

LEMMA SearchAsConfigured ==
    ASSUME NEW s, IsSearch(s)
    PROVE  AsConfigured(SearchURLs(s), s)
<1>1. PICK urls \in Seq(PagesOf(s)) : urls = SearchURLs(s) /\ Tells(URLOf(s), urls, Ranks(s))
  BY SearchTells, Zenon
<1>2. PICK len \in Nat : len = Len(urls) /\ DOMAIN urls = 1..len
  BY LenProperties
<1>3. /\ \A i \in 1..len : \E r \in Ranks(s) : urls[i] = RankURL(s, r)
      /\ \A r \in Ranks(s) : \E i \in 1..len : urls[i] = RankURL(s, r)
      /\ \A i, j \in 1..len : i < j =>
            \E a \in Ranks(s) : urls[i] = RankURL(s, a)
                                /\ \A b \in Ranks(s) : urls[j] = RankURL(s, b) => Before(a, b)
  <2>1. TellsFirst(URLOf(s), urls, len, Ranks(s))
    BY <1>1, <1>2, Zenon DEF Tells
  <2>2. \A r \in Ranks(s) : URLOf(s)[r] = RankURL(s, r)
    BY URLsAre
  <2>3. \A i \in 1..len : \E r \in Ranks(s) : urls[i] = URLOf(s)[r]
    BY <2>1, Zenon DEF TellsFirst
  <2>4. \A r \in Ranks(s) : \E i \in 1..len : urls[i] = URLOf(s)[r]
    BY <2>1, Zenon DEF TellsFirst
  <2>5. ASSUME NEW i \in 1..len, NEW j \in 1..len, i < j
        PROVE  \E a \in Ranks(s) : urls[i] = RankURL(s, a)
                                   /\ \A b \in Ranks(s) : urls[j] = RankURL(s, b) => Before(a, b)
    <3>1. IsFirst(urls[i], urls[j], URLOf(s), Ranks(s))
      BY <2>1, <2>5, FirstTold
    <3>2. PICK a \in Ranks(s) : urls[i] = URLOf(s)[a]
                                /\ \A b \in Ranks(s) : urls[j] = URLOf(s)[b] => Before(a, b)
      BY <3>1, Zenon DEF IsFirst
    <3>3. \A b \in Ranks(s) : urls[j] = RankURL(s, b) => Before(a, b)
      BY <2>2, <3>2, Zenon
    <3> QED
      BY <2>2, <3>2, <3>3, Zenon
  <2> QED
    BY <2>2, <2>3, <2>4, <2>5, Zenon
<1>4. \A i \in 1..len : \A x : x \in Answers(urls[i], s) <=> x \in Ranks(s) /\ RankURL(s, x) = urls[i]
  <2> TAKE i \in 1..len
  <2>1. PICK r \in Ranks(s) : urls[i] = RankURL(s, r)
    BY <1>3, Zenon
  <2> QED
    BY <2>1, AnswersAre, Zenon
<1>5. \A x : x \in UNION { Answers(u, s) : u \in ToSet(urls) } <=> \E i \in 1..len : x \in Answers(urls[i], s)
  BY <1>2 DEF ToSet
<1>6. \A x : x \in UNION { Answers(u, s) : u \in ToSet(urls) } <=> x \in Ranks(s)
  BY <1>3, <1>4, <1>5, Zenon
<1>7. \A x : x \in { r.rank : r \in CategoryRequests(s) } \cup { r.rank : r \in FormRequests(s) } <=> x \in Ranks(s)
  <2>1. ASSUME NEW x \in Ranks(s)
        PROVE  x \in { r.rank : r \in CategoryRequests(s) } \cup { r.rank : r \in FormRequests(s) }
    <3>1. CASE x[1] = 1
      <4>1. \E c \in CategoryRequests(s) : c.rank = x
        BY <3>1, RequestsAre
      <4> QED
        BY <4>1, Zenon
    <3>2. CASE x[1] # 1
      <4>1. \E q \in FormRequests(s) : q.rank = x
        BY <3>2, RequestsAre
      <4> QED
        BY <4>1, Zenon
    <3> QED
      BY <3>1, <3>2
  <2>2. (\A c \in CategoryRequests(s) : c.rank \in Ranks(s)) /\ \A q \in FormRequests(s) : q.rank \in Ranks(s)
    BY RequestsAre
  <2> QED
    BY <2>1, <2>2, Zenon
<1>8. UNION { Answers(u, s) : u \in ToSet(urls) } =
         { r.rank : r \in CategoryRequests(s) } \cup { r.rank : r \in FormRequests(s) }
  BY <1>6, <1>7, Zenon
<1>9. ASSUME NEW i \in 1..len, NEW j \in 1..len, i < j
      PROVE  \E a \in Answers(urls[i], s) : \A b \in Answers(urls[j], s) : Before(a, b)
  <2>1. PICK a \in Ranks(s) : urls[i] = RankURL(s, a)
                              /\ \A b \in Ranks(s) : urls[j] = RankURL(s, b) => Before(a, b)
    BY <1>3, <1>9, Zenon
  <2>2. a \in Answers(urls[i], s) /\ \A b \in Answers(urls[j], s) : Before(a, b)
    BY <1>4, <2>1, Zenon
  <2> QED
    BY <2>2, Zenon
<1>10. \A u \in ToSet(urls) : Answers(u, s) # {}
  <2>1. ASSUME NEW i \in 1..len PROVE Answers(urls[i], s) # {}
    <3>1. PICK r \in Ranks(s) : urls[i] = RankURL(s, r)
      BY <1>3, Zenon
    <3>2. r \in Answers(urls[i], s)
      BY <1>4, <3>1, Zenon
    <3> QED
      BY <3>2
  <2>2. \A u \in ToSet(urls) : \E i \in 1..len : u = urls[i]
    BY <1>2 DEF ToSet
  <2> QED
    BY <2>1, <2>2, Zenon
<1> QED
  BY <1>1, <1>2, <1>8, <1>9, <1>10, Zenon DEF AsConfigured

-----------------------------------------------------------------------------
(* The invariant                                                           *)

JobStates == {"launched", "working", "done", "failed"}

\* The recipients' files lead somewhere or can be created, and collide with
\* no other's.
FilesApart(d, rs) ==
    /\ \A i \in DOMAIN rs : rs[i].file \in Names /\ ~Dangling(d, rs[i].file)
    /\ \A i, j \in DOMAIN rs : i # j => ~Collide(d, rs[i].file, rs[j].file)

\* Who works on a file has created it if it was not there.
FilesExist(d, rs, js) == \A i \in DOMAIN js : js[i] = "working" => Target(d, rs[i].file) # Absent

FilesInv ==
    /\ fs \in FileSystems(AllFiles) /\ CreatedInPlace(fs)
    /\ FilesApart(fs, recipients) /\ FilesExist(fs, recipients, job)

JobsInv ==
    /\ job \in Seq(JobStates) /\ DOMAIN recipients = DOMAIN job
    /\ config.chats \in Seq(ToSet(config.chats))

CourseInv ==
    /\ pc \in {"parsing", "loading"} => job = <<>>
    /\ pc \in {"loading", "running"} => ArgumentsAreValid
    /\ pc = "running" => job # <<>>

IInv == FilesInv /\ JobsInv /\ EveryChatAttempted /\ CourseInv /\ ExitStatusTells

-----------------------------------------------------------------------------
(* The steps                                                               *)

LEMMA InitStep == Init => IInv
<1> SUFFICES ASSUME Init PROVE IInv
  OBVIOUS
<1>1. PICK c \in Cases : args = c.args /\ config = c.config /\ fs = c.fs
  BY DEF Init
<1>2. pc = "parsing" /\ recipients = <<>> /\ job = <<>>
  BY DEF Init
<1>3. fs \in FileSystems(Files) /\ config.chats \in Seq(ToSet(config.chats))
  BY <1>1, CasesAssumption
<1>4. fs \in FileSystems(AllFiles)
  BY <1>3 DEF FileSystems, Entries, AllFiles
<1>5. CreatedInPlace(fs)
  <2> SUFFICES ASSUME NEW n \in Names, NEW f \in Names, fs.dir[n] = File(f) PROVE FALSE
    BY DEF CreatedInPlace
  <2>1. File(f) \in Entries(Files)
    BY <1>3 DEF FileSystems
  <2>2. f \in Files
    BY <2>1 DEF Entries, Absent, File, Link
  <2> QED
    BY <2>2, MappingAssumption
<1>6. job \in Seq(JobStates) /\ DOMAIN job = {} /\ DOMAIN recipients = {}
  BY <1>2, EmptySeq
<1>7. FilesApart(fs, recipients) /\ FilesExist(fs, recipients, job)
  BY <1>6 DEF FilesApart, FilesExist
<1> QED
  BY <1>2, <1>3, <1>4, <1>5, <1>6, <1>7
     DEF IInv, FilesInv, JobsInv, EveryChatAttempted, CourseInv, ExitStatusTells

\* What the arguments and the configuration say stays as it is.
LEMMA InputStays ==
    ASSUME UNCHANGED input
    PROVE  /\ args' = args /\ config' = config /\ Modes' = Modes
           /\ ArgumentsAreValid' = ArgumentsAreValid
BY DEF input, Modes, ArgumentsAreValid, ChatIsValid

\* An exit leaves the files and the jobs as they are.
LEMMA ExitStep ==
    ASSUME IInv, UNCHANGED <<input, fs, recipients, job>>, pc' = "exited", ExitStatusTells'
    PROVE  IInv'
<1>1. args' = args /\ config' = config
  BY InputStays
<1>2. FilesInv'
  BY DEF IInv, FilesInv
<1>3. JobsInv' /\ EveryChatAttempted'
  BY <1>1 DEF IInv, JobsInv, EveryChatAttempted
<1> QED
  BY <1>2, <1>3 DEF IInv, CourseInv

LEMMA RejectStep ==
    ASSUME IInv, Help \/ Reject \/ LoadFails
    PROVE  IInv'
<1>1. UNCHANGED <<input, fs, recipients, job>> /\ pc' = "exited" /\ job = <<>>
  BY DEF IInv, CourseInv, Help, Reject, LoadFails, Exit
<1>2. /\ status' = 0 => args.help
      /\ status' = 1 => ArgumentsAreValid
      /\ status' = 2 => ~ArgumentsAreValid
  BY DEF IInv, CourseInv, Help, Reject, LoadFails, Exit
<1>3. DOMAIN job = {}
  BY <1>1
<1>4. EveryChatAttempted'
  BY <1>1 DEF EveryChatAttempted
<1>5. ExitStatusTells'
  BY <1>1, <1>2, <1>3, <1>4, InputStays DEF ExitStatusTells
<1> QED
  BY <1>1, <1>5, ExitStep

LEMMA AcceptStep ==
    ASSUME IInv, Accept
    PROVE  IInv'
<1>1. UNCHANGED <<input, fs, recipients, job>> /\ pc' = "loading" /\ job = <<>> /\ ArgumentsAreValid
  BY DEF IInv, CourseInv, Accept
<1>2. FilesInv'
  BY <1>1 DEF IInv, FilesInv
<1>3. JobsInv' /\ EveryChatAttempted'
  BY <1>1, InputStays DEF IInv, JobsInv, EveryChatAttempted
<1> QED
  BY <1>1, <1>2, <1>3, InputStays DEF IInv, CourseInv, ExitStatusTells

LEMMA LoadStep ==
    ASSUME IInv, Load
    PROVE  IInv'
<1>1. /\ UNCHANGED <<input, fs>> /\ pc = "loading" /\ pc' = "running" /\ Loadable
      /\ recipients' = [i \in DOMAIN Selected |-> Recipient(Selected[i])]
      /\ job' = [i \in DOMAIN Selected |-> "launched"]
  BY DEF Load
<1>2. MappingIsValid(fs, config.chats) /\ Selected # <<>>
  BY <1>1 DEF Loadable, MappingIsKnown, ConfigIsValid
<1>3. PICK chats : chats = config.chats /\ chats \in Seq(ToSet(chats))
  BY DEF IInv, JobsInv
<1>4. PICK len \in Nat : len = Len(chats) /\ DOMAIN chats = 1..len
  BY <1>3, LenProperties
<1>5. PICK selected : selected = Selected
  OBVIOUS
<1>6. /\ selected \in Seq(ToSet(chats)) /\ ComesFrom(selected, chats, len)
      /\ args.chat = Unset => Same(selected, chats, len)
  BY <1>3, <1>4, <1>5, SelectionIs DEF Selected
<1>7. PICK n \in Nat : n = Len(selected) /\ DOMAIN selected = 1..n /\ n # 0
  BY <1>2, <1>5, <1>6, LenProperties, EmptySeq
<1>8. /\ recipients' = [i \in 1..n |-> Recipient(selected[i])]
      /\ job' = [i \in 1..n |-> "launched"]
  BY <1>1, <1>5, <1>7
<1>9. /\ \A i \in 1..n : /\ recipients'[i].file = FileOf(selected[i])
                         /\ recipients'[i].chat = ChatOf(selected[i])
      /\ \A i \in 1..n : job'[i] = "launched"
      /\ DOMAIN recipients' = 1..n /\ DOMAIN job' = 1..n
  BY <1>8 DEF Recipient
<1>10. /\ \A p \in 1..len : FileOf(chats[p]) \in Names /\ ~Dangling(fs, FileOf(chats[p]))
      /\ \A p, q \in 1..len : p # q => ~Collide(fs, FileOf(chats[p]), FileOf(chats[q]))
  BY <1>2, <1>3, <1>4, MappingSeparates
<1>11. FilesApart(fs, recipients')
  <2>1. \A i \in 1..n : FileOf(selected[i]) \in Names /\ ~Dangling(fs, FileOf(selected[i]))
    BY <1>6, <1>7, <1>10 DEF ComesFrom
  <2>2. \A i, j \in 1..n : i < j => /\ ~Collide(fs, FileOf(selected[i]), FileOf(selected[j]))
                                   /\ ~Collide(fs, FileOf(selected[j]), FileOf(selected[i]))
    <3> TAKE i, j \in 1..n
    <3> HAVE i < j
    <3>1. PICK p \in 1..len, q \in 1..len : p < q /\ selected[i] = chats[p] /\ selected[j] = chats[q]
      BY <1>6, <1>7 DEF ComesFrom
    <3>2. p # q
      BY <3>1
    <3> QED
      BY <1>10, <3>1, <3>2
  <2>3. \A i, j \in 1..n : i # j => i < j \/ j < i
    OBVIOUS
  <2> QED
    BY <1>9, <2>1, <2>2, <2>3 DEF FilesApart
<1>12. FilesExist(fs, recipients', job')
  BY <1>9 DEF FilesExist
<1>13. FilesInv'
  BY <1>1, <1>11, <1>12 DEF IInv, FilesInv
<1>14. job' \in Seq(JobStates) /\ job' # <<>>
  <2>1. job' \in [1..n -> JobStates]
    BY <1>8 DEF JobStates
  <2> QED
    BY <1>7, <1>9, <2>1, SeqDef
<1>15. JobsInv'
  BY <1>1, <1>9, <1>14, InputStays DEF IInv, JobsInv
<1>16. EveryChatAttempted'
  <2> SUFFICES ASSUME args.chat = Unset
               PROVE  { recipients'[i].chat : i \in 1..n } = { ChatOf(c) : c \in ToSet(chats) }
    BY <1>1, <1>3, <1>9, InputStays DEF EveryChatAttempted
  <2>1. n = len /\ \A i \in 1..n : recipients'[i].chat = ChatOf(chats[i])
    BY <1>6, <1>7, <1>9 DEF Same
  <2>2. ToSet(chats) = { chats[i] : i \in 1..n }
    BY <1>4, <2>1 DEF ToSet
  <2> QED
    BY <2>1, <2>2
<1> QED
  BY <1>1, <1>13, <1>14, <1>15, <1>16, InputStays DEF IInv, CourseInv, ExitStatusTells

\* While the run goes on, what one job does does not tell how it ends.
LEMMA JobStep ==
    ASSUME IInv, pc = "running", pc' = pc, UNCHANGED <<input, recipients>>,
           NEW i \in DOMAIN job, NEW state \in JobStates, job' = [job EXCEPT ![i] = state]
    PROVE  /\ DOMAIN job' = DOMAIN job /\ job'[i] = state
           /\ \A j \in DOMAIN job : j # i => job'[j] = job[j]
           /\ JobsInv' /\ EveryChatAttempted' /\ CourseInv' /\ ExitStatusTells'
<1>1. job \in Seq(JobStates) /\ DOMAIN recipients = DOMAIN job /\ DOMAIN job = 1..Len(job)
  BY LenProperties DEF IInv, JobsInv
<1>2. job' \in Seq(JobStates)
  BY <1>1, ExceptSeq
<1>3. /\ DOMAIN job' = DOMAIN job /\ job'[i] = state
      /\ \A j \in DOMAIN job : j # i => job'[j] = job[j]
  BY <1>1
<1>4. job # <<>> /\ job' # <<>>
  BY <1>3, EmptySeq DEF IInv, CourseInv
<1>5. JobsInv' /\ EveryChatAttempted'
  BY <1>1, <1>2, <1>3, <1>4, InputStays, ZenonT(40) DEF IInv, JobsInv, EveryChatAttempted
<1>6. CourseInv' /\ ExitStatusTells'
  BY <1>4, InputStays DEF IInv, CourseInv, ExitStatusTells
<1> QED
  BY <1>3, <1>5, <1>6

LEMMA BeginStep ==
    ASSUME IInv, NEW i \in DOMAIN job, Begin(i)
    PROVE  IInv'
<1>1. /\ pc = "running" /\ pc' = pc /\ UNCHANGED <<input, recipients>>
      /\ job' = [job EXCEPT ![i] = "working"]
      /\ fs' = Opened(fs, recipients[i].file)
  BY DEF Begin, Opened, WithFile
<1>2. /\ DOMAIN job' = DOMAIN job
      /\ \A j \in DOMAIN job : j # i => job'[j] = job[j]
      /\ JobsInv' /\ EveryChatAttempted' /\ CourseInv' /\ ExitStatusTells'
  BY <1>1, JobStep DEF JobStates
<1>3. /\ fs \in FileSystems(AllFiles) /\ CreatedInPlace(fs) /\ DOMAIN recipients = DOMAIN job
      /\ \A j \in DOMAIN job : recipients[j].file \in Names /\ ~Dangling(fs, recipients[j].file)
      /\ \A j, k \in DOMAIN job : j # k => ~Collide(fs, recipients[j].file, recipients[k].file)
      /\ FilesExist(fs, recipients, job)
  BY DEF IInv, FilesInv, FilesApart, JobsInv
<1>4. PICK m \in Names : m = recipients[i].file /\ ~Dangling(fs, m)
  BY <1>3
<1>5. PICK e : e = fs' /\ e = Opened(fs, m)
  BY <1>1, <1>4
<1>6. /\ e \in FileSystems(AllFiles) /\ CreatedInPlace(e)
      /\ ~Dangling(e, m) /\ Target(e, m) # Absent
      /\ \A n \in Names : ~Collide(fs, m, n) /\ ~Dangling(fs, n) =>
            /\ Target(e, n) = Target(fs, n) /\ ~Dangling(e, n)
            /\ Target(e, n) # Target(e, m)
  BY <1>3, <1>4, <1>5, OpenedApart
<1>7. ASSUME NEW j \in DOMAIN job, j # i
      PROVE  /\ Target(e, recipients[j].file) = Target(fs, recipients[j].file)
             /\ ~Dangling(e, recipients[j].file) /\ ~Collide(e, m, recipients[j].file)
             /\ ~Collide(e, recipients[j].file, m)
  <2>1. PICK n \in Names : n = recipients[j].file /\ ~Dangling(fs, n) /\ ~Collide(fs, m, n)
    BY <1>3, <1>4, <1>7
  <2>2. Folded[m] # Folded[n]
    BY <2>1 DEF Collide
  <2> QED
    BY <1>6, <2>1, <2>2 DEF Collide, SameFile
<1>8. ASSUME NEW j \in DOMAIN job, NEW k \in DOMAIN job, j # k, j # i, k # i
      PROVE  ~Collide(e, recipients[j].file, recipients[k].file)
  BY <1>3, <1>7, <1>8 DEF Collide, SameFile
<1>9. FilesApart(e, recipients)
  BY <1>3, <1>4, <1>6, <1>7, <1>8 DEF FilesApart
<1>10. FilesExist(e, recipients, job')
  BY <1>2, <1>3, <1>4, <1>6, <1>7 DEF FilesExist
<1>11. FilesInv'
  BY <1>1, <1>5, <1>6, <1>9, <1>10 DEF FilesInv
<1> QED
  BY <1>2, <1>11 DEF IInv

\* A digest that ends, or cannot begin, leaves the files alone.
LEMMA EndStep ==
    ASSUME IInv, NEW i \in DOMAIN job, NEW result \in Ended, Ends(i, result),
           pc = "running", pc' = pc, UNCHANGED <<input, fs, recipients>>
    PROVE  IInv'
<1>1. PICK state \in JobStates : state # "working" /\ job' = [job EXCEPT ![i] = state]
  <2>1. result \in JobStates /\ result # "working"
    BY DEF Ended, JobStates
  <2>2. "launched" \in JobStates /\ "launched" # "working"
    BY DEF JobStates
  <2> QED
    BY <2>1, <2>2 DEF Ends
<1>2. /\ DOMAIN job' = DOMAIN job /\ job'[i] = state
      /\ \A j \in DOMAIN job : j # i => job'[j] = job[j]
      /\ JobsInv' /\ EveryChatAttempted' /\ CourseInv' /\ ExitStatusTells'
  BY <1>1, JobStep
<1>3. FilesExist(fs, recipients, job')
  BY <1>1, <1>2 DEF IInv, FilesInv, FilesExist
<1>4. FilesInv'
  BY <1>3 DEF IInv, FilesInv
<1> QED
  BY <1>2, <1>4 DEF IInv

LEMMA SignalStep ==
    ASSUME IInv, Signal
    PROVE  IInv'
<1>1. /\ UNCHANGED <<input, fs, recipients, job>> /\ pc = "running" /\ pc' = "running"
  BY DEF Signal
<1>2. FilesInv'
  BY <1>1 DEF IInv, FilesInv
<1>3. JobsInv' /\ EveryChatAttempted'
  BY <1>1, InputStays DEF IInv, JobsInv, EveryChatAttempted
<1> QED
  BY <1>1, <1>2, <1>3, InputStays DEF IInv, CourseInv, ExitStatusTells

LEMMA ReturnStep ==
    ASSUME IInv, Return \/ ServiceReturns
    PROVE  IInv'
<1>1. /\ UNCHANGED <<input, fs, recipients, job, signalled>> /\ pc = "running" /\ pc' = "exited"
      /\ job # <<>> /\ ArgumentsAreValid
  BY DEF IInv, CourseInv, Return, ServiceReturns, Exit
<1>2. /\ job' = job /\ signalled' = signalled /\ Modes' = Modes
      /\ ArgumentsAreValid' = ArgumentsAreValid
  BY <1>1, InputStays
<1>3. EveryChatAttempted'
  BY <1>1, InputStays DEF IInv, EveryChatAttempted
<1>4. CASE Return
  <2>1. /\ Modes # {"service"} /\ \A i \in DOMAIN job : job[i] \in {"done", "failed"}
        /\ status' = IF \E i \in DOMAIN job : job[i] = "failed" THEN 1 ELSE 0
    BY <1>4 DEF Return, Exit, Ended
  <2>2. ExitStatusTells'
    BY <1>1, <1>2, <1>3, <2>1 DEF ExitStatusTells, Ended
  <2> QED
    BY <1>1, <2>2, ExitStep
<1>5. CASE ServiceReturns
  <2>1. Modes = {"service"} /\ signalled /\ status' = 0
    BY <1>5 DEF ServiceReturns, Exit
  <2>2. /\ Modes' = {"service"} /\ signalled' /\ status' = 0
    BY <1>1, <1>2, <2>1
  <2>3. ("service" \in Modes /\ signalled)'
    BY <2>2
  <2>4. ExitStatusTells'
    BY <1>3, <2>2, <2>3 DEF ExitStatusTells
  <2> QED
    BY <1>1, <2>4, ExitStep
<1> QED
  BY <1>4, <1>5

LEMMA StutterStep ==
    ASSUME IInv, UNCHANGED vars
    PROVE  IInv'
<1>1. UNCHANGED <<input, fs, recipients, job, pc, signalled, status>>
  BY DEF vars
<1>2. FilesInv'
  BY <1>1 DEF IInv, FilesInv
<1>3. JobsInv' /\ EveryChatAttempted' /\ CourseInv'
  BY <1>1, InputStays DEF IInv, JobsInv, EveryChatAttempted, CourseInv
<1>4. ExitStatusTells'
  <2>1. /\ args' = args /\ pc' = pc /\ job' = job /\ signalled' = signalled /\ status' = status
        /\ Modes' = Modes /\ ArgumentsAreValid' = ArgumentsAreValid
    BY <1>1, InputStays
  <2> QED
    BY <1>3, <2>1 DEF IInv, ExitStatusTells
<1> QED
  BY <1>2, <1>3, <1>4 DEF IInv

LEMMA NextStep == IInv /\ [Next]_vars => IInv'
<1> SUFFICES ASSUME IInv, [Next]_vars PROVE IInv'
  OBVIOUS
<1>1. CASE Help \/ Reject \/ LoadFails
  BY <1>1, RejectStep
<1>2. CASE Accept
  BY <1>2, AcceptStep
<1>3. CASE Load
  BY <1>3, LoadStep
<1>4. ASSUME NEW i \in DOMAIN job, Begin(i) PROVE IInv'
  BY <1>4, BeginStep
<1>5. ASSUME NEW i \in DOMAIN job, BeginFails(i) PROVE IInv'
  BY <1>5, EndStep DEF BeginFails, Ended
<1>6. ASSUME NEW i \in DOMAIN job, NEW result \in Ended, Finish(i, result) PROVE IInv'
  BY <1>6, EndStep DEF Finish
<1>7. CASE Signal
  BY <1>7, SignalStep
<1>8. CASE Return \/ ServiceReturns
  BY <1>8, ReturnStep
<1>9. CASE Exited \/ UNCHANGED vars
  BY <1>9, StutterStep DEF Exited
<1> QED
  BY <1>1, <1>2, <1>3, <1>4, <1>5, <1>6, <1>7, <1>8, <1>9 DEF Next

\* Every run satisfies the inductive invariant, whatever the cases.
THEOREM Invariant == Spec => []IInv
  BY InitStep, NextStep, PTL DEF Spec

-----------------------------------------------------------------------------
(* The theorems                                                            *)

\* Whatever names a configuration gives its state files, and whatever links
\* and files the directory has: two digests that work at the same time never
\* have the same file open, although each may create its own while the others
\* work.
THEOREM FilesAreNotShared == Spec => []NoSharedStateFile
<1>1. IInv => NoSharedStateFile
  <2> SUFFICES ASSUME IInv, NEW i \in DOMAIN job, NEW j \in DOMAIN job, i # j,
                      job[i] = "working", job[j] = "working"
               PROVE  Target(fs, recipients[i].file) # Target(fs, recipients[j].file)
    BY DEF NoSharedStateFile
  <2>1. Target(fs, recipients[i].file) # Absent
    BY DEF IInv, FilesInv, FilesExist
  <2>2. ~Collide(fs, recipients[i].file, recipients[j].file)
    BY DEF IInv, FilesInv, FilesApart, JobsInv
  <2> QED
    BY <2>1, <2>2 DEF Collide, SameFile
<1> QED
  BY <1>1, Invariant, PTL

\* For any number of chats and any order in which their digests end: the
\* program exits with 0 only if all of the chats were done, with 1 only if the
\* arguments were right, and with 2 only if they were not and nothing was done.
THEOREM TheExitStatusTells == Spec => []ExitStatusTells
<1>1. IInv => ExitStatusTells
  BY DEF IInv
<1> QED
  BY <1>1, Invariant, PTL


\* What a run of the property needs to remain true: the chats' searches were
\* decoded, and the recipients are the selected chats.
SourcesInv ==
    /\ \A chat \in ToSet(config.chats) : SearchDecodes(chat.search)
    /\ SourcesAsConfigured

LEMMA SourcesStay ==
    ASSUME SourcesInv, UNCHANGED <<input, recipients>>
    PROVE  SourcesInv'
<1>1. args' = args /\ config' = config /\ recipients' = recipients
  BY DEF input
<1>2. Forgetting' = Forgetting /\ Selected' = Selected
  BY <1>1 DEF Forgetting, Modes, Selected
<1> QED
  BY <1>1, <1>2, SMTT(30) DEF SourcesInv, SourcesAsConfigured

LEMMA SourcesLoaded ==
    ASSUME IInv, SourcesInv, Load
    PROVE  SourcesInv'
<1>1. /\ args' = args /\ config' = config /\ Loadable
      /\ recipients' = [i \in DOMAIN Selected |-> Recipient(Selected[i])]
  BY DEF Load, input
<1>2. Forgetting' = Forgetting /\ Selected' = Selected
  BY <1>1 DEF Forgetting, Modes, Selected
<1>3. PICK chats : chats = config.chats /\ chats \in Seq(ToSet(chats))
  BY DEF IInv, JobsInv
<1>4. PICK selected : selected = Selected /\ selected \in Seq(ToSet(chats))
  BY <1>3, SelectionIs DEF Selected
<1>5. ASSUME ~Forgetting, NEW n \in DOMAIN selected
      PROVE  recipients'[n].urls = SearchURLs(selected[n].search)
  BY <1>1, <1>4, <1>5 DEF Recipient
<1>6. ASSUME ~Forgetting, NEW n \in DOMAIN selected
      PROVE  AsConfigured(recipients'[n].urls, selected[n].search)
  <2>1. selected[n] \in ToSet(chats)
    BY <1>4, LenProperties, ElementOfSeq
  <2>2. IsSearch(selected[n].search)
    BY <1>1, <1>3, <1>6, <2>1 DEF IsSearch, SourcesInv, Loadable, ConfigIsValid
  <2> QED
    BY <1>5, <1>6, <2>2, SearchAsConfigured, Zenon
<1>7. DOMAIN recipients' = DOMAIN selected
  BY <1>1, <1>4
<1>8. SourcesAsConfigured'
  <2> SUFFICES ASSUME ~Forgetting', NEW n \in DOMAIN recipients'
               PROVE  AsConfigured(recipients'[n].urls, Selected'[n].search)
    BY Zenon DEF SourcesAsConfigured, AsConfigured
  <2>1. AsConfigured(recipients'[n].urls, selected[n].search)
    BY <1>2, <1>6, <1>7
  <2> QED
    BY <1>2, <1>4, <2>1, Zenon
<1> QED
  BY <1>1, <1>8 DEF SourcesInv

LEMMA SourcesStep == IInv /\ SourcesInv /\ [Next]_vars => SourcesInv'
<1> SUFFICES ASSUME IInv, SourcesInv, [Next]_vars PROVE SourcesInv'
  OBVIOUS
<1>1. Load \/ UNCHANGED <<input, recipients>>
  BY DEF Next, Help, Reject, Accept, LoadFails, Begin, BeginFails, Finish, Signal, Return,
         ServiceReturns, Exited, vars
<1> QED
  BY <1>1, SourcesStay, SourcesLoaded

\* For any form, any accepted values and any number of categories, filters and
\* queries of any number of chats: a recipient's pages answer exactly what its
\* chat's search asks for, none answers nothing or is told twice, and they have the order
\* of the first requests for them.
THEOREM PagesAreAsConfigured == Spec => []SourcesAsConfigured
<1>1. Init => SourcesInv
  <2> SUFFICES ASSUME Init PROVE SourcesInv
    OBVIOUS
  <2>1. PICK c \in Cases : config = c.config
    BY DEF Init
  <2>2. \A chat \in ToSet(config.chats) : SearchDecodes(chat.search)
    BY <2>1, CasesAssumption, Zenon
  <2>3. DOMAIN recipients = {}
    BY EmptySeq DEF Init
  <2> QED
    BY <2>2, <2>3 DEF SourcesInv, SourcesAsConfigured
<1>2. SourcesInv => SourcesAsConfigured
  BY DEF SourcesInv
<1> QED
  BY <1>1, <1>2, Invariant, SourcesStep, PTL DEF Spec
=============================================================================
