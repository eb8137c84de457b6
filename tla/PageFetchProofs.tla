--------------------------- MODULE PageFetchProofs ---------------------------
(***************************************************************************)
(* Theorems about PageFetch, for all pages and listings: every listing is  *)
(* accounted for once, whichever pages show it and in whatever order; the  *)
(* first page wins; a fetch fails only if every page did; none of it is    *)
(* returned or joined after a cancellation; and every text of a paragraph  *)
(* that parses is read into its field.                                     *)
(***************************************************************************)
EXTENDS PageFetch, FiniteSetTheorems, SequenceTheorems, WellFoundedInduction, TLAPS

\* A set of natural numbers has a least element: what an induction over the
\* naturals is replaced with in these proofs.
LEMMA Least ==
    ASSUME NEW S, S \subseteq Nat, S # {}
    PROVE  \E m \in S : \A n \in S : m <= n
<1> DEFINE Less == OpToRel(<, Nat)
<1>1. IsWellFoundedOn(Less, Nat)
  BY NatLessThanWellFounded
<1> HIDE DEF Less
<1>2. PICK m \in S : \A n \in S : ~(<<n, m>> \in Less)
  BY <1>1, WFMin
<1>3. ASSUME NEW n \in S, n < m PROVE FALSE
  <2>1. <<n, m>> \in Nat \X Nat /\ <<n, m>>[1] < <<n, m>>[2]
    BY <1>3
  <2> QED
    BY <1>2, <2>1 DEF OpToRel, Less
<1> QED
  BY <1>3

\* What holds at 0, and after each step if it held before it, holds up to the
\* end.
LEMMA UpTo ==
    ASSUME NEW len \in Nat, NEW G, 0 \in G,
           \A n \in 1..len : n - 1 \in G => n \in G
    PROVE  0..len \subseteq G
<1> DEFINE Bad == { n \in 0..len : n \notin G }
<1>1. ASSUME Bad # {} PROVE FALSE
  <2>1. PICK n \in Bad : \A m \in Bad : n <= m
    <3>1. Bad \subseteq Nat
      OBVIOUS
    <3> HIDE DEF Bad
    <3> QED
      BY <1>1, <3>1, Least
  <2>2. n \in 0..len /\ n # 0
    BY <2>1
  <2>3. n - 1 \in 0..len /\ n - 1 \notin Bad /\ n \in 1..len
    BY <2>1, <2>2
  <2> QED
    BY <2>1, <2>3
<1> QED
  BY <1>1

\* A finite number of numbers has a largest one.
LEMMA Largest ==
    ASSUME NEW len \in Nat, NEW S, S \subseteq 1..len, S # {}
    PROVE  Max(S) \in S
<1> DEFINE Above == { n \in Nat : \A m \in S : m <= n }
<1>1. len \in Above /\ Above \subseteq Nat
  OBVIOUS
<1>2. PICK n \in Above : \A m \in Above : n <= m
  <2> HIDE DEF Above
  <2> QED
    BY <1>1, Least
<1>3. n \in S
  <2> SUFFICES ASSUME n \notin S PROVE FALSE
    OBVIOUS
  <2>1. n \in Nat /\ \A m \in S : m \in Nat /\ m <= n - 1
    BY <1>2
  <2>2. n - 1 \in Nat
    <3>1. \E m : m \in S
      BY Zenon
    <3>2. PICK m \in S : m \in Nat /\ m <= n - 1
      BY <2>1, <3>1
    <3> QED
      BY <2>1, <3>2
  <2> QED
    BY <1>2, <2>1, <2>2
<1>4. \E x \in S : \A y \in S : x >= y
  BY <1>2, <1>3
<1> QED
  BY <1>4 DEF Max

-----------------------------------------------------------------------------
(* Loops over a sequence                                                   *)

\* What a loop has computed after each of its rounds.
IsTable(f, base, step, len) ==
    f[0] = base /\ \A n \in 1..len : f[n] = step[<<f[n-1], n>>]

\* Every loop has such a table.
LEMMA TableExists ==
    ASSUME NEW S, NEW base \in S, NEW len \in Nat, NEW step \in [S \X (1..len) -> S]
    PROVE  \E f \in [0..len -> S] : IsTable(f, base, step, len)
<1> DEFINE Good == { n \in 0..len : \E f \in [0..n -> S] : IsTable(f, base, step, n) }
<1>1. 0 \in Good
  <2> DEFINE f == [n \in 0..0 |-> base]
  <2>1. f \in [0..0 -> S] /\ f[0] = base
    OBVIOUS
  <2>2. IsTable(f, base, step, 0)
    BY <2>1 DEF IsTable
  <2> QED
    BY <2>1, <2>2
<1>2. ASSUME NEW n \in 1..len, n - 1 \in Good PROVE n \in Good
  <2>1. PICK f \in [0..n - 1 -> S] : IsTable(f, base, step, n - 1)
    BY <1>2
  <2>2. /\ n - 1 \in 0..n - 1 /\ n \notin 0..n - 1 /\ n \in 0..n /\ 0 # n /\ 0 \in 0..n - 1
        /\ \A m \in 0..n : m # n => m \in 0..n - 1
        /\ \A m \in 1..n : m # n => m \in 0..n - 1 /\ m - 1 \in 0..n - 1 /\ m \in 1..n - 1
    OBVIOUS
  <2>3. PICK last \in S : last = step[<<f[n-1], n>>]
    <3>1. <<f[n-1], n>> \in S \X (1..len)
      BY <2>1, <2>2
    <3> QED
      BY <3>1
  <2> DEFINE g == [m \in 0..n |-> IF m = n THEN last ELSE f[m]]
  <2>4. g \in [0..n -> S] /\ g[n] = last /\ \A m \in 0..n - 1 : g[m] = f[m]
    BY <2>1, <2>2
  <2>5. IsTable(g, base, step, n)
    <3> HIDE DEF g
    <3>1. g[0] = base
      BY <2>1, <2>2, <2>4 DEF IsTable
    <3>2. ASSUME NEW m \in 1..n PROVE g[m] = step[<<g[m-1], m>>]
      <4>1. CASE m = n
        BY <2>2, <2>3, <2>4, <4>1
      <4>2. CASE m # n
        <5>1. m \in 0..n - 1 /\ m - 1 \in 0..n - 1 /\ m \in 1..n - 1
          BY <2>2, <4>2
        <5>2. f[m] = step[<<f[m-1], m>>]
          BY <2>1, <5>1 DEF IsTable
        <5> QED
          BY <2>4, <5>1, <5>2
      <4> QED
        BY <4>1, <4>2
    <3> QED
      BY <3>1, <3>2 DEF IsTable
  <2> HIDE DEF g
  <2> QED
    BY <2>4, <2>5
<1>3. 0..len \subseteq Good
  <2> HIDE DEF Good
  <2> QED
    BY <1>1, <1>2, UpTo
<1> QED
  BY <1>3

-----------------------------------------------------------------------------
(* Listings and bodies                                                     *)

\* A listing that parses has its buy URL.
LEMMA ListingsAre ==
    ASSUME NEW l \in Listings
    PROVE  /\ l \in [url : URLs \cup {NoURL}, parsed : BOOLEAN]
           /\ l.parsed => l.url \in URLs
<1>1. PICK par \in Paragraphs : l = Listing(par)
  BY DEF Listings
<1>2. par \in Seq(ToSet(par))
  BY ParagraphsAssumption
<1>3. PICK len \in Nat : len = Len(par) /\ DOMAIN par = 1..len
  BY <1>2, LenProperties
<1>4. \A i \in 1..len : Node(par[i]) \in Simple
  <2> TAKE i \in 1..len
  <2>1. par[i] \in ToSet(par)
    BY <1>3 DEF ToSet
  <2>2. CASE par[i] \in Simple
    <3>1. par[i].kind # "within"
      BY <2>2 DEF Simple
    <3> QED
      BY <2>2, <3>1 DEF Node
  <2>3. CASE par[i].kind = "within" /\ par[i].node \in Simple
    BY <2>3 DEF Node
  <2> QED
    BY <2>1, <2>2, <2>3, ParagraphsAssumption
<1>5. BuyURL(par) \in URLs \cup {NoURL}
  <2>1. CASE Buy(par) = 0
    BY <2>1 DEF BuyURL
  <2>2. CASE Buy(par) # 0
    <3>1. Places(par, "buy") # {} /\ Buy(par) = Max(Places(par, "buy"))
      BY <2>2 DEF Buy
    <3>2. Places(par, "buy") \subseteq 1..len
      BY <1>3 DEF Places
    <3>3. Buy(par) \in Places(par, "buy")
      BY <3>1, <3>2, Largest
    <3>4. PICK i \in 1..len : i = Buy(par) /\ Node(par[i]).kind = "buy"
      BY <1>3, <3>3 DEF Places
    <3>5. Node(par[i]) \in Simple
      BY <1>4
    <3>6. PICK node \in Simple : node = Node(par[i]) /\ node.kind = "buy"
      BY <3>4, <3>5
    <3>7. node.url \in URLs \cup {NoURL}
      BY <3>6 DEF Simple
    <3> QED
      BY <2>2, <3>4, <3>6, <3>7 DEF BuyURL
  <2> QED
    BY <2>1, <2>2
<1>6. Parses(par) \in BOOLEAN /\ (Parses(par) => BuyURL(par) # NoURL)
  BY DEF Parses
<1>7. l = [url |-> BuyURL(par), parsed |-> Parses(par)]
  BY <1>1 DEF Listing
<1> HIDE DEF Listings
<1> QED
  BY <1>5, <1>6, <1>7

\* What is known of the listings of a body.
IsBody(body, len) ==
    /\ len = Len(body) /\ DOMAIN body = 1..len
    /\ \A n \in 1..len :
          /\ body[n].url \in URLs \cup {NoURL} /\ body[n].parsed \in BOOLEAN
          /\ body[n].parsed => body[n].url \in URLs
          /\ body[n] = [url |-> body[n].url, parsed |-> body[n].parsed]

LEMMA BodiesAre ==
    ASSUME NEW body \in Bodies, body # Unreadable
    PROVE  \E len \in Nat : IsBody(body, len)
<1>1. PICK len \in Nat : body \in [1..len -> Listings]
  <2>1. PICK len \in 0..MaxListings : body \in [1..len -> Listings]
    BY DEF Bodies, BoundedSeq, SeqOf
  <2> QED
    BY <2>1, FetchAssumption
<1>2. body \in Seq(Listings)
  BY <1>1, SeqDef
<1>3. len = Len(body) /\ DOMAIN body = 1..len
  BY <1>1, <1>2, LenProperties
<1>4. ASSUME NEW n \in 1..len
      PROVE  /\ body[n].url \in URLs \cup {NoURL} /\ body[n].parsed \in BOOLEAN
             /\ body[n].parsed => body[n].url \in URLs
             /\ body[n] = [url |-> body[n].url, parsed |-> body[n].parsed]
  <2>1. PICK l \in Listings : l = body[n]
    BY <1>1, <1>4
  <2>2. /\ l \in [url : URLs \cup {NoURL}, parsed : BOOLEAN]
        /\ l.parsed => l.url \in URLs
    BY ListingsAre
  <2> QED
    BY <2>1, <2>2
<1> QED
  BY <1>3, <1>4 DEF IsBody

\* A URL is shown by a body if one of its listings has it.
Shows(body, n, url, parsed) == body[n].url = url /\ body[n].parsed = parsed

LEMMA ShownIs ==
    ASSUME NEW body, NEW len \in Nat, IsBody(body, len), NEW url, NEW parsed \in BOOLEAN
    PROVE  [url |-> url, parsed |-> parsed] \in ToSet(body)
               <=> \E n \in 1..len : Shows(body, n, url, parsed)
<1>1. ASSUME NEW n \in 1..len
      PROVE  body[n] = [url |-> url, parsed |-> parsed] <=> Shows(body, n, url, parsed)
  BY DEF IsBody, Shows
<1>2. ToSet(body) = { body[n] : n \in 1..len }
  BY DEF IsBody, ToSet
<1> QED
  BY <1>1, <1>2

-----------------------------------------------------------------------------
(* The texts of a paragraph                                                *)

\* A set of places with an element has a first one.
LEMMA Smallest ==
    ASSUME NEW len \in Nat, NEW S, S \subseteq 1..len, S # {}
    PROVE  Min(S) \in S
<1>1. PICK m \in S : \A n \in S : m <= n
  <2>1. S \subseteq Nat
    OBVIOUS
  <2> QED
    BY <2>1, Least
<1>2. \E x \in S : \A y \in S : x <= y
  BY <1>1
<1> QED
  BY <1>2 DEF Min

\* The elements of a paragraph: what lies within another one is a title, a
\* seller or a buy link, so all others are found at their places.
IsParagraph(par, len) ==
    /\ len = Len(par) /\ DOMAIN par = 1..len
    /\ \A kind \in {"photo", "photos", "preamble", "price", "condition"} :
          Places(par, kind) = { i \in 1..len : par[i].kind = kind }

LEMMA ParagraphIs ==
    ASSUME NEW par \in Paragraphs
    PROVE  \E len \in Nat : IsParagraph(par, len)
<1>1. par \in Seq(ToSet(par))
  BY ParagraphsAssumption
<1>2. PICK len \in Nat : len = Len(par) /\ DOMAIN par = 1..len
  BY <1>1, LenProperties
<1>3. ASSUME NEW i \in 1..len, NEW kind \in {"photo", "photos", "preamble", "price", "condition"}
      PROVE  Node(par[i]).kind = kind <=> par[i].kind = kind
  <2>1. par[i] \in ToSet(par)
    BY <1>2 DEF ToSet
  <2>2. CASE par[i] \in Simple
    <3>1. par[i].kind # "within"
      BY <2>2 DEF Simple
    <3> QED
      BY <3>1 DEF Node
  <2>3. CASE par[i].kind = "within" /\ par[i].node.kind \in {"title", "seller", "buy"}
    BY <2>3 DEF Node
  <2> QED
    BY <2>1, <2>2, <2>3, ParagraphsAssumption
<1>4. ASSUME NEW kind \in {"photo", "photos", "preamble", "price", "condition"}
      PROVE  Places(par, kind) = { i \in 1..len : par[i].kind = kind }
  BY <1>2, <1>3 DEF Places
<1> QED
  BY <1>2, <1>4 DEF IsParagraph

\* The lines are numbered from 0, and an earlier element is on an earlier line
\* or on the same.
LEMMA LinesGrow ==
    ASSUME NEW par, NEW i \in Nat, NEW j \in Nat, i <= j
    PROVE  Line(par, i) \in Nat /\ Line(par, j) \in Nat /\ Line(par, i) <= Line(par, j)
<1> DEFINE Breaks(n) == { k \in 1..n : par[k].kind = "break" }
<1>1. ASSUME NEW n \in Nat PROVE IsFiniteSet(Breaks(n))
  <2>1. IsFiniteSet(1..n)
    BY FS_Interval
  <2>2. Breaks(n) \subseteq 1..n
    OBVIOUS
  <2> QED
    BY <2>1, <2>2, FS_Subset
<1>2. Breaks(i) \subseteq Breaks(j)
  OBVIOUS
<1>3. /\ Cardinality(Breaks(i)) \in Nat /\ Cardinality(Breaks(j)) \in Nat
      /\ Cardinality(Breaks(i)) <= Cardinality(Breaks(j))
  BY <1>1, <1>2, FS_Subset, FS_CardinalityType
<1> QED
  BY <1>3 DEF Line

\* A part is counted behind it.
LEMMA PartCounts ==
    ASSUME NEW par, NEW i \in Nat, NEW to \in Nat, i # 0, i < to,
           par[i].kind \notin {"break", "within"}
    PROVE  Part(par, i) + 1 <= Cardinality(OnLine(par, Parts(par, 0, to), Line(par, i)))
<1> DEFINE n == Line(par, i)
           Before(k) == OnLine(par, Parts(par, 0, k), n)
<1>1. ASSUME NEW k \in Nat PROVE IsFiniteSet(Before(k))
  <2>1. 1 \in Int /\ k - 1 \in Int
    OBVIOUS
  <2>2. IsFiniteSet(1..k - 1)
    BY <2>1, FS_Interval
  <2>3. Before(k) \subseteq 1..k - 1
    BY DEF OnLine, Parts
  <2> QED
    BY <2>2, <2>3, FS_Subset
<1>2. i \notin Before(i) /\ i \in Before(to) /\ Before(i) \subseteq Before(to)
  BY DEF OnLine, Parts
<1>3. PICK A, B : A = Before(i) /\ B = Before(to)
  OBVIOUS
<1> HIDE DEF Before, n
<1>4. /\ IsFiniteSet(A \cup {i}) /\ Cardinality(A \cup {i}) = Cardinality(A) + 1
  BY <1>1, <1>2, <1>3, FS_AddElement
<1>5. A \cup {i} \subseteq B /\ IsFiniteSet(B)
  BY <1>1, <1>2, <1>3
<1>6. Cardinality(A) + 1 <= Cardinality(B)
  BY <1>4, <1>5, FS_Subset
<1> QED
  BY <1>3, <1>6 DEF Part, Before, n

\* The places of the links that share out a paragraph that parses.
LEMMA LinksAre ==
    ASSUME NEW par, NEW len \in Nat, IsParagraph(par, len), Parses(par)
    PROVE  /\ Title(par) \in 1..len /\ Buy(par) \in 1..len /\ Seller(par) \in 0..len
           /\ Title(par) < Buy(par)
           /\ par[Title(par)].kind # "within" /\ par[Buy(par)].kind # "within"
           /\ \/ /\ Sale(par) = Seller(par) /\ Found(par, Seller(par))
                 /\ Title(par) < Seller(par) /\ Seller(par) < Buy(par)
                 /\ par[Seller(par)].kind = "seller"
              \/ Sale(par) = Buy(par) /\ ~Found(par, Seller(par))
<1>1. ASSUME NEW kind PROVE Places(par, kind) \subseteq 1..len
  BY DEF Places, IsParagraph
<1>2. Title(par) \in 1..len
  <2>1. Places(par, "title") # {} /\ Title(par) = Min(Places(par, "title"))
    BY DEF Parses, Title, First
  <2> QED
    BY <1>1, <2>1, Smallest
<1>3. Buy(par) \in 1..len
  <2>1. Places(par, "buy") # {} /\ Buy(par) = Max(Places(par, "buy"))
    BY DEF Parses, Buy, BuyURL
  <2> QED
    BY <1>1, <2>1, Largest
<1>4. Seller(par) = 0 \/ (Seller(par) \in Places(par, "seller") /\ Seller(par) \in 1..len)
  <2>1. CASE Places(par, "seller") = {}
    BY <2>1 DEF Seller, First
  <2>2. CASE Places(par, "seller") # {}
    BY <1>1, <2>2, Smallest DEF Seller, First
  <2> QED
    BY <2>1, <2>2
<1>5. Title(par) < Buy(par) /\ Found(par, Title(par)) /\ Found(par, Buy(par))
  BY DEF Parses
<1>6. CASE Found(par, Seller(par))
  <2>1. Title(par) < Seller(par) /\ Seller(par) < Buy(par) /\ Sale(par) = Seller(par)
    BY <1>6 DEF Parses, SellerBetween, Sale
  <2>2. par[Seller(par)].kind = "seller"
    BY <1>4, <1>6 DEF Found, Places, Node
  <2> QED
    BY <1>2, <1>3, <1>4, <1>5, <1>6, <2>1, <2>2 DEF Found
<1>7. CASE ~Found(par, Seller(par))
  BY <1>2, <1>3, <1>4, <1>5, <1>7 DEF Found, Sale
<1> QED
  BY <1>6, <1>7

\* No allocation of parseBibliography and no slice of parseSeller is out of
\* range.
LEMMA BoundsHold ==
    ASSUME NEW par, NEW len \in Nat, IsParagraph(par, len), Parses(par)
    PROVE  \A bounds \in Bounds(par) : bounds[1] <= bounds[2]
<1>1. 0 <= (Line(par, Sale(par)) + 1) - Line(par, Title(par))
  <2>1. Title(par) \in Nat /\ Sale(par) \in Nat /\ Title(par) <= Sale(par)
    BY LinksAre
  <2> QED
    BY <2>1, LinesGrow
<1>2. ASSUME Found(par, Seller(par))
      PROVE  Part(par, Seller(par)) + 1 <=
                IF Line(par, Seller(par)) = Line(par, Buy(par)) THEN Part(par, Buy(par))
                ELSE Cardinality(OnLine(par, Parts(par, 0, Len(par) + 1), Line(par, Seller(par))))
  <2>1. PICK s \in Nat : s = Seller(par)
    BY LinksAre
  <2>2. s # 0 /\ par[s].kind \notin {"break", "within"} /\ s < Buy(par) /\ s < len + 1
    BY <1>2, <2>1, LinksAre
  <2>3. ASSUME NEW to \in Nat, s < to
        PROVE  Part(par, s) + 1 <= Cardinality(OnLine(par, Parts(par, 0, to), Line(par, s)))
    BY <2>2, <2>3, PartCounts
  <2>4. Part(par, s) + 1 <= Cardinality(OnLine(par, Parts(par, 0, Buy(par)), Line(par, s)))
    BY <2>2, <2>3, LinksAre
  <2>5. Part(par, s) + 1 <= Cardinality(OnLine(par, Parts(par, 0, len + 1), Line(par, s)))
    BY <2>2, <2>3
  <2>6. len = Len(par)
    BY DEF IsParagraph
  <2>7. Line(par, s) = Line(par, Buy(par)) =>
          Part(par, Buy(par)) = Cardinality(OnLine(par, Parts(par, 0, Buy(par)), Line(par, s)))
    BY DEF Part
  <2> QED
    BY <2>1, <2>4, <2>5, <2>6, <2>7
<1> QED
  BY <1>1, <1>2 DEF Bounds

\* Alib's layout, by the places of its links and of the price label.
LEMMA LayoutIs ==
    ASSUME NEW par, NEW len \in Nat, IsParagraph(par, len), Parses(par), Usual(par)
    PROVE  \E label \in 1..len :
              /\ label = Max(Places(par, "price"))
              /\ \A i \in 1..len : par[i].kind = "price" <=> i = label
              /\ Title(par) < label /\ Seller(par) < label /\ label < Buy(par)
              /\ Line(par, label) = Line(par, Buy(par))
              /\ Found(par, Seller(par)) =>
                    /\ Line(par, Seller(par)) = Line(par, Buy(par))
                    /\ \A i \in 1..len : par[i].kind = "preamble" /\ i < Seller(par) => i = Seller(par) - 1
<1>1. /\ Places(par, "price") = { i \in 1..len : par[i].kind = "price" }
      /\ Places(par, "preamble") = { i \in 1..len : par[i].kind = "preamble" }
  BY DEF IsParagraph
<1>2. PICK label \in Places(par, "price") :
          /\ Places(par, "price") = {label}
          /\ Title(par) < label /\ Seller(par) < label /\ label < Buy(par)
          /\ Line(par, label) = Line(par, Buy(par))
  BY DEF Usual
<1>3. Found(par, Seller(par)) =>
          /\ Line(par, Seller(par)) = Line(par, Buy(par))
          /\ \A i \in Places(par, "preamble") : i < Seller(par) => i = Seller(par) - 1
  BY DEF Usual
<1>4. Max(Places(par, "price")) \in Places(par, "price")
  <2>1. Places(par, "price") \subseteq 1..len /\ Places(par, "price") # {}
    BY <1>1, <1>2
  <2> QED
    BY <2>1, Largest
<1>5. label = Max(Places(par, "price"))
  BY <1>2, <1>4
<1>6. label \in 1..len /\ \A i \in 1..len : par[i].kind = "price" <=> i = label
  BY <1>1, <1>2
<1>7. Found(par, Seller(par)) =>
          \A i \in 1..len : par[i].kind = "preamble" /\ i < Seller(par) => i = Seller(par) - 1
  BY <1>1, <1>3
<1> QED
  BY <1>2, <1>3, <1>5, <1>6, <1>7

\* What lies between two elements of a line is on that line.
LEMMA SameLine ==
    ASSUME NEW par, NEW i \in Nat, NEW j \in Nat, NEW k \in Nat, i <= j, j <= k,
           Line(par, i) = Line(par, k)
    PROVE  Line(par, j) = Line(par, k)
<1>1. /\ Line(par, i) \in Nat /\ Line(par, j) \in Nat /\ Line(par, k) \in Nat
      /\ Line(par, i) <= Line(par, j) /\ Line(par, j) <= Line(par, k)
  BY LinesGrow
<1> QED
  BY <1>1

\* The texts are the parts of the paragraph but for the preambles.
LEMMA TextIs ==
    ASSUME NEW par, NEW len \in Nat, IsParagraph(par, len), NEW i \in Texts(par)
    PROVE  i \in 1..len /\ par[i].kind \notin {"break", "within", "preamble"}
<1> QED
  BY DEF Texts, Parts, IsParagraph

\* A text is in the bibliography if it comes between the title and the seller,
\* or, without a seller, between the title and the price label.
LEMMA BibliographyIs ==
    ASSUME NEW par, NEW len \in Nat, IsParagraph(par, len), Parses(par), Usual(par), NEW i \in Texts(par)
    PROVE  i \in Bibliography(par)
              <=> Title(par) < i /\ i < Max(Places(par, "price")) /\ i < Sale(par)
<1>0. i \in 1..len /\ par[i].kind \notin {"break", "within", "preamble"}
  BY TextIs
<1>1. PICK label \in 1..len :
          /\ label = Max(Places(par, "price"))
          /\ \A j \in 1..len : par[j].kind = "price" <=> j = label
          /\ Title(par) < label /\ Seller(par) < label /\ label < Buy(par)
          /\ Line(par, label) = Line(par, Buy(par))
          /\ Found(par, Seller(par)) =>
                /\ Line(par, Seller(par)) = Line(par, Buy(par))
                /\ \A j \in 1..len : par[j].kind = "preamble" /\ j < Seller(par) => j = Seller(par) - 1
  BY LayoutIs, Zenon
<1> DEFINE all  == Parts(par, Title(par), Sale(par))
           last == OnLine(par, all, Line(par, Sale(par)))
<1>2. PICK title \in 1..len, sale \in 1..len : title = Title(par) /\ sale = Sale(par) /\ title < sale
  BY LinksAre
<1>3. \A j : j \in all <=> j \in title + 1..sale - 1 /\ par[j].kind \notin {"break", "within"}
  BY <1>2 DEF Parts
<1>4. i \in all <=> title < i /\ i < sale
  BY <1>0, <1>2, <1>3
<1>5. \A j : j \in last <=> j \in all /\ Line(par, j) = Line(par, sale)
  BY <1>2 DEF OnLine
<1>6. last \subseteq all /\ \A j \in all : j \in 1..len /\ j < sale
  BY <1>2, <1>3, <1>5
<1> HIDE DEF all, last
<1>7. CASE Found(par, Seller(par))
  <2>1. Sale(par) = Seller(par) /\ sale < label
    BY <1>1, <1>2, <1>7, LinksAre
  <2>2. \A j \in last : par[j].kind # "price"
    BY <1>1, <1>6, <2>1
  <2>3. \A j \in last : par[j].kind = "preamble" => j = sale - 1
    BY <1>1, <1>2, <1>6, <1>7, <2>1
  <2>4. i \in last => i \in Trimmed(par, last)
    <3>1. CASE \E j \in last : par[j].kind = "preamble"
      <4> DEFINE P == { j \in last : par[j].kind = "preamble" }
      <4>1. P # {} /\ P \subseteq 1..len /\ \A j \in P : j = sale - 1
        BY <1>6, <2>3, <3>1
      <4>2. Max(P) = sale - 1
        <5> HIDE DEF P
        <5> QED
          BY <4>1, Largest
      <4>3. i \in last => i < sale - 1
        <5>1. par[sale - 1].kind = "preamble"
          BY <2>3, <3>1
        <5> QED
          BY <1>0, <1>2, <1>6, <5>1
      <4>4. Trimmed(par, last) = { j \in last : j < Max(P) }
        BY <3>1 DEF Trimmed
      <4> QED
        BY <4>2, <4>3, <4>4
    <3>2. CASE ~\E j \in last : par[j].kind = "preamble"
      BY <3>2 DEF Trimmed
    <3> QED
      BY <3>1, <3>2
  <2>5. Trimmed(par, last) \subseteq last
    BY DEF Trimmed
  <2>6. BeforeFirst(par, Trimmed(par, last), {"price"}) = Trimmed(par, last)
    BY <2>2, <2>5 DEF BeforeFirst
  <2>7. Bibliography(par) = (all \ last) \cup Trimmed(par, last)
    BY <1>7, <2>6 DEF Bibliography, all, last
  <2>8. i \in Bibliography(par) <=> i \in all
    BY <1>6, <2>4, <2>5, <2>7
  <2> QED
    BY <1>0, <1>1, <1>2, <1>4, <2>1, <2>8
<1>8. CASE ~Found(par, Seller(par))
  <2>1. Sale(par) = Buy(par) /\ label < sale
    BY <1>1, <1>2, <1>8, LinksAre
  <2>2. label \in last
    <3>1. label \in all
      <4>1. par[label].kind = "price"
        BY <1>1
      <4> QED
        BY <1>1, <1>2, <1>3, <2>1, <4>1
    <3> QED
      BY <1>1, <1>2, <1>5, <2>1, <3>1
  <2>3. \A j \in last : par[j].kind \in {"price"} <=> j = label
    BY <1>1, <1>6
  <2>4. i \in BeforeFirst(par, last, {"price"}) <=> i \in last /\ i < label
    BY <2>2, <2>3 DEF BeforeFirst
  <2>5. Bibliography(par) = (all \ last) \cup BeforeFirst(par, last, {"price"})
    BY <1>8 DEF Bibliography, all, last
  <2>6. ASSUME i \in all, i \notin last PROVE i < label
    <3>1. i < sale /\ Line(par, i) # Line(par, sale)
      BY <1>5, <1>6, <2>6
    <3>2. CASE label <= i
      BY <1>0, <1>1, <1>2, <2>1, <3>1, <3>2, SameLine
    <3> QED
      BY <1>0, <3>2
  <2>7. i \in Bibliography(par) <=> i \in all /\ i < label
    BY <1>6, <2>4, <2>5, <2>6
  <2>8. i < label => i < sale
    BY <1>0, <1>2, <2>1
  <2> QED
    BY <1>1, <1>2, <1>4, <2>7, <2>8
<1> QED
  BY <1>7, <1>8

\* A text is the location if it comes between the seller and the price label.
LEMMA LocationIs ==
    ASSUME NEW par, NEW len \in Nat, IsParagraph(par, len), Parses(par), Usual(par), NEW i \in Texts(par)
    PROVE  i \in Location(par) <=> Sale(par) < i /\ i < Max(Places(par, "price"))
<1>0. i \in 1..len /\ par[i].kind \notin {"break", "within", "preamble"}
  BY TextIs
<1>1. PICK label \in 1..len :
          /\ label = Max(Places(par, "price"))
          /\ \A j \in 1..len : par[j].kind = "price" <=> j = label
          /\ Title(par) < label /\ Seller(par) < label /\ label < Buy(par)
          /\ Line(par, label) = Line(par, Buy(par))
          /\ Found(par, Seller(par)) =>
                /\ Line(par, Seller(par)) = Line(par, Buy(par))
                /\ \A j \in 1..len : par[j].kind = "preamble" /\ j < Seller(par) => j = Seller(par) - 1
  BY LayoutIs, Zenon
<1>2. PICK buy \in 1..len, sale \in 1..len : buy = Buy(par) /\ sale = Sale(par)
  BY LinksAre
<1>3. CASE Found(par, Seller(par))
  <2>1. Sale(par) = Seller(par) /\ sale < label /\ label < buy /\ Line(par, sale) = Line(par, buy)
    BY <1>1, <1>2, <1>3, LinksAre
  <2> DEFINE line == OnLine(par, Parts(par, sale, buy), Line(par, sale))
  <2>2. \A j : j \in line <=>
            j \in sale + 1..buy - 1 /\ par[j].kind \notin {"break", "within"} /\ Line(par, j) = Line(par, sale)
    BY DEF OnLine, Parts
  <2>3. Location(par) = BeforeFirst(par, line, {"price"})
    BY <1>2, <1>3, <2>1 DEF Location
  <2> HIDE DEF line
  <2>4. label \in line /\ \A j \in line : par[j].kind \in {"price"} <=> j = label
    <3>1. par[label].kind = "price"
      BY <1>1
    <3> QED
      BY <1>1, <1>2, <2>1, <2>2, <3>1
  <2>5. i \in Location(par) <=> i \in line /\ i < label
    BY <2>3, <2>4 DEF BeforeFirst
  <2>6. ASSUME sale < i, i < label PROVE i \in line
    <3>1. Line(par, i) = Line(par, buy)
      BY <1>0, <1>2, <2>1, <2>6, SameLine
    <3> QED
      BY <1>0, <2>1, <2>2, <2>6, <3>1
  <2>7. i \in line => sale < i
    BY <1>0, <2>2
  <2> QED
    BY <1>1, <1>2, <2>5, <2>6, <2>7
<1>4. CASE ~Found(par, Seller(par))
  <2>1. Location(par) = {} /\ label < sale
    BY <1>1, <1>2, <1>4, LinksAre DEF Location
  <2> QED
    BY <1>0, <1>1, <1>2, <2>1
<1> QED
  BY <1>3, <1>4

\* A text is the price if it comes between its label and the buy link.
LEMMA PriceIs ==
    ASSUME NEW par, NEW len \in Nat, IsParagraph(par, len), Parses(par), Usual(par), NEW i \in Texts(par)
    PROVE  i \in Price(par) <=> Max(Places(par, "price")) < i /\ i < Buy(par)
<1>0. i \in 1..len /\ par[i].kind \notin {"break", "within", "preamble"}
  BY TextIs
<1>1. PICK label \in 1..len :
          /\ label = Max(Places(par, "price"))
          /\ \A j \in 1..len : par[j].kind = "price" <=> j = label
          /\ Title(par) < label /\ Seller(par) < label /\ label < Buy(par)
          /\ Line(par, label) = Line(par, Buy(par))
          /\ Found(par, Seller(par)) =>
                /\ Line(par, Seller(par)) = Line(par, Buy(par))
                /\ \A j \in 1..len : par[j].kind = "preamble" /\ j < Seller(par) => j = Seller(par) - 1
  BY LayoutIs, Zenon
<1>2. PICK buy \in 1..len : buy = Buy(par) /\ label < buy
  BY <1>1, LinksAre
<1> DEFINE line   == OnLine(par, Parts(par, 0, buy), Line(par, buy))
           labels == { j \in line : par[j].kind = "price" }
<1>3. \A j : j \in line <=>
          j \in 1..buy - 1 /\ par[j].kind \notin {"break", "within"} /\ Line(par, j) = Line(par, buy)
  BY DEF OnLine, Parts
<1>4. Price(par) = { j \in line : labels # {} /\ j > Max(labels) }
  BY <1>2 DEF Price
<1> HIDE DEF line
<1>5. labels = {label}
  <2>1. par[label].kind = "price" /\ label \in line
    BY <1>1, <1>2, <1>3
  <2>2. \A j \in line : j \in 1..len
    BY <1>2, <1>3
  <2> QED
    BY <1>1, <2>1, <2>2
<1>6. Max(labels) = label
  <2>1. labels \subseteq 1..len /\ labels # {}
    BY <1>5
  <2> HIDE DEF labels
  <2> QED
    BY <1>5, <2>1, Largest
<1>7. i \in Price(par) <=> i \in line /\ i > label
  BY <1>4, <1>5, <1>6
<1>8. ASSUME label < i, i < buy PROVE i \in line
  <2>1. Line(par, i) = Line(par, buy)
    BY <1>0, <1>1, <1>2, <1>8, SameLine
  <2> QED
    BY <1>0, <1>2, <1>3, <1>8, <2>1
<1>9. i \in line => i < buy
  BY <1>0, <1>2, <1>3
<1> QED
  BY <1>0, <1>1, <1>2, <1>7, <1>8, <1>9

\* What is read before the first of some kinds of parts behind the buy link.
LEMMA BehindIs ==
    ASSUME NEW par, NEW len \in Nat, IsParagraph(par, len), Parses(par), NEW i \in Texts(par),
           NEW kinds, {"break", "within"} \cap kinds = {}
    PROVE  i \in BeforeFirst(par, Parts(par, Buy(par), Len(par) + 1), kinds)
              <=> Buy(par) < i /\ i \notin Behind(par, kinds)
<1>0. i \in 1..len /\ par[i].kind \notin {"break", "within", "preamble"} /\ len = Len(par)
  BY TextIs DEF IsParagraph
<1>1. PICK buy \in 1..len : buy = Buy(par)
  BY LinksAre
<1> DEFINE S == Parts(par, buy, len + 1)
<1>2. \A j : j \in S <=> j \in buy + 1..len /\ par[j].kind \notin {"break", "within"}
  BY DEF Parts
<1>3. i \in Behind(par, kinds) <=> \E j \in buy + 1..i : par[j].kind \in kinds
  BY <1>1 DEF Behind
<1>4. i \in BeforeFirst(par, S, kinds) <=> i \in S /\ \A j \in S : par[j].kind \in kinds => i < j
  BY DEF BeforeFirst
<1> HIDE DEF S
<1>5. i \in S <=> buy < i
  BY <1>0, <1>2
<1>6. (\A j \in S : par[j].kind \in kinds => i < j) <=> ~\E j \in buy + 1..i : par[j].kind \in kinds
  <2>1. ASSUME NEW j \in S, par[j].kind \in kinds, ~(i < j) PROVE j \in buy + 1..i
    BY <1>0, <1>2, <2>1
  <2>2. ASSUME NEW j \in buy + 1..i, par[j].kind \in kinds PROVE j \in S /\ ~(i < j)
    BY <1>0, <1>2, <2>2
  <2> QED
    BY <2>1, <2>2
<1>7. S = Parts(par, Buy(par), Len(par) + 1)
  BY <1>0, <1>1 DEF S
<1> QED
  BY <1>1, <1>3, <1>4, <1>5, <1>6, <1>7

\* The texts behind the buy link, up to the first label and the photos.
LEMMA ContentIs ==
    ASSUME NEW par, NEW len \in Nat, IsParagraph(par, len), Parses(par), NEW i \in Texts(par)
    PROVE  /\ i \in Content(par)
                 <=> Buy(par) < i /\ i \notin Behind(par, {"photo", "photos", "condition"})
           /\ i \in Condition(par)
                 <=> i \in Behind(par, {"condition"}) /\ i \notin Behind(par, {"photo", "photos"})
<1>0. i \in 1..len
  BY TextIs
<1>1. PICK buy \in 1..len : buy = Buy(par)
  BY LinksAre
<1>2. i \in Description(par) <=> buy < i /\ i \notin Behind(par, {"photo", "photos"})
  BY <1>1, BehindIs DEF Description
<1>3. \A j : j \in Description(par) <=>
          /\ j \in buy + 1..len /\ par[j].kind \notin {"break", "within"}
          /\ \A k \in buy + 1..len : par[k].kind \in {"photo", "photos"} => j < k
  <2>1. len = Len(par)
    BY DEF IsParagraph
  <2>2. \A j : j \in Parts(par, buy, len + 1) <=> j \in buy + 1..len /\ par[j].kind \notin {"break", "within"}
    BY DEF Parts
  <2> QED
    BY <1>1, <2>1, <2>2 DEF Description, BeforeFirst
<1>4. \A kinds : i \in Behind(par, kinds) <=> \E j \in buy + 1..i : par[j].kind \in kinds
  BY <1>1 DEF Behind
<1>5. i \in Content(par) <=>
          /\ i \in Description(par)
          /\ \A j \in Description(par) : par[j].kind \in {"condition"} => i < j
  BY DEF Content, BeforeFirst
<1>6. ASSUME i \in Description(par)
      PROVE  (\E j \in Description(par) : par[j].kind \in {"condition"} /\ ~(i < j))
                <=> \E j \in buy + 1..i : par[j].kind \in {"condition"}
  <2>1. ASSUME NEW j \in buy + 1..i, par[j].kind \in {"condition"}
        PROVE  j \in Description(par) /\ ~(i < j)
    <3>1. \A k \in buy + 1..len : par[k].kind \in {"photo", "photos"} => i < k
      BY <1>3, <1>6
    <3>2. j \in buy + 1..len /\ j <= i
      BY <1>0, <2>1
    <3>3. \A k \in buy + 1..len : par[k].kind \in {"photo", "photos"} => j < k
      BY <1>0, <3>1, <3>2
    <3> QED
      BY <1>0, <1>3, <2>1, <3>2, <3>3
  <2>2. ASSUME NEW j \in Description(par), par[j].kind \in {"condition"}, ~(i < j)
        PROVE  j \in buy + 1..i
    BY <1>0, <1>3, <2>2
  <2> QED
    BY <2>1, <2>2
<1>7. i \in Content(par) <=> i \in Description(par) /\ i \notin Behind(par, {"condition"})
  BY <1>4, <1>5, <1>6
<1>8. i \in Condition(par) <=> i \in Description(par) /\ i \in Behind(par, {"condition"})
  BY <1>7 DEF Condition
<1>9. i \in Behind(par, {"photo", "photos", "condition"})
        <=> i \in Behind(par, {"photo", "photos"}) \/ i \in Behind(par, {"condition"})
  BY <1>4
<1>10. i \in Behind(par, {"condition"}) => buy < i
  BY <1>0, <1>4
<1> QED
  BY <1>1, <1>2, <1>7, <1>8, <1>9, <1>10

\* Every text of a paragraph that parses has its field.
LEMMA TextsHaveFields ==
    ASSUME NEW par, NEW len \in Nat, IsParagraph(par, len), Parses(par)
    PROVE  FieldsAreInPlace(par)
<1>1. \A bounds \in Bounds(par) : bounds[1] <= bounds[2]
  BY BoundsHold
<1> DEFINE label == Max(Places(par, "price"))
<1>2. Texts(par) \subseteq 1..len /\ Texts(par) \subseteq Nat
  BY TextIs
<1>3. ASSUME Usual(par)
      PROVE  /\ Bibliography(par) \cap Texts(par) =
                   { i \in Between(par, Title(par), label) : i < Sale(par) }
             /\ Location(par) \cap Texts(par) = Between(par, Sale(par), label)
             /\ Price(par) \cap Texts(par) = Between(par, label, Buy(par))
             /\ Content(par) \cap Texts(par) =
                   Between(par, Buy(par), Len(par) + 1) \ Behind(par, {"photo", "photos"} \cup {"condition"})
             /\ Condition(par) \cap Texts(par) = Behind(par, {"condition"}) \ Behind(par, {"photo", "photos"})
  <2>1. \A from, to, i : i \in Between(par, from, to) <=> i \in Texts(par) /\ from < i /\ i < to
    BY DEF Between
  <2>2. Bibliography(par) \cap Texts(par) = { i \in Between(par, Title(par), label) : i < Sale(par) }
    BY <1>3, <2>1, BibliographyIs
  <2>3. Location(par) \cap Texts(par) = Between(par, Sale(par), label)
    BY <1>3, <2>1, LocationIs
  <2>4. Price(par) \cap Texts(par) = Between(par, label, Buy(par))
    BY <1>3, <2>1, PriceIs
  <2>5. \A i \in Texts(par) : i < Len(par) + 1
    BY <1>2 DEF IsParagraph
  <2>6. {"photo", "photos"} \cup {"condition"} = {"photo", "photos", "condition"}
    OBVIOUS
  <2>7. Content(par) \cap Texts(par) =
            Between(par, Buy(par), Len(par) + 1) \ Behind(par, {"photo", "photos"} \cup {"condition"})
    <3>1. \A i \in Texts(par) : i \in Content(par)
              <=> Buy(par) < i /\ i \notin Behind(par, {"photo", "photos", "condition"})
      BY ContentIs
    <3> QED
      BY <2>1, <2>5, <2>6, <3>1
  <2>8. Condition(par) \cap Texts(par) = Behind(par, {"condition"}) \ Behind(par, {"photo", "photos"})
    <3>1. \A i \in Texts(par) : i \in Condition(par)
              <=> i \in Behind(par, {"condition"}) /\ i \notin Behind(par, {"photo", "photos"})
      BY ContentIs
    <3>2. Behind(par, {"condition"}) \subseteq Texts(par)
      BY DEF Behind
    <3> QED
      BY <3>1, <3>2
  <2> QED
    BY <2>2, <2>3, <2>4, <2>7, <2>8
<1> QED
  BY <1>1, <1>3 DEF FieldsAreInPlace

LEMMA NoneMisread == Misread = {}
<1>1. ASSUME NEW par \in Paragraphs, Parses(par) PROVE FieldsAreInPlace(par)
  <2>1. PICK len \in Nat : IsParagraph(par, len)
    BY ParagraphIs
  <2> QED
    BY <1>1, <2>1, TextsHaveFields
<1> QED
  BY <1>1 DEF Misread

-----------------------------------------------------------------------------
(* Listings joined                                                         *)

States == [books : Seq(Books), failed : SUBSET URLs, failedOrder : Seq(URLs)]

\* No listing is there twice, none is both a book and failed, and the order
\* has the failed ones, and only some that were parsed after all besides them.
Sound(s) ==
    /\ s \in States
    /\ \A i, j \in DOMAIN s.books : s.books[i].url = s.books[j].url => i = j
    /\ s.failed \cap Seen(s) = {}
    /\ \A i, j \in DOMAIN s.failedOrder : s.failedOrder[i] = s.failedOrder[j] => i = j
    /\ \A i \in DOMAIN s.failedOrder : s.failedOrder[i] \in s.failed \cup Seen(s)
    /\ \A url \in s.failed : \E i \in DOMAIN s.failedOrder : s.failedOrder[i] = url

\* Only books of a page are added, behind the others.
Continues(s, t, p) ==
    /\ Len(s.books) <= Len(t.books)
    /\ \A i \in 1..Len(s.books) : t.books[i] = s.books[i]
    /\ \A i \in 1..Len(t.books) : i > Len(s.books) => t.books[i].page = p

LEMMA StateFields ==
    ASSUME NEW s \in States
    PROVE  /\ s.books \in Seq(Books) /\ Len(s.books) \in Nat /\ DOMAIN s.books = 1..Len(s.books)
           /\ s.failed \in SUBSET URLs
           /\ s.failedOrder \in Seq(URLs) /\ Len(s.failedOrder) \in Nat
           /\ DOMAIN s.failedOrder = 1..Len(s.failedOrder)
           /\ \A i \in 1..Len(s.books) : s.books[i] \in Books
           /\ \A i \in 1..Len(s.failedOrder) : s.failedOrder[i] \in URLs
           /\ Seen(s) \subseteq URLs
<1>1. s.books \in Seq(Books) /\ s.failed \in SUBSET URLs /\ s.failedOrder \in Seq(URLs)
  BY DEF States
<1>2. /\ Len(s.books) \in Nat /\ DOMAIN s.books = 1..Len(s.books)
      /\ \A i \in 1..Len(s.books) : s.books[i] \in Books
  BY <1>1, LenProperties, ElementOfSeq
<1>3. /\ Len(s.failedOrder) \in Nat /\ DOMAIN s.failedOrder = 1..Len(s.failedOrder)
      /\ \A i \in 1..Len(s.failedOrder) : s.failedOrder[i] \in URLs
  BY <1>1, LenProperties, ElementOfSeq
<1>4. Seen(s) \subseteq URLs
  BY <1>2 DEF Seen, ToSet, Books
<1> QED
  BY <1>1, <1>2, <1>3, <1>4

LEMMA SeenIs ==
    ASSUME NEW s \in States, NEW url
    PROVE  url \in Seen(s) <=> \E i \in 1..Len(s.books) : s.books[i].url = url
<1>1. DOMAIN s.books = 1..Len(s.books)
  BY StateFields
<1> QED
  BY <1>1 DEF Seen, ToSet

LEMMA ContinuesOn ==
    ASSUME NEW s \in States, NEW t \in States, NEW u \in States, NEW p,
           Continues(s, t, p), Continues(t, u, p)
    PROVE  Continues(s, u, p)
<1>1. Len(s.books) \in Nat /\ Len(t.books) \in Nat /\ Len(u.books) \in Nat
  BY StateFields
<1>2. PICK a \in Nat, b \in Nat, c \in Nat : a = Len(s.books) /\ b = Len(t.books) /\ c = Len(u.books)
  BY <1>1
<1>3. /\ a <= b /\ \A i \in 1..a : t.books[i] = s.books[i]
      /\ \A i \in 1..b : i > a => t.books[i].page = p
  BY <1>2 DEF Continues
<1>4. /\ b <= c /\ \A i \in 1..b : u.books[i] = t.books[i]
      /\ \A i \in 1..c : i > b => u.books[i].page = p
  BY <1>2 DEF Continues
<1>5. a <= c
  BY <1>3, <1>4
<1>6. \A i \in 1..a : u.books[i] = s.books[i]
  BY <1>3, <1>4
<1>7. \A i \in 1..c : i > a => u.books[i].page = p
  BY <1>3, <1>4
<1> QED
  BY <1>2, <1>5, <1>6, <1>7 DEF Continues

\* What appending an element does.
IsLonger(more, seq, e, len) ==
    /\ len = Len(seq) /\ DOMAIN seq = 1..len
    /\ Len(more) = len + 1 /\ DOMAIN more = 1..len + 1
    /\ \A i \in 1..len : more[i] = seq[i]
    /\ more[len + 1] = e

LEMMA Appended ==
    ASSUME NEW S, NEW seq \in Seq(S), NEW e \in S
    PROVE  \E len \in Nat : \E more \in Seq(S) :
              more = Append(seq, e) /\ IsLonger(more, seq, e, len)
<1>1. Len(seq) \in Nat /\ DOMAIN seq = 1..Len(seq)
  BY LenProperties
<1>2. /\ Append(seq, e) \in Seq(S) /\ Len(Append(seq, e)) = Len(seq) + 1
      /\ \A i \in 1..Len(seq) : Append(seq, e)[i] = seq[i]
      /\ Append(seq, e)[Len(seq) + 1] = e
  BY AppendProperties
<1>3. PICK len, more : len = Len(seq) /\ more = Append(seq, e)
  OBVIOUS
<1>4. /\ len \in Nat /\ more \in Seq(S) /\ Len(more) = len + 1
      /\ \A i \in 1..len : more[i] = seq[i]
      /\ more[len + 1] = e
  BY <1>1, <1>2, <1>3
<1>5. DOMAIN more = 1..len + 1
  BY <1>4, LenProperties
<1> QED
  BY <1>1, <1>3, <1>4, <1>5 DEF IsLonger

\* A listing that parses is taken from the failures, and joins the books if it
\* is the first of its URL.
LEMMA BookAdded ==
    ASSUME NEW s, Sound(s), NEW book \in Books
    PROVE  /\ Sound(AddBook(s, book)) /\ Continues(s, AddBook(s, book), book.page)
           /\ Seen(AddBook(s, book)) = Seen(s) \cup {book.url}
           /\ AddBook(s, book).failed = s.failed \ {book.url}
<1> DEFINE t == AddBook(s, book)
<1>0. s \in States /\ book.url \in URLs
  BY DEF Sound, Books
<1>1. PICK kept \in SUBSET URLs : kept = s.failed \ {book.url}
  BY <1>0, StateFields
<1>2. CASE book.url \in Seen(s)
  <2>1. /\ t.books = s.books /\ t.failed = kept /\ t.failedOrder = s.failedOrder /\ t \in States
    BY <1>0, <1>1, <1>2 DEF AddBook, States
  <2> HIDE DEF t
  <2>2. Seen(t) = Seen(s)
    BY <2>1 DEF Seen
  <2>3. Sound(t)
    <3>1. \A i, j \in DOMAIN t.books : t.books[i].url = t.books[j].url => i = j
      BY <2>1 DEF Sound
    <3>2. t.failed \cap Seen(t) = {}
      BY <1>1, <2>1, <2>2 DEF Sound
    <3>3. \A i, j \in DOMAIN t.failedOrder : t.failedOrder[i] = t.failedOrder[j] => i = j
      BY <2>1 DEF Sound
    <3>4. \A i \in DOMAIN t.failedOrder : t.failedOrder[i] \in t.failed \cup Seen(t)
      BY <1>1, <1>2, <2>1, <2>2 DEF Sound
    <3>5. \A url \in t.failed : \E i \in DOMAIN t.failedOrder : t.failedOrder[i] = url
      BY <1>1, <2>1 DEF Sound
    <3> QED
      BY <2>1, <3>1, <3>2, <3>3, <3>4, <3>5 DEF Sound
  <2>4. Continues(s, t, book.page)
    <3>1. PICK a \in Nat : a = Len(s.books)
      BY <1>0, StateFields
    <3> QED
      BY <2>1, <3>1 DEF Continues
  <2> QED
    BY <1>1, <1>2, <2>1, <2>2, <2>3, <2>4 DEF t
<1>3. CASE book.url \notin Seen(s)
  <2>1. s.books \in Seq(Books)
    BY <1>0, StateFields
  <2>2. PICK len \in Nat, more \in Seq(Books) :
              more = Append(s.books, book) /\ IsLonger(more, s.books, book, len)
    BY <2>1, Appended, Zenon
  <2>3. /\ len = Len(s.books) /\ DOMAIN s.books = 1..len
        /\ Len(more) = len + 1 /\ DOMAIN more = 1..len + 1
        /\ \A i \in 1..len : more[i] = s.books[i]
        /\ more[len + 1] = book
    BY <2>2 DEF IsLonger
  <2>4. /\ t.books = more /\ t.failed = kept /\ t.failedOrder = s.failedOrder /\ t \in States
    BY <1>0, <1>1, <1>3, <2>2 DEF AddBook, States
  <2> HIDE DEF t
  <2>5. \A i \in 1..len + 1 : i \in 1..len \/ i = len + 1
    OBVIOUS
  <2>6. Seen(t) = Seen(s) \cup {book.url}
    <3>1. ASSUME NEW url PROVE url \in Seen(t) <=> url \in Seen(s) \/ url = book.url
      <4>0. url \in Seen(t) <=> \E i \in 1..Len(t.books) : t.books[i].url = url
        BY <2>4, SeenIs, Zenon
      <4>1. url \in Seen(t) <=> \E i \in 1..len + 1 : more[i].url = url
        BY <2>3, <2>4, <4>0
      <4>2. url \in Seen(s) <=> \E i \in 1..len : s.books[i].url = url
        BY <1>0, <2>3, SeenIs
      <4>3. len + 1 \in 1..len + 1 /\ \A i \in 1..len : i \in 1..len + 1
        OBVIOUS
      <4> QED
        BY <2>3, <2>5, <4>1, <4>2, <4>3
    <3> QED
      BY <3>1
  <2>7. Sound(t)
    <3>1. \A i, j \in DOMAIN t.books : t.books[i].url = t.books[j].url => i = j
      <4>1. \A i \in 1..len : s.books[i].url # book.url
        BY <1>0, <1>3, <2>3, SeenIs
      <4>2. \A i, j \in 1..len : s.books[i].url = s.books[j].url => i = j
        BY <2>3 DEF Sound
      <4> QED
        BY <2>3, <2>4, <2>5, <4>1, <4>2
    <3>2. t.failed \cap Seen(t) = {}
      BY <1>1, <2>4, <2>6 DEF Sound
    <3>3. \A i, j \in DOMAIN t.failedOrder : t.failedOrder[i] = t.failedOrder[j] => i = j
      BY <2>4 DEF Sound
    <3>4. \A i \in DOMAIN t.failedOrder : t.failedOrder[i] \in t.failed \cup Seen(t)
      BY <1>1, <2>4, <2>6 DEF Sound
    <3>5. \A url \in t.failed : \E i \in DOMAIN t.failedOrder : t.failedOrder[i] = url
      BY <1>1, <2>4 DEF Sound
    <3> QED
      BY <2>4, <3>1, <3>2, <3>3, <3>4, <3>5 DEF Sound
  <2>8. Continues(s, t, book.page)
    BY <2>3, <2>4, <2>5 DEF Continues
  <2> QED
    BY <1>1, <2>4, <2>6, <2>7, <2>8 DEF t
<1> QED
  BY <1>2, <1>3

\* A failure is told once, and only if its URL has not been parsed.
LEMMA FailureAdded ==
    ASSUME NEW s, Sound(s), NEW url \in URLs
    PROVE  /\ Sound(AddFailure(s, url)) /\ AddFailure(s, url).books = s.books
           /\ AddFailure(s, url).failed = s.failed \cup ({url} \ Seen(s))
<1> DEFINE t == AddFailure(s, url)
<1>0. s \in States
  BY DEF Sound
<1>1. CASE url \in Seen(s) \cup s.failed
  BY <1>1 DEF AddFailure
<1>2. CASE url \notin Seen(s) \cup s.failed
  <2>1. s.failedOrder \in Seq(URLs)
    BY <1>0, StateFields
  <2>2. PICK len \in Nat, more \in Seq(URLs) :
              more = Append(s.failedOrder, url) /\ IsLonger(more, s.failedOrder, url, len)
    BY <2>1, Appended, Zenon
  <2>3. /\ len = Len(s.failedOrder) /\ DOMAIN s.failedOrder = 1..len
        /\ Len(more) = len + 1 /\ DOMAIN more = 1..len + 1
        /\ \A i \in 1..len : more[i] = s.failedOrder[i]
        /\ more[len + 1] = url
    BY <2>2 DEF IsLonger
  <2>4. PICK all \in SUBSET URLs : all = s.failed \cup {url}
    BY <1>0, StateFields
  <2>5. t.books = s.books /\ t.failed = all /\ t.failedOrder = more /\ t \in States
    BY <1>0, <1>2, <2>2, <2>4 DEF AddFailure, States
  <2> HIDE DEF t
  <2>6. \A i \in 1..len + 1 : i \in 1..len \/ i = len + 1
    OBVIOUS
  <2>7. Seen(t) = Seen(s)
    BY <2>5 DEF Seen
  <2>8. \A i \in 1..len : s.failedOrder[i] # url
    BY <1>2, <2>3 DEF Sound
  <2>9. Sound(t)
    <3>1. \A i, j \in DOMAIN t.books : t.books[i].url = t.books[j].url => i = j
      BY <2>5 DEF Sound
    <3>2. t.failed \cap Seen(t) = {}
      BY <1>2, <2>4, <2>5, <2>7 DEF Sound
    <3>3. \A i, j \in DOMAIN t.failedOrder : t.failedOrder[i] = t.failedOrder[j] => i = j
      <4>1. \A i, j \in 1..len : s.failedOrder[i] = s.failedOrder[j] => i = j
        BY <2>3 DEF Sound
      <4> QED
        BY <2>3, <2>5, <2>6, <2>8, <4>1
    <3>4. \A i \in DOMAIN t.failedOrder : t.failedOrder[i] \in t.failed \cup Seen(t)
      <4>1. \A i \in 1..len : s.failedOrder[i] \in s.failed \cup Seen(s)
        BY <2>3 DEF Sound
      <4> QED
        BY <2>3, <2>4, <2>5, <2>6, <2>7, <4>1
    <3>5. \A u \in t.failed : \E i \in DOMAIN t.failedOrder : t.failedOrder[i] = u
      <4>1. \A u \in s.failed : \E i \in 1..len : s.failedOrder[i] = u
        BY <2>3 DEF Sound
      <4>2. len + 1 \in 1..len + 1 /\ \A i \in 1..len : i \in 1..len + 1
        OBVIOUS
      <4> QED
        BY <2>3, <2>4, <2>5, <4>1, <4>2
    <3> QED
      BY <2>5, <3>1, <3>2, <3>3, <3>4, <3>5 DEF Sound
  <2> QED
    BY <1>2, <2>4, <2>5, <2>9 DEF t
<1> QED
  BY <1>1, <1>2

LEMMA ContinuesItself ==
    ASSUME NEW s \in States, NEW t \in States, t.books = s.books, NEW p
    PROVE  Continues(s, t, p) /\ Seen(t) = Seen(s)
<1>1. PICK a \in Nat : a = Len(s.books)
  BY StateFields
<1> QED
  BY <1>1 DEF Continues, Seen

\* A listing of a body is joined.
LEMMA ListingAdded ==
    ASSUME NEW s, Sound(s), NEW p \in 1..Pages, NEW l,
           l.url \in URLs \cup {NoURL}, l.parsed \in BOOLEAN, l.parsed => l.url \in URLs
    PROVE  /\ Sound(AddListing(s, l, p)) /\ Continues(s, AddListing(s, l, p), p)
           /\ Seen(AddListing(s, l, p)) = Seen(s) \cup { url \in URLs : l.url = url /\ l.parsed }
           /\ AddListing(s, l, p).failed
                  = (s.failed \cup { url \in URLs : l.url = url /\ ~l.parsed })
                    \ Seen(AddListing(s, l, p))
<1> DEFINE t == AddListing(s, l, p)
<1>0. s \in States /\ s.failed \subseteq URLs /\ Seen(s) \subseteq URLs /\ s.failed \cap Seen(s) = {}
  BY StateFields DEF Sound
<1>1. CASE l.parsed
  <2> DEFINE book == [url |-> l.url, page |-> p]
  <2>1. book \in Books /\ book.url = l.url /\ book.page = p /\ t = AddBook(s, book)
    BY <1>1 DEF Books, AddListing
  <2> HIDE DEF book, t
  <2>2. /\ Sound(t) /\ Continues(s, t, p) /\ Seen(t) = Seen(s) \cup {l.url}
        /\ t.failed = s.failed \ {l.url}
    BY <2>1, BookAdded
  <2>3. Seen(t) = Seen(s) \cup { url \in URLs : l.url = url /\ l.parsed }
    BY <1>1, <2>2
  <2>4. t.failed = (s.failed \cup { url \in URLs : l.url = url /\ ~l.parsed }) \ Seen(t)
    BY <1>0, <1>1, <2>2
  <2> QED
    BY <2>2, <2>3, <2>4 DEF t
<1>2. CASE ~l.parsed /\ l.url = NoURL
  <2>1. t = s
    BY <1>2 DEF AddListing
  <2>2. { url \in URLs : l.url = url } = {}
    BY <1>2, ParagraphsAssumption
  <2>3. Continues(s, s, p)
    BY <1>0, ContinuesItself
  <2> HIDE DEF t
  <2> QED
    BY <1>0, <1>2, <2>1, <2>2, <2>3 DEF t
<1>3. CASE ~l.parsed /\ l.url # NoURL
  <2>1. t = AddFailure(s, l.url) /\ l.url \in URLs
    BY <1>3 DEF AddListing
  <2> HIDE DEF t
  <2>2. Sound(t) /\ t.books = s.books /\ t.failed = s.failed \cup ({l.url} \ Seen(s))
    BY <2>1, FailureAdded
  <2>3. Continues(s, t, p) /\ Seen(t) = Seen(s)
    BY <1>0, <2>2, ContinuesItself DEF Sound
  <2> QED
    BY <1>0, <1>3, <2>1, <2>2, <2>3 DEF t
<1> QED
  BY <1>1, <1>2, <1>3

-----------------------------------------------------------------------------
(* A page's result                                                         *)

SoundStates == { s \in States : Sound(s) }

LEMMA NothingYet == EmptyState \in SoundStates /\ Seen(EmptyState) = {} /\ EmptyState.failed = {}
<1>1. PICK none : none = <<>>
  OBVIOUS
<1>2. none \in Seq(Books) /\ none \in Seq(URLs) /\ DOMAIN none = {}
  <2>1. none \in Seq(Books) /\ none \in Seq(URLs) /\ Len(none) = 0
    BY <1>1, EmptySeq
  <2>2. DOMAIN none = 1..0
    BY <2>1, LenProperties
  <2> QED
    BY <2>1, <2>2
<1>3. /\ EmptyState.books = none /\ EmptyState.failed = {} /\ EmptyState.failedOrder = none
      /\ EmptyState \in States
  BY <1>1, <1>2 DEF EmptyState, States
<1>4. Seen(EmptyState) = {}
  BY <1>1, <1>3 DEF Seen, ToSet
<1>5. Sound(EmptyState)
  BY <1>1, <1>2, <1>3, <1>4 DEF Sound
<1> QED
  BY <1>3, <1>4, <1>5 DEF SoundStates

\* What parsing has joined after each listing.
IsParsing(f, body, p, len) ==
    f = [n \in 0..len |-> IF n = 0 THEN EmptyState ELSE AddListing(f[n-1], body[n], p)]

LEMMA ParsingExists ==
    ASSUME NEW body, NEW len \in Nat, IsBody(body, len), NEW p \in 1..Pages
    PROVE  \E f \in [0..len -> SoundStates] : IsParsing(f, body, p, len)
<1> DEFINE step == [x \in SoundStates \X (1..len) |-> AddListing(x[1], body[x[2]], p)]
<1>1. \A s \in SoundStates, n \in 1..len : AddListing(s, body[n], p) \in SoundStates
  <2> TAKE s \in SoundStates, n \in 1..len
  <2>1. /\ body[n].url \in URLs \cup {NoURL} /\ body[n].parsed \in BOOLEAN
        /\ body[n].parsed => body[n].url \in URLs
    BY DEF IsBody
  <2>2. Sound(s)
    BY DEF SoundStates
  <2>3. Sound(AddListing(s, body[n], p))
    BY <2>1, <2>2, ListingAdded
  <2> QED
    BY <2>3 DEF SoundStates, Sound
<1>2. step \in [SoundStates \X (1..len) -> SoundStates]
  BY <1>1
<1>3. \A s \in SoundStates, n \in 1..len : step[<<s, n>>] = AddListing(s, body[n], p)
  OBVIOUS
<1> HIDE DEF step
<1>4. PICK f \in [0..len -> SoundStates] : IsTable(f, EmptyState, step, len)
  BY <1>2, NothingYet, TableExists
<1>5. \A n \in 0..len : f[n] = IF n = 0 THEN EmptyState ELSE AddListing(f[n-1], body[n], p)
  <2> TAKE n \in 0..len
  <2>1. CASE n = 0
    BY <1>4, <2>1 DEF IsTable
  <2>2. CASE n # 0
    <3>1. n \in 1..len /\ n - 1 \in 0..len
      BY <2>2
    <3>2. f[n-1] \in SoundStates /\ f[n] = step[<<f[n-1], n>>]
      BY <1>4, <3>1 DEF IsTable
    <3> QED
      BY <1>3, <2>2, <3>1, <3>2
  <2> QED
    BY <2>1, <2>2
<1>6. f = [n \in 0..len |-> f[n]]
  OBVIOUS
<1> QED
  BY <1>5, <1>6 DEF IsParsing

\* What a body of some listings gives.
IsResult(r, body, len, p) ==
    /\ Sound(r) /\ \A i \in DOMAIN r.books : r.books[i].page = p
    /\ Seen(r) = { url \in URLs : \E n \in 1..len : Shows(body, n, url, TRUE) }
    /\ r.failed = { url \in URLs \ Seen(r) : \E n \in 1..len : Shows(body, n, url, FALSE) }

\* Parsing a body gives the listings that are well formed somewhere in it as
\* books of its page, and those that are malformed wherever it shows them as
\* failed ones.
LEMMA ParsedIs ==
    ASSUME NEW body, NEW len \in Nat, IsBody(body, len), NEW p \in 1..Pages
    PROVE  IsResult(Parsed(body, p), body, len, p)
<1> SUFFICES /\ Sound(Parsed(body, p))
             /\ \A i \in DOMAIN Parsed(body, p).books : Parsed(body, p).books[i].page = p
             /\ Seen(Parsed(body, p)) = { url \in URLs : \E n \in 1..len : Shows(body, n, url, TRUE) }
             /\ Parsed(body, p).failed =
                   { url \in URLs \ Seen(Parsed(body, p)) : \E n \in 1..len : Shows(body, n, url, FALSE) }
  BY Zenon DEF IsResult
<1> DEFINE f == CHOOSE g : IsParsing(g, body, p, len)
<1>1. IsParsing(f, body, p, len)
  BY ParsingExists
<1>2. Parsed(body, p) = f[len]
  BY DEF Parsed, IsParsing, IsBody
<1> HIDE DEF f
<1>3. f[0] = EmptyState /\ \A n \in 1..len : f[n] = AddListing(f[n-1], body[n], p)
  BY <1>1 DEF IsParsing
<1> DEFINE Known(m) == { url \in URLs : \E n \in 1..m : Shows(body, n, url, TRUE) }
           Bad(m) == { url \in URLs : \E n \in 1..m : Shows(body, n, url, FALSE) }
           Good == { m \in 0..len : /\ Sound(f[m]) /\ Continues(EmptyState, f[m], p)
                                    /\ Seen(f[m]) = Known(m) /\ f[m].failed = Bad(m) \ Known(m) }
<1>4. 0 \in Good
  <2>1. Known(0) = {} /\ Bad(0) = {}
    OBVIOUS
  <2>2. Continues(EmptyState, EmptyState, p) /\ Sound(EmptyState)
    BY NothingYet, ContinuesItself DEF SoundStates
  <2> HIDE DEF Known, Bad
  <2> QED
    BY <1>3, <2>1, <2>2, NothingYet
<1>5. ASSUME NEW m \in 1..len, m - 1 \in Good PROVE m \in Good
  <2>1. PICK k \in 0..len : k = m - 1 /\ k \in Good
    BY <1>5
  <2>2. PICK s, t : s = f[k] /\ t = f[m] /\ t = AddListing(s, body[m], p)
    BY <1>3, <2>1
  <2>3. PICK l : l = body[m]
    OBVIOUS
  <2>4. l.url \in URLs \cup {NoURL} /\ l.parsed \in BOOLEAN /\ (l.parsed => l.url \in URLs)
    BY <2>3 DEF IsBody
  <2>5. /\ Sound(s) /\ Continues(EmptyState, s, p)
        /\ Seen(s) = Known(k) /\ s.failed = Bad(k) \ Known(k)
    BY <2>1, <2>2
  <2>6. /\ Sound(t) /\ Continues(s, t, p)
        /\ Seen(t) = Seen(s) \cup { url \in URLs : l.url = url /\ l.parsed }
        /\ t.failed = (s.failed \cup { url \in URLs : l.url = url /\ ~l.parsed }) \ Seen(t)
    <3>1. /\ Sound(AddListing(s, l, p)) /\ Continues(s, AddListing(s, l, p), p)
          /\ Seen(AddListing(s, l, p)) = Seen(s) \cup { url \in URLs : l.url = url /\ l.parsed }
          /\ AddListing(s, l, p).failed
                 = (s.failed \cup { url \in URLs : l.url = url /\ ~l.parsed })
                   \ Seen(AddListing(s, l, p))
      BY <2>4, <2>5, ListingAdded
    <3> QED
      BY <2>2, <2>3, <3>1
  <2>7. Continues(EmptyState, t, p)
    BY <2>5, <2>6, NothingYet, ContinuesOn DEF Sound, SoundStates
  <2>8. \A n \in 1..m : n \in 1..k \/ n = m
    BY <2>1
  <2>9. m \in 1..m /\ \A n \in 1..k : n \in 1..m
    BY <2>1
  <2>10. Known(m) = Known(k) \cup { url \in URLs : l.url = url /\ l.parsed }
    BY <2>3, <2>4, <2>8, <2>9 DEF Shows
  <2>11. Bad(m) = Bad(k) \cup { url \in URLs : l.url = url /\ ~l.parsed }
    BY <2>3, <2>4, <2>8, <2>9 DEF Shows
  <2> HIDE DEF Known, Bad
  <2>12. Seen(t) = Known(m)
    BY <2>5, <2>6, <2>10
  <2>13. t.failed = Bad(m) \ Known(m)
    BY <2>5, <2>6, <2>10, <2>11, <2>12
  <2>14. m \in 0..len /\ f[m] = t
    BY <2>2
  <2> QED
    BY <2>6, <2>7, <2>12, <2>13, <2>14
<1>6. len \in Good
  <2>1. len \in 0..len
    OBVIOUS
  <2> HIDE DEF Good
  <2> QED
    BY <1>4, <1>5, <2>1, UpTo
<1>7. PICK r : r = Parsed(body, p)
  OBVIOUS
<1>8. /\ Sound(r) /\ Continues(EmptyState, r, p)
      /\ Seen(r) = Known(len) /\ r.failed = Bad(len) \ Known(len)
  BY <1>2, <1>6, <1>7
<1>9. \A i \in DOMAIN r.books : r.books[i].page = p
  <2>1. DOMAIN r.books = 1..Len(r.books) /\ Len(r.books) \in Nat
    BY <1>8, StateFields DEF Sound
  <2>2. Len(EmptyState.books) = 0
    BY DEF EmptyState
  <2> QED
    BY <1>8, <2>1, <2>2 DEF Continues
<1> QED
  BY <1>7, <1>8, <1>9

-----------------------------------------------------------------------------
(* The failures of a result                                                *)

\* A failure is listed unless it has been parsed after all.
Listed(urls, s, n) ==
    IF s.failedOrder[n] \in s.failed THEN Append(urls, s.failedOrder[n]) ELSE urls

IsListing(f, s, len) == f = [n \in 0..len |-> IF n = 0 THEN <<>> ELSE Listed(f[n-1], s, n)]

LEMMA ListingExists ==
    ASSUME NEW s \in States, NEW len \in Nat, len = Len(s.failedOrder)
    PROVE  \E f \in [0..len -> Seq(URLs)] : IsListing(f, s, len)
<1> DEFINE step == [x \in Seq(URLs) \X (1..len) |-> Listed(x[1], s, x[2])]
<1>1. ASSUME NEW urls \in Seq(URLs), NEW n \in 1..len PROVE Listed(urls, s, n) \in Seq(URLs)
  <2>1. s.failedOrder[n] \in URLs
    BY StateFields
  <2>2. Append(urls, s.failedOrder[n]) \in Seq(URLs)
    BY <2>1, AppendProperties
  <2> QED
    BY <2>2 DEF Listed
<1>2. step \in [Seq(URLs) \X (1..len) -> Seq(URLs)]
  BY <1>1
<1>3. \A urls \in Seq(URLs), n \in 1..len : step[<<urls, n>>] = Listed(urls, s, n)
  OBVIOUS
<1> HIDE DEF step
<1>4. PICK none \in Seq(URLs) : none = <<>>
  <2>1. <<>> \in Seq(URLs)
    BY EmptySeq
  <2> QED
    BY <2>1, Zenon
<1>5. PICK f \in [0..len -> Seq(URLs)] : IsTable(f, none, step, len)
  BY <1>2, TableExists
<1>6. \A n \in 0..len : f[n] = IF n = 0 THEN none ELSE Listed(f[n-1], s, n)
  <2> TAKE n \in 0..len
  <2>1. CASE n = 0
    BY <1>5, <2>1 DEF IsTable
  <2>2. CASE n # 0
    <3>1. n \in 1..len /\ n - 1 \in 0..len
      BY <2>2
    <3>2. f[n-1] \in Seq(URLs) /\ f[n] = step[<<f[n-1], n>>]
      BY <1>5, <3>1 DEF IsTable
    <3> QED
      BY <1>3, <2>2, <3>1, <3>2
  <2> QED
    BY <2>1, <2>2
<1>7. f = [n \in 0..len |-> f[n]]
  OBVIOUS
<1> QED
  BY <1>4, <1>6, <1>7 DEF IsListing

\* A sequence has the elements of a set once each.
Enumerates(seq, S) ==
    /\ \A i, j \in DOMAIN seq : seq[i] = seq[j] => i = j
    /\ \A i \in DOMAIN seq : seq[i] \in S
    /\ \A e \in S : \E i \in DOMAIN seq : seq[i] = e

LEMMA EnumeratesMore ==
    ASSUME NEW seq \in Seq(URLs), NEW S, Enumerates(seq, S), NEW e \in URLs, e \notin S
    PROVE  Append(seq, e) \in Seq(URLs) /\ Enumerates(Append(seq, e), S \cup {e})
<1>1. PICK len \in Nat, more \in Seq(URLs) : more = Append(seq, e) /\ IsLonger(more, seq, e, len)
  BY Appended, Zenon
<1>2. /\ DOMAIN seq = 1..len /\ DOMAIN more = 1..len + 1
      /\ \A i \in 1..len : more[i] = seq[i]
      /\ more[len + 1] = e
  BY <1>1 DEF IsLonger
<1>3. /\ \A i \in 1..len + 1 : i \in 1..len \/ i = len + 1
      /\ len + 1 \in 1..len + 1 /\ \A i \in 1..len : i \in 1..len + 1
  OBVIOUS
<1>4. /\ \A i, j \in 1..len : seq[i] = seq[j] => i = j
      /\ \A i \in 1..len : seq[i] \in S
      /\ \A x \in S : \E i \in 1..len : seq[i] = x
  BY <1>2 DEF Enumerates
<1>5. \A i, j \in DOMAIN more : more[i] = more[j] => i = j
  BY <1>2, <1>3, <1>4
<1>6. \A i \in DOMAIN more : more[i] \in S \cup {e}
  BY <1>2, <1>3, <1>4
<1>7. \A x \in S \cup {e} : \E i \in DOMAIN more : more[i] = x
  BY <1>2, <1>3, <1>4
<1> QED
  BY <1>1, <1>5, <1>6, <1>7 DEF Enumerates

\* Every failed listing is listed, once.
LEMMA FailedListed ==
    ASSUME NEW s, Sound(s)
    PROVE  FailedBuyURLs(s) \in Seq(URLs) /\ Enumerates(FailedBuyURLs(s), s.failed)
<1>1. s \in States
  BY DEF Sound
<1>2. PICK len \in Nat : len = Len(s.failedOrder) /\ DOMAIN s.failedOrder = 1..len
  BY <1>1, StateFields
<1> DEFINE f == CHOOSE g : IsListing(g, s, len)
<1>3. IsListing(f, s, len)
  BY <1>1, <1>2, ListingExists
<1>4. FailedBuyURLs(s) = f[len]
  BY <1>2 DEF FailedBuyURLs, IsListing, Listed
<1> HIDE DEF f
<1>5. f[0] = <<>> /\ \A n \in 1..len : f[n] = Listed(f[n-1], s, n)
  BY <1>3 DEF IsListing
<1> DEFINE Told(n) == { s.failedOrder[i] : i \in 1..n } \cap s.failed
           Good == { n \in 0..len : f[n] \in Seq(URLs) /\ Enumerates(f[n], Told(n)) }
<1>6. 0 \in Good
  <2>1. PICK none : none = <<>>
    OBVIOUS
  <2>2. none \in Seq(URLs) /\ Len(none) = 0
    BY <2>1, EmptySeq
  <2>3. DOMAIN none = {}
    <3>1. DOMAIN none = 1..0
      BY <2>2, LenProperties
    <3> QED
      BY <3>1
  <2>4. Told(0) = {} /\ Enumerates(none, {})
    BY <2>3 DEF Enumerates
  <2>5. f[0] = none
    BY <1>5, <2>1, Zenon
  <2> HIDE DEF Told
  <2>6. f[0] \in Seq(URLs) /\ Enumerates(f[0], Told(0))
    BY <2>2, <2>4, <2>5, Zenon
  <2>7. 0 \in 0..len
    OBVIOUS
  <2> QED
    BY <2>6, <2>7, Zenon
<1>7. ASSUME NEW n \in 1..len, n - 1 \in Good PROVE n \in Good
  <2>1. PICK k \in 0..len : k = n - 1
    BY <1>7
  <2>2. PICK urls \in Seq(URLs) : urls = f[k] /\ Enumerates(urls, Told(k))
    BY <1>7, <2>1
  <2>3. PICK url \in URLs : url = s.failedOrder[n]
    BY <1>1, <1>2, StateFields
  <2>4. f[n] = IF url \in s.failed THEN Append(urls, url) ELSE urls
    BY <1>5, <2>1, <2>2, <2>3 DEF Listed
  <2>5. /\ \A i \in 1..n : i \in 1..k \/ i = n
        /\ n \in 1..n /\ \A i \in 1..k : i \in 1..n /\ i # n /\ i \in 1..len
    BY <2>1
  <2>6. url \notin Told(k)
    BY <1>2, <2>3, <2>5 DEF Sound
  <2>7. Told(n) = IF url \in s.failed THEN Told(k) \cup {url} ELSE Told(k)
    BY <2>3, <2>5
  <2> HIDE DEF Told
  <2>8. PICK listed : listed = f[n]
    OBVIOUS
  <2>9. CASE url \in s.failed
    <3>1. Append(urls, url) \in Seq(URLs) /\ Enumerates(Append(urls, url), Told(k) \cup {url})
      BY <2>2, <2>6, EnumeratesMore, Zenon
    <3>2. listed = Append(urls, url) /\ Told(n) = Told(k) \cup {url}
      BY <2>4, <2>7, <2>8, <2>9, Zenon
    <3>3. listed \in Seq(URLs) /\ Enumerates(listed, Told(n))
      BY <3>1, <3>2, Zenon
    <3> QED
      BY <2>8, <3>3
  <2>10. CASE url \notin s.failed
    BY <2>2, <2>4, <2>7, <2>10
  <2> QED
    BY <2>9, <2>10
<1>8. len \in Good
  <2>1. len \in 0..len
    OBVIOUS
  <2> HIDE DEF Good
  <2> QED
    BY <1>6, <1>7, <2>1, UpTo
<1>9. Told(len) = s.failed
  BY <1>2 DEF Sound
<1> QED
  BY <1>4, <1>8, <1>9

-----------------------------------------------------------------------------
(* A page's result joins                                                   *)

\* What a page's failures have been added to, and then its books.
IsTelling(f, s, urls, len) ==
    f = [n \in 0..len |-> IF n = 0 THEN s ELSE AddFailure(f[n-1], urls[n])]

IsJoining(f, s, books, len) ==
    f = [n \in 0..len |-> IF n = 0 THEN s ELSE AddBook(f[n-1], books[n])]

LEMMA TellingExists ==
    ASSUME NEW s \in SoundStates, NEW urls, NEW len \in Nat, \A n \in 1..len : urls[n] \in URLs
    PROVE  \E f \in [0..len -> SoundStates] : IsTelling(f, s, urls, len)
<1> DEFINE step == [x \in SoundStates \X (1..len) |-> AddFailure(x[1], urls[x[2]])]
<1>1. \A t \in SoundStates, n \in 1..len : AddFailure(t, urls[n]) \in SoundStates
  <2> TAKE t \in SoundStates, n \in 1..len
  <2>1. Sound(t) /\ urls[n] \in URLs
    BY DEF SoundStates
  <2>2. Sound(AddFailure(t, urls[n]))
    BY <2>1, FailureAdded
  <2> QED
    BY <2>2 DEF SoundStates, Sound
<1>2. step \in [SoundStates \X (1..len) -> SoundStates]
  BY <1>1
<1>3. \A t \in SoundStates, n \in 1..len : step[<<t, n>>] = AddFailure(t, urls[n])
  OBVIOUS
<1> HIDE DEF step
<1>4. PICK f \in [0..len -> SoundStates] : IsTable(f, s, step, len)
  BY <1>2, TableExists
<1>5. \A n \in 0..len : f[n] = IF n = 0 THEN s ELSE AddFailure(f[n-1], urls[n])
  <2> TAKE n \in 0..len
  <2>1. CASE n = 0
    BY <1>4, <2>1 DEF IsTable
  <2>2. CASE n # 0
    <3>1. n \in 1..len /\ n - 1 \in 0..len
      BY <2>2
    <3>2. f[n-1] \in SoundStates /\ f[n] = step[<<f[n-1], n>>]
      BY <1>4, <3>1 DEF IsTable
    <3> QED
      BY <1>3, <2>2, <3>1, <3>2
  <2> QED
    BY <2>1, <2>2
<1>6. f = [n \in 0..len |-> f[n]]
  OBVIOUS
<1> QED
  BY <1>5, <1>6 DEF IsTelling

LEMMA JoiningExists ==
    ASSUME NEW s \in SoundStates, NEW books, NEW len \in Nat, \A n \in 1..len : books[n] \in Books
    PROVE  \E f \in [0..len -> SoundStates] : IsJoining(f, s, books, len)
<1> DEFINE step == [x \in SoundStates \X (1..len) |-> AddBook(x[1], books[x[2]])]
<1>1. \A t \in SoundStates, n \in 1..len : AddBook(t, books[n]) \in SoundStates
  <2> TAKE t \in SoundStates, n \in 1..len
  <2>1. Sound(t) /\ books[n] \in Books
    BY DEF SoundStates
  <2>2. Sound(AddBook(t, books[n]))
    BY <2>1, BookAdded
  <2> QED
    BY <2>2 DEF SoundStates, Sound
<1>2. step \in [SoundStates \X (1..len) -> SoundStates]
  BY <1>1
<1>3. \A t \in SoundStates, n \in 1..len : step[<<t, n>>] = AddBook(t, books[n])
  OBVIOUS
<1> HIDE DEF step
<1>4. PICK f \in [0..len -> SoundStates] : IsTable(f, s, step, len)
  BY <1>2, TableExists
<1>5. \A n \in 0..len : f[n] = IF n = 0 THEN s ELSE AddBook(f[n-1], books[n])
  <2> TAKE n \in 0..len
  <2>1. CASE n = 0
    BY <1>4, <2>1 DEF IsTable
  <2>2. CASE n # 0
    <3>1. n \in 1..len /\ n - 1 \in 0..len
      BY <2>2
    <3>2. f[n-1] \in SoundStates /\ f[n] = step[<<f[n-1], n>>]
      BY <1>4, <3>1 DEF IsTable
    <3> QED
      BY <1>3, <2>2, <3>1, <3>2
  <2> QED
    BY <2>1, <2>2
<1>6. f = [n \in 0..len |-> f[n]]
  OBVIOUS
<1> QED
  BY <1>5, <1>6 DEF IsJoining

\* The failures of a page join those so far, except for what has been parsed.
LEMMA FailuresJoin ==
    ASSUME NEW s, Sound(s), NEW result, Sound(result)
    PROVE  /\ Sound(WithFailures(s, result)) /\ WithFailures(s, result).books = s.books
           /\ WithFailures(s, result).failed = s.failed \cup (result.failed \ Seen(s))
<1>1. PICK urls \in Seq(URLs) : urls = FailedBuyURLs(result) /\ Enumerates(urls, result.failed)
  BY FailedListed
<1>2. PICK len \in Nat : len = Len(urls) /\ DOMAIN urls = 1..len
  BY LenProperties
<1>3. /\ \A n \in 1..len : urls[n] \in URLs
      /\ result.failed = { urls[n] : n \in 1..len }
  BY <1>1, <1>2 DEF Enumerates
<1>4. s \in SoundStates
  BY DEF Sound, SoundStates
<1> DEFINE f == CHOOSE g : IsTelling(g, s, urls, len)
<1>5. IsTelling(f, s, urls, len)
  BY <1>3, <1>4, TellingExists
<1>6. WithFailures(s, result) = f[len]
  BY <1>1, <1>2 DEF WithFailures, IsTelling
<1> HIDE DEF f
<1>7. f[0] = s /\ \A n \in 1..len : f[n] = AddFailure(f[n-1], urls[n])
  BY <1>5 DEF IsTelling
<1> DEFINE Told(n) == { urls[i] : i \in 1..n }
           Good == { n \in 0..len : /\ Sound(f[n]) /\ f[n].books = s.books
                                    /\ f[n].failed = s.failed \cup (Told(n) \ Seen(s)) }
<1>8. 0 \in Good
  <2>1. Told(0) = {}
    OBVIOUS
  <2> HIDE DEF Told
  <2> QED
    BY <1>7, <2>1
<1>9. ASSUME NEW n \in 1..len, n - 1 \in Good PROVE n \in Good
  <2>1. PICK k \in 0..len : k = n - 1
    BY <1>9
  <2>2. PICK a, b : a = f[k] /\ b = f[n]
    OBVIOUS
  <2>3. Sound(a) /\ a.books = s.books /\ a.failed = s.failed \cup (Told(k) \ Seen(s))
    BY <1>9, <2>1, <2>2
  <2>4. PICK url \in URLs : url = urls[n] /\ b = AddFailure(a, url)
    BY <1>3, <1>7, <2>1, <2>2
  <2>5. Sound(b) /\ b.books = a.books /\ b.failed = a.failed \cup ({url} \ Seen(a))
    BY <2>3, <2>4, FailureAdded
  <2>6. Seen(a) = Seen(s)
    BY <2>3 DEF Seen
  <2>7. /\ \A i \in 1..n : i \in 1..k \/ i = n
        /\ n \in 1..n /\ \A i \in 1..k : i \in 1..n
    BY <2>1
  <2>8. Told(n) = Told(k) \cup {url}
    BY <2>4, <2>7
  <2> HIDE DEF Told
  <2>9. b.books = s.books /\ b.failed = s.failed \cup (Told(n) \ Seen(s))
    BY <2>3, <2>5, <2>6, <2>8
  <2>10. n \in 0..len
    OBVIOUS
  <2> QED
    BY <2>2, <2>5, <2>9, <2>10
<1>10. len \in Good
  <2>1. len \in 0..len
    OBVIOUS
  <2> HIDE DEF Good
  <2> QED
    BY <1>8, <1>9, <2>1, UpTo
<1> QED
  BY <1>3, <1>6, <1>10

\* A page's books join those so far, behind them, unless an earlier page had
\* them; they are no failures any more.
LEMMA PageJoins ==
    ASSUME NEW s, Sound(s), NEW result, Sound(result), NEW p,
           \A i \in DOMAIN result.books : result.books[i].page = p
    PROVE  /\ Sound(WithPage(s, result)) /\ Continues(s, WithPage(s, result), p)
           /\ Seen(WithPage(s, result)) = Seen(s) \cup Seen(result)
           /\ WithPage(s, result).failed = (s.failed \cup (result.failed \ Seen(s))) \ Seen(result)
<1> DEFINE start == WithFailures(s, result)
<1>1. /\ Sound(start) /\ start.books = s.books
      /\ start.failed = s.failed \cup (result.failed \ Seen(s))
  BY FailuresJoin
<1>2. PICK len \in Nat, books \in Seq(Books) :
          books = result.books /\ len = Len(books) /\ DOMAIN books = 1..len
  BY StateFields DEF Sound
<1>3. \A n \in 1..len : books[n] \in Books /\ books[n].page = p
  BY <1>2, ElementOfSeq
<1>4. start \in SoundStates /\ s \in States /\ start \in States
  BY <1>1 DEF Sound, SoundStates
<1> DEFINE f == CHOOSE g : IsJoining(g, start, books, len)
<1>5. IsJoining(f, start, books, len)
  <2> HIDE DEF start
  <2> QED
    BY <1>3, <1>4, JoiningExists
<1>6. WithPage(s, result) = f[len]
  BY <1>2 DEF WithPage, IsJoining
<1> HIDE DEF f, start
<1>7. f[0] = start /\ \A n \in 1..len : f[n] = AddBook(f[n-1], books[n])
  BY <1>5 DEF IsJoining
<1> DEFINE Known(n) == { books[i].url : i \in 1..n }
           Good == { n \in 0..len : /\ Sound(f[n]) /\ Continues(s, f[n], p)
                                    /\ Seen(f[n]) = Seen(s) \cup Known(n)
                                    /\ f[n].failed = start.failed \ Known(n) }
<1>8. 0 \in Good
  <2>1. Known(0) = {}
    OBVIOUS
  <2>2. Continues(s, start, p) /\ Seen(start) = Seen(s)
    BY <1>1, <1>4, ContinuesItself
  <2> HIDE DEF Known
  <2> QED
    BY <1>1, <1>7, <2>1, <2>2
<1>9. ASSUME NEW n \in 1..len, n - 1 \in Good PROVE n \in Good
  <2>1. PICK k \in 0..len : k = n - 1
    BY <1>9
  <2>2. PICK a, b : a = f[k] /\ b = f[n]
    OBVIOUS
  <2>3. /\ Sound(a) /\ Continues(s, a, p) /\ Seen(a) = Seen(s) \cup Known(k)
        /\ a.failed = start.failed \ Known(k)
    BY <1>9, <2>1, <2>2
  <2>4. PICK book \in Books : book = books[n] /\ b = AddBook(a, book) /\ book.page = p
    BY <1>3, <1>7, <2>1, <2>2
  <2>5. /\ Sound(b) /\ Continues(a, b, p) /\ Seen(b) = Seen(a) \cup {book.url}
        /\ b.failed = a.failed \ {book.url}
    BY <2>3, <2>4, BookAdded
  <2>6. Continues(s, b, p)
    BY <1>4, <2>3, <2>5, ContinuesOn DEF Sound
  <2>7. /\ \A i \in 1..n : i \in 1..k \/ i = n
        /\ n \in 1..n /\ \A i \in 1..k : i \in 1..n
    BY <2>1
  <2>8. Known(n) = Known(k) \cup {book.url}
    BY <2>4, <2>7
  <2> HIDE DEF Known
  <2>9. Seen(b) = Seen(s) \cup Known(n) /\ b.failed = start.failed \ Known(n)
    BY <2>3, <2>5, <2>8
  <2>10. n \in 0..len
    OBVIOUS
  <2> QED
    BY <2>2, <2>5, <2>6, <2>9, <2>10
<1>10. len \in Good
  <2>1. len \in 0..len
    OBVIOUS
  <2> HIDE DEF Good
  <2> QED
    BY <1>8, <1>9, <2>1, UpTo
<1>11. Known(len) = Seen(result)
  <2>1. Seen(result) = { book.url : book \in { books[i] : i \in 1..len } }
    BY <1>2 DEF Seen, ToSet
  <2> QED
    BY <2>1
<1> HIDE DEF Known
<1> QED
  BY <1>1, <1>6, <1>10, <1>11

-----------------------------------------------------------------------------
(* What bodies make of the result                                          *)

Downloads == Seq([page : 1..Pages, body : Bodies])

\* The pages come in their order, each at most once.
InOrder(d) == \A i, j \in DOMAIN d : i < j => d[i].page < d[j].page

ReadableOf(d) == { i \in DOMAIN d : d[i].body # Unreadable }

HasWellFormed(d, i, url) == [url |-> url, parsed |-> TRUE] \in ToSet(d[i].body)

HasMalformed(d, i, url) == [url |-> url, parsed |-> FALSE] \in ToSet(d[i].body)

AcceptedOf(d) ==
    { i \in ReadableOf(d) : \/ \E l \in ToSet(d[i].body) : l.parsed
                            \/ \A l \in ToSet(d[i].body) : l.url # NoURL }

AcceptedTo(d, m) == { i \in AcceptedOf(d) : i <= m }

\* The bodies that are accepted, or not parsed yet.
NoErrorAt(d, m) == { i \in DOMAIN d : i > m \/ i \in AcceptedOf(d) }

\* The listings of the first m bodies.
ListingsJoined(d, s, m) ==
    /\ Sound(s)
    /\ Seen(s) = { url \in URLs : \E i \in AcceptedTo(d, m) : HasWellFormed(d, i, url) }
    /\ s.failed = { url \in URLs \ Seen(s) : \E i \in ReadableOf(d) : i <= m /\ HasMalformed(d, i, url) }

\* Their pages: those of the bodies that follow are later.
PagesJoined(d, s, m) ==
    /\ \A i, j \in DOMAIN s.books : i < j => s.books[i].page <= s.books[j].page
    /\ \A i \in DOMAIN s.books, k \in DOMAIN d : k > m => s.books[i].page < d[k].page
    /\ \A i \in DOMAIN s.books, k \in ReadableOf(d) :
          k <= m /\ HasWellFormed(d, k, s.books[i].url) => s.books[i].page <= d[k].page

LEMMA DownloadIs ==
    ASSUME NEW d \in Downloads
    PROVE  /\ Len(d) \in Nat /\ DOMAIN d = 1..Len(d)
           /\ \A i \in 1..Len(d) : d[i].page \in 1..Pages /\ d[i].body \in Bodies
<1>1. /\ Len(d) \in Nat /\ DOMAIN d = 1..Len(d)
      /\ \A i \in 1..Len(d) : d[i] \in [page : 1..Pages, body : Bodies]
  BY LenProperties, ElementOfSeq DEF Downloads
<1> QED
  BY <1>1

\* What shows a well-formed listing is accepted.
LEMMA WellFormedIsAccepted ==
    ASSUME NEW d, NEW i \in ReadableOf(d), NEW url, HasWellFormed(d, i, url)
    PROVE  i \in AcceptedOf(d)
<1>1. PICK l \in ToSet(d[i].body) : l = [url |-> url, parsed |-> TRUE]
  BY DEF HasWellFormed
<1>2. l.parsed
  BY <1>1
<1> QED
  BY <1>1, <1>2 DEF AcceptedOf

\* The body of a page with NoBooks has no listing that parses, and one without
\* a URL; any other readable body is accepted.
LEMMA AcceptedIs ==
    ASSUME NEW d \in Downloads, NEW k \in DOMAIN d, d[k].body # Unreadable,
           NEW p \in 1..Pages
    PROVE  /\ k \in ReadableOf(d)
           /\ k \in AcceptedOf(d) <=> ~NoBooks(d[k].body, p)
           /\ NoBooks(d[k].body, p) => Seen(Parsed(d[k].body, p)) = {}
<1>1. PICK body \in Bodies : body = d[k].body /\ body # Unreadable
  BY DownloadIs
<1>2. PICK len \in Nat : IsBody(body, len)
  BY <1>1, BodiesAre
<1>3. PICK r : r = Parsed(body, p)
  OBVIOUS
<1>4. Sound(r) /\ Seen(r) = { url \in URLs : \E n \in 1..len : Shows(body, n, url, TRUE) }
  <2>1. IsResult(Parsed(body, p), body, len, p)
    BY <1>2, ParsedIs, Zenon
  <2>2. IsResult(r, body, len, p)
    BY <1>3, <2>1, Zenon
  <2> QED
    BY <2>2, Zenon DEF IsResult
<1>5. r.books = <<>> <=> Seen(r) = {}
  <2>1. r.books \in Seq(Books) /\ Len(r.books) \in Nat /\ DOMAIN r.books = 1..Len(r.books)
    BY <1>4, StateFields DEF Sound
  <2>2. r.books # <<>> => Len(r.books) \in Nat \ {0}
    BY <2>1, EmptySeq
  <2>3. ASSUME r.books # <<>> PROVE Seen(r) # {}
    <3>1. 1 \in DOMAIN r.books
      BY <2>1, <2>2, <2>3
    <3> QED
      BY <3>1 DEF Seen, ToSet
  <2>4. ASSUME r.books = <<>> PROVE Seen(r) = {}
    <3>1. PICK none : none = <<>>
      OBVIOUS
    <3>2. none \in Seq(Books) /\ Len(none) = 0
      BY <3>1, EmptySeq
    <3>3. DOMAIN none = {}
      <4>1. DOMAIN none = 1..0
        BY <3>2, LenProperties
      <4> QED
        BY <4>1
    <3>4. r.books = none
      BY <2>4, <3>1, Zenon
    <3> QED
      BY <3>3, <3>4 DEF Seen, ToSet
  <2> QED
    BY <2>3, <2>4, Zenon
<1>6. Seen(r) = {} <=> \A n \in 1..len : ~body[n].parsed
  <2>1. \A n \in 1..len : body[n].parsed \in BOOLEAN /\ (body[n].parsed => body[n].url \in URLs)
    BY <1>2 DEF IsBody
  <2> QED
    BY <1>4, <2>1 DEF Shows
<1>7. Nameless(body) > 0 <=> \E n \in 1..len : body[n].url = NoURL
  <2> DEFINE some == { n \in 1..len : body[n].url = NoURL }
  <2>1. Nameless(body) = Cardinality(some)
    BY <1>2 DEF Nameless, IsBody
  <2>2. IsFiniteSet(1..len) /\ some \subseteq 1..len
    BY FS_Interval
  <2> HIDE DEF some
  <2>3. IsFiniteSet(some)
    BY <2>2, FS_Subset
  <2>4. Cardinality(some) \in Nat /\ (Cardinality(some) = 0 <=> some = {})
    BY <2>3, FS_CardinalityType, FS_EmptySet
  <2>5. Nameless(body) > 0 <=> some # {}
    BY <2>1, <2>4
  <2> QED
    BY <2>5 DEF some
<1>8. k \in ReadableOf(d)
  BY DEF ReadableOf
<1>9. ToSet(body) = { body[n] : n \in 1..len }
  BY <1>2 DEF ToSet, IsBody
<1>10. k \in AcceptedOf(d) <=> (\E n \in 1..len : body[n].parsed) \/ (\A n \in 1..len : body[n].url # NoURL)
  BY <1>1, <1>8, <1>9 DEF AcceptedOf
<1>11. NoBooks(body, p) <=> Seen(r) = {} /\ \E n \in 1..len : body[n].url = NoURL
  BY <1>3, <1>5, <1>7, Zenon DEF NoBooks
<1>12. k \in AcceptedOf(d) <=> ~NoBooks(body, p)
  BY <1>6, <1>10, <1>11, Zenon
<1> QED
  BY <1>1, <1>3, <1>8, <1>11, <1>12, Zenon

\* What is parsed of a body, in terms of what it shows.
LEMMA ResultIs ==
    ASSUME NEW d \in Downloads, NEW k \in DOMAIN d, d[k].body # Unreadable, NEW p \in 1..Pages
    PROVE  /\ Sound(Parsed(d[k].body, p))
           /\ \A i \in DOMAIN Parsed(d[k].body, p).books : Parsed(d[k].body, p).books[i].page = p
           /\ Seen(Parsed(d[k].body, p)) = { url \in URLs : HasWellFormed(d, k, url) }
           /\ Parsed(d[k].body, p).failed =
                 { url \in URLs \ Seen(Parsed(d[k].body, p)) : HasMalformed(d, k, url) }
<1>1. PICK body \in Bodies : body = d[k].body /\ body # Unreadable
  BY DownloadIs
<1>2. PICK len \in Nat : IsBody(body, len)
  BY <1>1, BodiesAre
<1>3. PICK r : r = Parsed(body, p)
  OBVIOUS
<1>4. /\ Sound(r) /\ \A i \in DOMAIN r.books : r.books[i].page = p
      /\ Seen(r) = { url \in URLs : \E n \in 1..len : Shows(body, n, url, TRUE) }
      /\ r.failed = { url \in URLs \ Seen(r) : \E n \in 1..len : Shows(body, n, url, FALSE) }
  <2>1. IsResult(Parsed(body, p), body, len, p)
    BY <1>2, ParsedIs, Zenon
  <2>2. IsResult(r, body, len, p)
    BY <1>3, <2>1, Zenon
  <2> QED
    BY <2>2, Zenon DEF IsResult
<1>5. \A url : HasWellFormed(d, k, url) <=> \E n \in 1..len : Shows(body, n, url, TRUE)
  BY <1>1, <1>2, ShownIs DEF HasWellFormed
<1>6. \A url : HasMalformed(d, k, url) <=> \E n \in 1..len : Shows(body, n, url, FALSE)
  BY <1>1, <1>2, ShownIs DEF HasMalformed
<1> QED
  BY <1>1, <1>3, <1>4, <1>5, <1>6

\* One body more is accepted, or not.
LEMMA AcceptedGrows ==
    ASSUME NEW d \in Downloads, NEW m \in Nat, NEW k \in DOMAIN d, k = m + 1
    PROVE  /\ AcceptedTo(d, k) = IF k \in AcceptedOf(d) THEN AcceptedTo(d, m) \cup {k} ELSE AcceptedTo(d, m)
           /\ k \notin AcceptedTo(d, m)
           /\ NoErrorAt(d, k) = IF k \in AcceptedOf(d) THEN NoErrorAt(d, m) ELSE NoErrorAt(d, m) \ {k}
<1>1. DOMAIN d \subseteq Nat /\ AcceptedOf(d) \subseteq DOMAIN d
  BY DownloadIs DEF AcceptedOf, ReadableOf
<1>2. \A i \in DOMAIN d : (i <= k <=> i <= m \/ i = k) /\ (i > m <=> i > k \/ i = k) /\ ~(k <= m)
  BY <1>1
<1>3. AcceptedTo(d, k) = IF k \in AcceptedOf(d) THEN AcceptedTo(d, m) \cup {k} ELSE AcceptedTo(d, m)
  BY <1>1, <1>2 DEF AcceptedTo
<1>4. k \notin AcceptedTo(d, m)
  BY <1>2 DEF AcceptedTo
<1>5. NoErrorAt(d, k) = IF k \in AcceptedOf(d) THEN NoErrorAt(d, m) ELSE NoErrorAt(d, m) \ {k}
  BY <1>1, <1>2 DEF NoErrorAt
<1> QED
  BY <1>3, <1>4, <1>5

\* A body that is rejected adds no book.
LEMMA PagesStay ==
    ASSUME NEW d \in Downloads, NEW m \in Nat, NEW k \in DOMAIN d, k = m + 1,
           NEW s \in States, NEW t, PagesJoined(d, s, m), t.books = s.books
    PROVE  PagesJoined(d, t, k)
<1>1. \A i \in DOMAIN d : i \in Nat /\ (i <= k <=> i <= m \/ i = k) /\ (i > k => i > m) /\ k > m
  BY DownloadIs
<1>2. ReadableOf(d) \subseteq DOMAIN d
  BY DEF ReadableOf
<1>3. \A i \in DOMAIN t.books, j \in DOMAIN t.books : i < j => t.books[i].page <= t.books[j].page
  BY DEF PagesJoined
<1>4. \A i \in DOMAIN t.books, l \in DOMAIN d : l > k => t.books[i].page < d[l].page
  BY <1>1 DEF PagesJoined
<1>5. ASSUME NEW i \in DOMAIN t.books, NEW l \in ReadableOf(d), l <= k, HasWellFormed(d, l, t.books[i].url)
      PROVE  t.books[i].page <= d[l].page
  <2>1. CASE l <= m
    BY <1>2, <1>5, <2>1 DEF PagesJoined
  <2>2. CASE l = k
    <3>1. t.books[i].page < d[k].page
      BY <1>1, <1>5 DEF PagesJoined
    <3>2. d[k].page \in Nat
      BY DownloadIs
    <3>3. s.books[i] \in Books
      <4>1. i \in 1..Len(s.books)
        BY StateFields
      <4> QED
        BY <4>1, StateFields
    <3>4. t.books[i].page \in Nat
      BY <3>3 DEF Books
    <3> QED
      BY <2>2, <3>1, <3>2, <3>4
  <2> QED
    BY <1>1, <1>2, <1>5, <2>1, <2>2
<1> QED
  BY <1>3, <1>4, <1>5 DEF PagesJoined

\* The books of an accepted one come behind those of earlier pages.
LEMMA PagesGrow ==
    ASSUME NEW d \in Downloads, InOrder(d), NEW m \in Nat, NEW k \in DOMAIN d, k = m + 1,
           NEW s, ListingsJoined(d, s, m), PagesJoined(d, s, m),
           NEW t, Sound(t), Continues(s, t, d[k].page)
    PROVE  PagesJoined(d, t, k)
<1>1. /\ \A i \in DOMAIN d : i \in Nat /\ d[i].page \in Nat
      /\ \A i \in DOMAIN d : (i <= k <=> i <= m \/ i = k) /\ (i > k => i > m) /\ k > m
  BY DownloadIs
<1>2. ReadableOf(d) \subseteq DOMAIN d
  BY DEF ReadableOf
<1>3. PICK a \in Nat, b \in Nat, p \in Nat : a = Len(s.books) /\ b = Len(t.books) /\ p = d[k].page
  BY <1>1, StateFields DEF ListingsJoined, Sound
<1>4. /\ DOMAIN s.books = 1..a /\ DOMAIN t.books = 1..b
      /\ \A i \in 1..a : s.books[i].page \in Nat
      /\ \A i \in 1..b : t.books[i].page \in Nat /\ t.books[i].url \in URLs
  BY <1>3, StateFields DEF ListingsJoined, Sound, Books
<1>5. /\ a <= b /\ \A i \in 1..a : t.books[i] = s.books[i]
      /\ \A i \in 1..b : i > a => t.books[i].page = p
  BY <1>3 DEF Continues
<1>6. \A i \in 1..a : s.books[i].page < p
  BY <1>1, <1>3, <1>4 DEF PagesJoined
<1>7. ASSUME NEW i \in 1..b, NEW j \in 1..b, i < j PROVE t.books[i].page <= t.books[j].page
  <2>1. CASE j <= a
    <3>1. i \in 1..a /\ j \in 1..a
      BY <1>7, <2>1
    <3>2. s.books[i].page <= s.books[j].page
      BY <1>4, <1>7, <3>1 DEF PagesJoined
    <3> QED
      BY <1>5, <3>1, <3>2
  <2>2. CASE j > a
    <3>1. t.books[j].page = p
      BY <1>5, <2>2
    <3>2. CASE i <= a
      <4>1. i \in 1..a
        BY <3>2
      <4> QED
        BY <1>4, <1>5, <1>6, <3>1, <4>1, SMTT(30)
    <3>3. CASE i > a
      BY <1>5, <3>1, <3>3
    <3> QED
      BY <3>2, <3>3
  <2> QED
    BY <2>1, <2>2
<1>8. ASSUME NEW i \in 1..b, NEW l \in DOMAIN d, l > k PROVE t.books[i].page < d[l].page
  <2>1. CASE i <= a
    <3>1. i \in 1..a /\ l > m
      BY <1>1, <1>8, <2>1
    <3>2. s.books[i].page < d[l].page
      BY <1>4, <3>1 DEF PagesJoined
    <3> QED
      BY <1>5, <3>1, <3>2
  <2>2. CASE i > a
    <3>1. d[k].page < d[l].page
      BY <1>1, <1>8 DEF InOrder
    <3> QED
      BY <1>3, <1>5, <2>2, <3>1
  <2> QED
    BY <2>1, <2>2
<1>9. ASSUME NEW i \in 1..b, NEW l \in ReadableOf(d), l <= k, HasWellFormed(d, l, t.books[i].url)
      PROVE  t.books[i].page <= d[l].page
  <2>1. CASE i <= a /\ l <= m
    <3>1. i \in 1..a
      BY <2>1
    <3>2. t.books[i] = s.books[i] /\ HasWellFormed(d, l, s.books[i].url)
      BY <1>5, <1>9, <3>1
    <3>3. s.books[i].page <= d[l].page
      BY <1>4, <2>1, <3>1, <3>2 DEF PagesJoined
    <3> QED
      BY <3>2, <3>3
  <2>2. CASE i > a /\ l <= m
    <3>1. t.books[i].url \in Seen(s)
      <4>1. l \in AcceptedTo(d, m)
        BY <1>9, <2>2, WellFormedIsAccepted DEF AcceptedTo
      <4> QED
        BY <1>4, <1>9, <4>1 DEF ListingsJoined
    <3>2. PICK j \in 1..a : s.books[j].url = t.books[i].url
      BY <1>3, <3>1, SeenIs DEF ListingsJoined, Sound
    <3>3. j \in 1..b /\ t.books[j].url = t.books[i].url /\ j # i
      BY <1>5, <2>2, <3>2
    <3> QED
      BY <1>4, <3>3 DEF Sound
  <2>3. CASE l = k
    <3>1. CASE i <= a
      <4>1. i \in 1..a
        BY <3>1
      <4> QED
        BY <1>3, <1>4, <1>5, <1>6, <2>3, <4>1
    <3>2. CASE i > a
      BY <1>3, <1>5, <2>3, <3>2
    <3> QED
      BY <3>1, <3>2
  <2> QED
    BY <1>1, <1>2, <1>9, <2>1, <2>2, <2>3
<1> QED
  BY <1>4, <1>7, <1>8, <1>9 DEF PagesJoined

\* A body that cannot be read joins nothing, and its page is an error.
LEMMA UnreadableJoins ==
    ASSUME NEW d \in Downloads, NEW m \in Nat, NEW k \in DOMAIN d, k = m + 1,
           NEW s, ListingsJoined(d, s, m), d[k].body = Unreadable
    PROVE  ListingsJoined(d, s, k) /\ k \notin AcceptedOf(d)
<1>1. k \notin ReadableOf(d) /\ k \notin AcceptedOf(d)
  BY DEF ReadableOf, AcceptedOf
<1>2. AcceptedTo(d, k) = AcceptedTo(d, m)
  BY <1>1, AcceptedGrows
<1>3. \A i \in ReadableOf(d) : i <= k <=> i <= m
  BY <1>1, DownloadIs DEF ReadableOf
<1>4. \A url : (\E i \in ReadableOf(d) : i <= k /\ HasMalformed(d, i, url))
                  <=> \E i \in ReadableOf(d) : i <= m /\ HasMalformed(d, i, url)
  BY <1>3
<1> QED
  BY <1>1, <1>2, <1>4 DEF ListingsJoined

\* The failures of a page without books join.
LEMMA NoBooksJoins ==
    ASSUME NEW d \in Downloads, NEW m \in Nat, NEW k \in DOMAIN d, k = m + 1,
           NEW s, ListingsJoined(d, s, m), d[k].body # Unreadable,
           NEW p \in 1..Pages, NoBooks(d[k].body, p)
    PROVE  /\ ListingsJoined(d, WithFailures(s, Parsed(d[k].body, p)), k) /\ k \notin AcceptedOf(d)
           /\ WithFailures(s, Parsed(d[k].body, p)).books = s.books
<1>1. PICK r : r = Parsed(d[k].body, p)
  OBVIOUS
<1>2. k \in ReadableOf(d) /\ k \notin AcceptedOf(d) /\ Seen(r) = {}
  BY <1>1, AcceptedIs
<1>3. Sound(r) /\ r.failed = { url \in URLs : HasMalformed(d, k, url) }
  BY <1>1, <1>2, ResultIs
<1>4. PICK t : t = WithFailures(s, r)
  OBVIOUS
<1>5. Sound(t) /\ t.books = s.books /\ t.failed = s.failed \cup (r.failed \ Seen(s))
  BY <1>3, <1>4, FailuresJoin DEF ListingsJoined
<1>6. Seen(t) = Seen(s)
  BY <1>5 DEF Seen
<1>7. AcceptedTo(d, k) = AcceptedTo(d, m)
  BY <1>2, AcceptedGrows
<1>8. \A i \in ReadableOf(d) : i <= k <=> i <= m \/ i = k
  BY DownloadIs DEF ReadableOf
<1>9. \A url : (\E i \in ReadableOf(d) : i <= k /\ HasMalformed(d, i, url))
                  <=> \/ \E i \in ReadableOf(d) : i <= m /\ HasMalformed(d, i, url)
                      \/ HasMalformed(d, k, url)
  BY <1>2, <1>8
<1>10. Seen(t) = { url \in URLs : \E i \in AcceptedTo(d, k) : HasWellFormed(d, i, url) }
  BY <1>6, <1>7 DEF ListingsJoined
<1>11. t.failed = { url \in URLs \ Seen(t) : \E i \in ReadableOf(d) : i <= k /\ HasMalformed(d, i, url) }
  BY <1>3, <1>5, <1>6, <1>9 DEF ListingsJoined
<1>12. ListingsJoined(d, t, k)
  BY <1>5, <1>10, <1>11 DEF ListingsJoined
<1> QED
  BY <1>1, <1>2, <1>4, <1>5, <1>12

\* An accepted page joins with its failures and its books.
LEMMA AcceptedJoins ==
    ASSUME NEW d \in Downloads, NEW m \in Nat, NEW k \in DOMAIN d, k = m + 1,
           NEW s, ListingsJoined(d, s, m), d[k].body # Unreadable,
           NEW p \in 1..Pages, ~NoBooks(d[k].body, p)
    PROVE  /\ ListingsJoined(d, WithPage(s, Parsed(d[k].body, p)), k) /\ k \in AcceptedOf(d)
           /\ Continues(s, WithPage(s, Parsed(d[k].body, p)), p)
<1>1. PICK r : r = Parsed(d[k].body, p)
  OBVIOUS
<1>2. k \in ReadableOf(d) /\ k \in AcceptedOf(d)
  BY AcceptedIs
<1>3. /\ Sound(r) /\ \A i \in DOMAIN r.books : r.books[i].page = p
      /\ Seen(r) = { url \in URLs : HasWellFormed(d, k, url) }
      /\ r.failed = { url \in URLs \ Seen(r) : HasMalformed(d, k, url) }
  BY <1>1, ResultIs
<1>4. PICK t : t = WithPage(s, r)
  OBVIOUS
<1>5. /\ Sound(t) /\ Continues(s, t, p) /\ Seen(t) = Seen(s) \cup Seen(r)
      /\ t.failed = (s.failed \cup (r.failed \ Seen(s))) \ Seen(r)
  BY <1>3, <1>4, PageJoins DEF ListingsJoined
<1>6. AcceptedTo(d, k) = AcceptedTo(d, m) \cup {k}
  BY <1>2, AcceptedGrows
<1>7. \A i \in ReadableOf(d) : i <= k <=> i <= m \/ i = k
  BY DownloadIs DEF ReadableOf
<1>8. \A url : (\E i \in ReadableOf(d) : i <= k /\ HasMalformed(d, i, url))
                  <=> \/ \E i \in ReadableOf(d) : i <= m /\ HasMalformed(d, i, url)
                      \/ HasMalformed(d, k, url)
  BY <1>2, <1>7
<1>9. Seen(t) = { url \in URLs : \E i \in AcceptedTo(d, k) : HasWellFormed(d, i, url) }
  BY <1>3, <1>5, <1>6 DEF ListingsJoined
<1>10. t.failed = { url \in URLs \ Seen(t) : \E i \in ReadableOf(d) : i <= k /\ HasMalformed(d, i, url) }
  BY <1>3, <1>5, <1>8 DEF ListingsJoined
<1>11. ListingsJoined(d, t, k)
  BY <1>5, <1>9, <1>10 DEF ListingsJoined
<1> QED
  BY <1>1, <1>2, <1>4, <1>5, <1>11

-----------------------------------------------------------------------------
(* The inductive invariant                                                 *)

Downloading == pc \in {"attempting", "retrying", "delaying"}

Joining == pc \in {"parsing", "reading", "returned", "failed"}

\* The last page that has been downloaded or given up.
Done == IF pc = "delaying" THEN page ELSE page - 1

\* While pages are downloaded, the others up to this one are the errors.
DownloadsAre ==
    Downloading =>
        /\ Len(downloaded) <= Done /\ Done < Pages
        /\ \A i \in DOMAIN downloaded : downloaded[i].page <= Done
        /\ pageErrors = (1..Done) \ { downloaded[i].page : i \in DOMAIN downloaded }
        /\ state = EmptyState /\ parsedPages = 0

\* While they are parsed, the result is that of the bodies before this one, and
\* the errors are the pages of all others but those still to come.
JoinedIs ==
    Joining =>
        /\ Len(downloaded) <= Pages /\ page <= Len(downloaded) + 1
        /\ pc = "reading" => page <= Len(downloaded)
        /\ pc \in {"returned", "failed"} => page = Len(downloaded) + 1
        /\ pc = "failed" => parsedPages = 0
        /\ ListingsJoined(downloaded, state, page - 1)
        /\ PagesJoined(downloaded, state, page - 1)
        /\ pageErrors = (1..Pages) \ { downloaded[i].page : i \in NoErrorAt(downloaded, page - 1) }
        /\ parsedPages = Cardinality(AcceptedTo(downloaded, page - 1))

AttemptsBounded == attempt <= MaxRetries + 1 /\ (pc = "retrying" => attempt <= MaxRetries)

IInv == TypeOK /\ AttemptsBounded /\ InOrder(downloaded) /\ DownloadsAre /\ JoinedIs

-----------------------------------------------------------------------------
(* The steps                                                               *)

\* Before the first body nothing is joined.
LEMMA NothingJoined ==
    ASSUME NEW d \in Downloads
    PROVE  /\ ListingsJoined(d, EmptyState, 0) /\ PagesJoined(d, EmptyState, 0)
           /\ NoErrorAt(d, 0) = DOMAIN d /\ Cardinality(AcceptedTo(d, 0)) = 0
<1>1. \A i \in DOMAIN d : i > 0 /\ ~(i <= 0)
  BY DownloadIs
<1>2. ReadableOf(d) \subseteq DOMAIN d /\ AcceptedOf(d) \subseteq DOMAIN d
  BY DEF ReadableOf, AcceptedOf
<1>3. AcceptedTo(d, 0) = {} /\ NoErrorAt(d, 0) = DOMAIN d
  BY <1>1, <1>2 DEF AcceptedTo, NoErrorAt
<1>4. Cardinality(AcceptedTo(d, 0)) = 0
  BY <1>3, FS_EmptySet
<1>5. PICK s : s = EmptyState
  OBVIOUS
<1>6. Sound(s) /\ Seen(s) = {} /\ s.failed = {}
  BY <1>5, NothingYet DEF SoundStates
<1>7. ListingsJoined(d, s, 0)
  BY <1>1, <1>2, <1>3, <1>6 DEF ListingsJoined
<1>8. DOMAIN s.books = {}
  BY <1>6 DEF Seen, ToSet
<1>9. PagesJoined(d, s, 0)
  BY <1>8 DEF PagesJoined
<1> QED
  BY <1>3, <1>4, <1>5, <1>7, <1>9

LEMMA InitStep == Init => IInv
<1> SUFFICES ASSUME Init PROVE IInv
  OBVIOUS
<1> USE DEF Init
<1>1. PICK d : d = <<>>
  OBVIOUS
<1>2. d \in Downloads /\ Len(d) = 0 /\ downloaded = d
  BY <1>1, EmptySeq, Zenon DEF Downloads
<1>3. DOMAIN d = {}
  BY <1>2, DownloadIs
<1>4. Pages \in Nat /\ Pages >= 1 /\ MaxRetries \in Nat
  BY FetchAssumption
<1>5. state \in States
  BY NothingYet DEF SoundStates
<1>6. TypeOK
  <2>1. page \in 1..Pages + 1 /\ attempt \in Nat /\ parsedPages \in 0..Pages /\ unidentified \in Nat
    BY <1>4
  <2>2. pageErrors \subseteq 1..Pages
    OBVIOUS
  <2>3. downloaded \in Downloads
    BY <1>2
  <2> QED
    BY <1>5, <2>1, <2>2, <2>3 DEF TypeOK, States, Downloads
<1>7. AttemptsBounded
  BY <1>4 DEF AttemptsBounded
<1>8. InOrder(downloaded)
  BY <1>2, <1>3 DEF InOrder
<1>9. DownloadsAre
  <2>1. Done = 0
    BY DEF Done
  <2> QED
    BY <1>2, <1>3, <1>4, <2>1 DEF DownloadsAre
<1>10. JoinedIs
  BY DEF JoinedIs, Joining
<1> QED
  BY <1>6, <1>7, <1>8, <1>9, <1>10 DEF IInv

\* A page is done with.
LEMMA NextPageStep ==
    ASSUME TypeOK, AttemptsBounded, pc = "attempting", page <= Pages,
           state = EmptyState, parsedPages = 0,
           NextPage, UNCHANGED <<delayed, cancelled, joined>>,
           downloaded' \in Downloads, InOrder(downloaded'), Len(downloaded') <= page,
           \A i \in DOMAIN downloaded' : downloaded'[i].page <= page,
           pageErrors' = (1..page) \ { downloaded'[i].page : i \in DOMAIN downloaded' }
    PROVE  IInv'
<1>1. PICK d : d = downloaded'
  OBVIOUS
<1>2. /\ d \in Downloads /\ InOrder(d) /\ Len(d) <= page /\ Len(d) \in Nat /\ DOMAIN d = 1..Len(d)
      /\ \A i \in DOMAIN d : d[i].page <= page
      /\ pageErrors' = (1..page) \ { d[i].page : i \in DOMAIN d }
  BY <1>1, DownloadIs
<1>3. Pages \in Nat /\ MaxRetries \in Nat /\ page \in Nat /\ page >= 1 /\ attempt \in Nat
  BY FetchAssumption DEF TypeOK
<1>4. /\ delayed' = delayed /\ cancelled' = cancelled
      /\ state' = EmptyState /\ parsedPages' = 0 /\ unidentified' = unidentified
  BY DEF joined
<1>5. state' \in States /\ parsedPages' \in 0..Pages
  BY <1>3, <1>4, NothingYet DEF SoundStates
<1>6. pageErrors' \subseteq 1..Pages
  BY <1>2, <1>3
<1>7. /\ delayed' \in BOOLEAN /\ cancelled' \in BOOLEAN /\ unidentified' \in Nat
  BY <1>4 DEF TypeOK
<1>8. CASE page = Pages
  <2>1. pc' = "parsing" /\ page' = 1 /\ attempt' = attempt
    BY <1>8 DEF NextPage
  <2>2. TypeOK'
    BY <1>1, <1>2, <1>3, <1>5, <1>6, <1>7, <2>1 DEF TypeOK, States, Downloads
  <2>3. AttemptsBounded'
    BY <2>1 DEF AttemptsBounded
  <2>4. DownloadsAre'
    BY <2>1 DEF DownloadsAre, Downloading
  <2>5. JoinedIs'
    <3>1. page' - 1 = 0 /\ page' <= Len(d) + 1
      BY <1>2, <2>1
    <3>2. /\ ListingsJoined(d, EmptyState, 0) /\ PagesJoined(d, EmptyState, 0)
          /\ NoErrorAt(d, 0) = DOMAIN d /\ Cardinality(AcceptedTo(d, 0)) = 0
      BY <1>2, NothingJoined
    <3>3. /\ ListingsJoined(d, state', page' - 1) /\ PagesJoined(d, state', page' - 1)
          /\ pageErrors' = (1..Pages) \ { d[i].page : i \in NoErrorAt(d, page' - 1) }
          /\ parsedPages' = Cardinality(AcceptedTo(d, page' - 1))
      BY <1>2, <1>4, <1>8, <3>1, <3>2
    <3>4. Len(d) <= Pages
      BY <1>2, <1>8
    <3> QED
      BY <1>1, <2>1, <3>1, <3>3, <3>4 DEF JoinedIs
  <2> QED
    BY <1>1, <1>2, <2>2, <2>3, <2>4, <2>5 DEF IInv
<1>9. CASE page # Pages /\ delayed
  <2>1. pc' = "delaying" /\ page' = page /\ attempt' = attempt
    BY <1>9 DEF NextPage
  <2>2. TypeOK'
    BY <1>1, <1>2, <1>3, <1>5, <1>6, <1>7, <2>1 DEF TypeOK, States, Downloads
  <2>3. AttemptsBounded'
    BY <2>1 DEF AttemptsBounded
  <2>4. DownloadsAre'
    <3>1. Done' = page /\ page < Pages
      BY <1>3, <1>9, <2>1 DEF Done
    <3> QED
      BY <1>1, <1>2, <1>4, <3>1 DEF DownloadsAre
  <2>5. JoinedIs'
    BY <2>1 DEF JoinedIs, Joining
  <2> QED
    BY <1>1, <1>2, <2>2, <2>3, <2>4, <2>5 DEF IInv
<1>10. CASE page # Pages /\ ~delayed
  <2>1. pc' \in {"cancelled", "attempting"} /\ page' = page + 1 /\ attempt' = 1
    BY <1>10 DEF NextPage, Attempt
  <2>2. TypeOK'
    <3>1. page' \in 1..Pages + 1 /\ attempt' \in Nat
      BY <1>3, <2>1
    <3> QED
      BY <1>1, <1>2, <1>5, <1>6, <1>7, <2>1, <3>1 DEF TypeOK, States, Downloads
  <2>3. AttemptsBounded'
    BY <1>3, <2>1 DEF AttemptsBounded
  <2>4. DownloadsAre'
    <3>1. Done' = page /\ page < Pages
      BY <1>3, <1>10, <2>1 DEF Done
    <3> QED
      BY <1>1, <1>2, <1>4, <3>1 DEF DownloadsAre
  <2>5. JoinedIs'
    BY <2>1 DEF JoinedIs, Joining
  <2> QED
    BY <1>1, <1>2, <2>2, <2>3, <2>4, <2>5 DEF IInv
<1> QED
  BY <1>8, <1>9, <1>10

\* What is known while a page is attempted.
LEMMA Attempting ==
    ASSUME IInv, pc = "attempting"
    PROVE  /\ page \in Nat /\ 1 <= page /\ page <= Pages /\ Pages \in Nat /\ MaxRetries \in Nat
           /\ downloaded \in Downloads /\ InOrder(downloaded) /\ Len(downloaded) <= page - 1
           /\ Len(downloaded) \in Nat /\ DOMAIN downloaded = 1..Len(downloaded)
           /\ \A i \in DOMAIN downloaded : downloaded[i].page <= page - 1 /\ downloaded[i].page \in Nat
           /\ pageErrors = (1..page - 1) \ { downloaded[i].page : i \in DOMAIN downloaded }
           /\ state = EmptyState /\ parsedPages = 0
<1>1. /\ page \in 1..Pages + 1 /\ Pages \in Nat /\ MaxRetries \in Nat
      /\ downloaded \in Downloads /\ InOrder(downloaded)
  BY FetchAssumption DEF IInv, TypeOK, Downloads
<1>2. Done = page - 1
  BY DEF Done
<1>3. /\ Len(downloaded) <= Done /\ Done < Pages
      /\ \A i \in DOMAIN downloaded : downloaded[i].page <= Done
      /\ pageErrors = (1..Done) \ { downloaded[i].page : i \in DOMAIN downloaded }
      /\ state = EmptyState /\ parsedPages = 0
  BY DEF IInv, DownloadsAre, Downloading
<1>4. /\ Len(downloaded) \in Nat /\ DOMAIN downloaded = 1..Len(downloaded)
      /\ \A i \in 1..Len(downloaded) : downloaded[i].page \in Nat
  BY <1>1, DownloadIs
<1> QED
  BY <1>1, <1>2, <1>3, <1>4

LEMMA AttemptSucceedsStep == ASSUME IInv, AttemptSucceeds PROVE IInv'
<1>1. pc = "attempting" /\ NextPage /\ UNCHANGED <<delayed, cancelled, pageErrors, joined>>
  BY DEF AttemptSucceeds
<1>2. PICK body \in Bodies : downloaded' = Append(downloaded, [page |-> page, body |-> body])
  BY DEF AttemptSucceeds
<1>3. /\ page \in Nat /\ 1 <= page /\ page <= Pages /\ Pages \in Nat
      /\ downloaded \in Downloads /\ InOrder(downloaded) /\ Len(downloaded) <= page - 1
      /\ Len(downloaded) \in Nat /\ DOMAIN downloaded = 1..Len(downloaded)
      /\ \A i \in DOMAIN downloaded : downloaded[i].page <= page - 1 /\ downloaded[i].page \in Nat
      /\ pageErrors = (1..page - 1) \ { downloaded[i].page : i \in DOMAIN downloaded }
      /\ state = EmptyState /\ parsedPages = 0
  BY <1>1, Attempting
<1>4. PICK entry \in [page : 1..Pages, body : Bodies] :
          entry = [page |-> page, body |-> body] /\ entry.page = page
  <2>1. page \in 1..Pages
    BY <1>3
  <2> DEFINE e == [page |-> page, body |-> body]
  <2>2. e \in [page : 1..Pages, body : Bodies] /\ e.page = page
    BY <2>1
  <2> QED
    BY <2>2, Zenon
<1>5. PICK len \in Nat, d \in Downloads : d = downloaded' /\ IsLonger(d, downloaded, entry, len)
  <2>1. downloaded \in Seq([page : 1..Pages, body : Bodies])
    BY <1>3 DEF Downloads
  <2>2. PICK len \in Nat, d \in Seq([page : 1..Pages, body : Bodies]) :
            d = Append(downloaded, entry) /\ IsLonger(d, downloaded, entry, len)
    BY <2>1, Appended, Zenon
  <2>3. d = downloaded' /\ d \in Downloads
    BY <1>2, <1>4, <2>2, Zenon DEF Downloads
  <2> QED
    BY <2>2, <2>3
<1>6. /\ len = Len(downloaded) /\ DOMAIN downloaded = 1..len
      /\ Len(d) = len + 1 /\ DOMAIN d = 1..len + 1
      /\ \A i \in 1..len : d[i] = downloaded[i]
      /\ d[len + 1] = entry
  BY <1>5 DEF IsLonger
<1>7. PICK k \in Nat : k = len + 1 /\ d[k].page = page /\ k \in DOMAIN d /\ k <= page
  BY <1>3, <1>4, <1>6
<1>8. DOMAIN d = DOMAIN downloaded \cup {k} /\ \A i \in DOMAIN downloaded : i < k /\ i \in Nat
  BY <1>6, <1>7
<1>9. \A i \in DOMAIN downloaded : d[i].page = downloaded[i].page /\ d[i].page < page /\ d[i].page \in Nat
  BY <1>3, <1>6
<1>10. InOrder(d)
  <2> SUFFICES ASSUME NEW i \in DOMAIN d, NEW j \in DOMAIN d, i < j PROVE d[i].page < d[j].page
    BY DEF InOrder
  <2>1. i \in DOMAIN downloaded
    BY <1>6, <1>7, <1>8
  <2>2. CASE j = k
    BY <1>7, <1>9, <2>1, <2>2
  <2>3. CASE j \in DOMAIN downloaded
    BY <1>3, <1>9, <2>1, <2>3 DEF InOrder
  <2> QED
    BY <1>8, <2>2, <2>3
<1>11. Len(d) <= page /\ \A i \in DOMAIN d : d[i].page <= page
  BY <1>3, <1>6, <1>7, <1>8, <1>9
<1>12. pageErrors' = (1..page) \ { d[i].page : i \in DOMAIN d }
  <2>1. { d[i].page : i \in DOMAIN d } = { downloaded[i].page : i \in DOMAIN downloaded } \cup {page}
    BY <1>7, <1>8, <1>9
  <2>2. 1..page = (1..page - 1) \cup {page} /\ page \notin 1..page - 1
    BY <1>3
  <2> QED
    BY <1>1, <1>3, <2>1, <2>2
<1>13. TypeOK /\ AttemptsBounded
  BY DEF IInv
<1>14. UNCHANGED <<delayed, cancelled, joined>>
  BY <1>1
<1> QED
  BY <1>1, <1>3, <1>5, <1>10, <1>11, <1>12, <1>13, <1>14, NextPageStep

LEMMA AttemptFailsStep == ASSUME IInv, AttemptFails PROVE IInv'
<1>1. pc = "attempting" /\ UNCHANGED <<delayed, cancelled, downloaded, joined>>
  BY DEF AttemptFails
<1>2. /\ page \in Nat /\ 1 <= page /\ page <= Pages /\ Pages \in Nat
      /\ downloaded \in Downloads /\ InOrder(downloaded) /\ Len(downloaded) <= page - 1
      /\ Len(downloaded) \in Nat /\ DOMAIN downloaded = 1..Len(downloaded)
      /\ \A i \in DOMAIN downloaded : downloaded[i].page <= page - 1 /\ downloaded[i].page \in Nat
      /\ pageErrors = (1..page - 1) \ { downloaded[i].page : i \in DOMAIN downloaded }
      /\ state = EmptyState /\ parsedPages = 0
  BY <1>1, Attempting
<1>3. TypeOK /\ AttemptsBounded
  BY DEF IInv
<1>4. CASE attempt <= MaxRetries
  <2>1. pc' = "retrying" /\ UNCHANGED <<page, attempt, pageErrors>>
    BY <1>4 DEF AttemptFails
  <2>2. TypeOK'
    BY <1>1, <1>3, <2>1 DEF TypeOK, joined
  <2>3. AttemptsBounded'
    BY <1>3, <1>4, <2>1 DEF AttemptsBounded
  <2>4. DownloadsAre'
    <3>1. Done' = page - 1 /\ Done' < Pages
      BY <1>2, <2>1 DEF Done
    <3>2. state' = EmptyState /\ parsedPages' = 0 /\ downloaded' = downloaded /\ pageErrors' = pageErrors
      BY <1>1, <1>2, <2>1 DEF joined
    <3> QED
      BY <1>2, <3>1, <3>2 DEF DownloadsAre
  <2>5. JoinedIs'
    BY <2>1 DEF JoinedIs, Joining
  <2> QED
    BY <1>1, <1>2, <2>2, <2>3, <2>4, <2>5 DEF IInv
<1>5. CASE ~(attempt <= MaxRetries)
  <2>1. pageErrors' = pageErrors \cup {page} /\ NextPage
    BY <1>5 DEF AttemptFails
  <2>2. pageErrors' = (1..page) \ { downloaded[i].page : i \in DOMAIN downloaded }
    <3>1. 1..page = (1..page - 1) \cup {page}
      BY <1>2
    <3>2. page \notin { downloaded[i].page : i \in DOMAIN downloaded }
      BY <1>2
    <3> QED
      BY <1>2, <2>1, <3>1, <3>2
  <2>3. downloaded' = downloaded /\ UNCHANGED <<delayed, cancelled, joined>>
    BY <1>1
  <2>4. Len(downloaded) <= page /\ \A i \in DOMAIN downloaded : downloaded[i].page <= page
    BY <1>2
  <2> QED
    BY <1>1, <1>2, <1>3, <2>1, <2>2, <2>3, <2>4, NextPageStep
<1> QED
  BY <1>4, <1>5

\* The fetch is cancelled, or its context is, while the rest stays as it is.
LEMMA CancelStep ==
    ASSUME IInv, cancelled' \in BOOLEAN, pc' \in {pc, "cancelled"},
           UNCHANGED <<delayed, download, pageErrors, joined>>
    PROVE  IInv'
<1>1. /\ delayed' = delayed /\ page' = page /\ attempt' = attempt /\ downloaded' = downloaded
      /\ pageErrors' = pageErrors /\ parsedPages' = parsedPages /\ state' = state
      /\ unidentified' = unidentified
  BY DEF download, joined
<1>2. TypeOK'
  BY <1>1 DEF IInv, TypeOK
<1>3. AttemptsBounded'
  BY <1>1 DEF IInv, AttemptsBounded
<1>4. InOrder(downloaded')
  BY <1>1 DEF IInv
<1>5. CASE pc' = "cancelled"
  <2>1. DownloadsAre' /\ JoinedIs'
    BY <1>5 DEF DownloadsAre, Downloading, JoinedIs, Joining
  <2> QED
    BY <1>2, <1>3, <1>4, <2>1 DEF IInv
<1>6. CASE pc' = pc
  <2>1. Done' = Done
    BY <1>1, <1>6 DEF Done
  <2>2. DownloadsAre'
    BY <1>1, <1>6, <2>1 DEF IInv, DownloadsAre, Downloading
  <2>3. JoinedIs'
    BY <1>1, <1>6 DEF IInv, JoinedIs, Joining
  <2> QED
    BY <1>2, <1>3, <1>4, <2>2, <2>3 DEF IInv
<1> QED
  BY <1>5, <1>6

\* A page is attempted once more, or the next one for the first time.
LEMMA RetryStep == ASSUME IInv, RetryWaitOver PROVE IInv'
<1>1. /\ pc = "retrying" /\ page' = page /\ attempt' = attempt + 1
      /\ pc' \in {"cancelled", "attempting"}
      /\ UNCHANGED <<delayed, cancelled, downloaded, pageErrors, joined>>
  BY DEF RetryWaitOver, Attempt
<1>2. attempt \in Nat /\ attempt <= MaxRetries /\ MaxRetries \in Nat
  BY <1>1, FetchAssumption DEF IInv, TypeOK, AttemptsBounded
<1>3. TypeOK'
  BY <1>1, <1>2 DEF IInv, TypeOK, joined
<1>4. AttemptsBounded'
  BY <1>1, <1>2 DEF AttemptsBounded
<1>5. InOrder(downloaded')
  BY <1>1 DEF IInv
<1>6. DownloadsAre'
  <2>1. Done' = Done
    BY <1>1 DEF Done
  <2> QED
    BY <1>1, <2>1 DEF IInv, DownloadsAre, Downloading, joined
<1>7. JoinedIs'
  BY <1>1 DEF JoinedIs, Joining
<1> QED
  BY <1>3, <1>4, <1>5, <1>6, <1>7 DEF IInv

LEMMA DelayStep == ASSUME IInv, DelayOver PROVE IInv'
<1>1. /\ pc = "delaying" /\ page' = page + 1 /\ attempt' = 1
      /\ pc' \in {"cancelled", "attempting"}
      /\ UNCHANGED <<delayed, cancelled, downloaded, pageErrors, joined>>
  BY DEF DelayOver, Attempt
<1>2. page \in Nat /\ page >= 1 /\ page < Pages /\ Pages \in Nat /\ MaxRetries \in Nat /\ Done = page
  BY <1>1, FetchAssumption DEF IInv, TypeOK, DownloadsAre, Downloading, Done
<1>3. TypeOK'
  <2>1. page' \in 1..Pages + 1 /\ attempt' \in Nat
    BY <1>1, <1>2
  <2> QED
    BY <1>1, <2>1 DEF IInv, TypeOK, joined
<1>4. AttemptsBounded'
  BY <1>1, <1>2 DEF AttemptsBounded
<1>5. InOrder(downloaded')
  BY <1>1 DEF IInv
<1>6. DownloadsAre'
  <2>1. Done' = Done
    BY <1>1, <1>2 DEF Done
  <2> QED
    BY <1>1, <2>1 DEF IInv, DownloadsAre, Downloading, joined
<1>7. JoinedIs'
  BY <1>1 DEF JoinedIs, Joining
<1> QED
  BY <1>3, <1>4, <1>5, <1>6, <1>7 DEF IInv

\* The next body is parsed, or there is none and the fetch is over.
LEMMA BeginStep ==
    ASSUME IInv, BeginPage \/ Return
    PROVE  IInv'
<1>1. CASE pc' = "cancelled"
  <2>1. ReturnCancelled
    BY <1>1 DEF BeginPage, Return
  <2>2. cancelled' \in BOOLEAN
    BY <2>1 DEF ReturnCancelled, IInv, TypeOK
  <2> QED
    BY <1>1, <2>1, <2>2, CancelStep DEF ReturnCancelled
<1>2. CASE pc' # "cancelled"
  <2>1. /\ pc = "parsing" /\ pc' \in {"reading", "returned", "failed"}
        /\ pc' = "reading" => ~AllParsed
        /\ pc' \in {"returned", "failed"} => AllParsed
        /\ pc' = "failed" => parsedPages = 0
        /\ delayed' = delayed /\ cancelled' = cancelled /\ pageErrors' = pageErrors
        /\ page' = page /\ attempt' = attempt /\ downloaded' = downloaded
        /\ parsedPages' = parsedPages /\ state' = state /\ unidentified' = unidentified
    BY <1>2 DEF BeginPage, Return, ReturnCancelled, download, joined
  <2>2. TypeOK'
    BY <2>1 DEF IInv, TypeOK
  <2>3. AttemptsBounded'
    BY <2>1 DEF IInv, AttemptsBounded
  <2>4. InOrder(downloaded')
    BY <2>1 DEF IInv
  <2>5. DownloadsAre'
    BY <2>1 DEF DownloadsAre, Downloading
  <2>6. JoinedIs'
    <3>1. downloaded \in Downloads /\ page \in Nat
      BY FetchAssumption DEF IInv, TypeOK, Downloads
    <3>2. PICK len \in Nat : len = Len(downloaded)
      BY <3>1, DownloadIs
    <3>3. /\ len <= Pages /\ page <= len + 1
          /\ ListingsJoined(downloaded, state, page - 1)
          /\ PagesJoined(downloaded, state, page - 1)
          /\ pageErrors = (1..Pages) \ { downloaded[i].page : i \in NoErrorAt(downloaded, page - 1) }
          /\ parsedPages = Cardinality(AcceptedTo(downloaded, page - 1))
      BY <2>1, <3>2 DEF IInv, JoinedIs, Joining
    <3>4. /\ pc' = "reading" => page <= len
          /\ pc' \in {"returned", "failed"} => page = len + 1
      BY <2>1, <3>1, <3>2, <3>3 DEF AllParsed
    <3> QED
      BY <2>1, <3>2, <3>3, <3>4 DEF JoinedIs
  <2> QED
    BY <2>2, <2>3, <2>4, <2>5, <2>6 DEF IInv
<1> QED
  BY <1>1, <1>2

\* The errors, and the number of accepted bodies, are those of the first m.
Counted(d, m, errors, count) ==
    /\ errors = (1..Pages) \ { d[i].page : i \in NoErrorAt(d, m) }
    /\ count = Cardinality(AcceptedTo(d, m)) /\ count \in 0..Pages

\* One body more is counted.
LEMMA CountsGrow ==
    ASSUME NEW d \in Downloads, InOrder(d), NEW m \in Nat, NEW k \in DOMAIN d, k = m + 1,
           NEW errors, NEW count, Counted(d, m, errors, count), Len(d) <= Pages
    PROVE  /\ k \notin AcceptedOf(d) => Counted(d, k, errors \cup {d[k].page}, count)
           /\ k \in AcceptedOf(d) => Counted(d, k, errors, count + 1)
<1>1. /\ AcceptedTo(d, k) = IF k \in AcceptedOf(d) THEN AcceptedTo(d, m) \cup {k} ELSE AcceptedTo(d, m)
      /\ k \notin AcceptedTo(d, m)
      /\ NoErrorAt(d, k) = IF k \in AcceptedOf(d) THEN NoErrorAt(d, m) ELSE NoErrorAt(d, m) \ {k}
  BY AcceptedGrows
<1>2. PICK len \in Nat : len = Len(d) /\ DOMAIN d = 1..len /\ \A i \in 1..len : d[i].page \in 1..Pages
  BY DownloadIs
<1>3. Pages \in Nat
  BY FetchAssumption
<1>4. IsFiniteSet(1..len) /\ Cardinality(1..len) = len
  <2>1. 1 \in Int /\ len \in Int
    OBVIOUS
  <2>2. IsFiniteSet(1..len) /\ Cardinality(1..len) = IF 1 > len THEN 0 ELSE len-1+1
    BY <2>1, FS_Interval, Zenon
  <2> QED
    BY <2>2
<1>5. \A n : /\ IsFiniteSet(AcceptedTo(d, n)) /\ Cardinality(AcceptedTo(d, n)) \in Nat
             /\ Cardinality(AcceptedTo(d, n)) <= len
  <2> TAKE n
  <2>1. AcceptedTo(d, n) \subseteq 1..len
    BY <1>2 DEF AcceptedTo, AcceptedOf, ReadableOf
  <2>2. IsFiniteSet(AcceptedTo(d, n)) /\ Cardinality(AcceptedTo(d, n)) <= Cardinality(1..len)
    BY <1>4, <2>1, FS_Subset
  <2> QED
    BY <1>4, <2>2, FS_CardinalityType
<1>0. errors = (1..Pages) \ { d[i].page : i \in NoErrorAt(d, m) } /\ count = Cardinality(AcceptedTo(d, m))
  BY DEF Counted
<1>6. ASSUME k \notin AcceptedOf(d)
      PROVE  /\ errors \cup {d[k].page} = (1..Pages) \ { d[i].page : i \in NoErrorAt(d, k) }
             /\ count = Cardinality(AcceptedTo(d, k)) /\ count \in 0..Pages
  <2>1. NoErrorAt(d, m) \subseteq DOMAIN d /\ k \in NoErrorAt(d, m)
    BY <1>2 DEF NoErrorAt
  <2>2. \A i \in NoErrorAt(d, m) : i # k => d[i].page # d[k].page
    <3> TAKE i \in NoErrorAt(d, m)
    <3>1. i \in 1..len /\ k \in 1..len
      BY <1>2, <2>1
    <3>2. ASSUME i # k PROVE d[i].page < d[k].page \/ d[k].page < d[i].page
      <4>1. i < k \/ k < i
        BY <3>1, <3>2
      <4> QED
        BY <1>2, <3>1, <4>1 DEF InOrder
    <3>3. d[i].page \in Nat /\ d[k].page \in Nat
      BY <1>2, <3>1
    <3> QED
      BY <3>2, <3>3
  <2>3. d[k].page \in 1..Pages
    BY <1>2
  <2>4. NoErrorAt(d, k) = NoErrorAt(d, m) \ {k}
    BY <1>1, <1>6
  <2>5. errors \cup {d[k].page} = (1..Pages) \ { d[i].page : i \in NoErrorAt(d, k) }
    BY <1>0, <2>1, <2>2, <2>3, <2>4
  <2> QED
    BY <1>0, <1>1, <1>2, <1>3, <1>5, <1>6, <2>5
<1>7. ASSUME k \in AcceptedOf(d)
      PROVE  /\ errors = (1..Pages) \ { d[i].page : i \in NoErrorAt(d, k) }
             /\ count + 1 = Cardinality(AcceptedTo(d, k)) /\ count + 1 \in 0..Pages
  <2>1. AcceptedTo(d, k) = AcceptedTo(d, m) \cup {k} /\ NoErrorAt(d, k) = NoErrorAt(d, m)
    BY <1>1, <1>7
  <2>2. Cardinality(AcceptedTo(d, m) \cup {k}) = Cardinality(AcceptedTo(d, m)) + 1
    BY <1>1, <1>5, FS_AddElement
  <2>3. count + 1 = Cardinality(AcceptedTo(d, k))
    BY <1>0, <2>1, <2>2
  <2>4. Cardinality(AcceptedTo(d, k)) \in Nat /\ Cardinality(AcceptedTo(d, k)) <= len
    BY <1>5
  <2> QED
    BY <1>0, <1>2, <1>3, <2>1, <2>3, <2>4
<1> QED
  BY <1>6, <1>7 DEF Counted

\* A body is parsed.
LEMMA EndPageStep == ASSUME IInv, EndPage PROVE IInv'
<1>1. /\ pc = "reading" /\ pc' = "parsing" /\ page' = page + 1
      /\ UNCHANGED <<delayed, cancelled, attempt, downloaded>>
  BY DEF EndPage
<1>2. PICK d \in Downloads : d = downloaded /\ d = downloaded' /\ InOrder(d)
  BY <1>1 DEF IInv, TypeOK, Downloads
<1>3. PICK k \in Nat, m \in Nat : k = page /\ k = m + 1 /\ page - 1 = m /\ page' - 1 = k
  <2>1. page \in Nat /\ page >= 1
    BY FetchAssumption DEF IInv, TypeOK
  <2>2. page - 1 \in Nat /\ page = (page - 1) + 1 /\ page' - 1 = page
    BY <1>1, <2>1
  <2> QED
    BY <2>1, <2>2
<1>4. /\ Len(d) <= Pages /\ k <= Len(d)
      /\ ListingsJoined(d, state, m) /\ PagesJoined(d, state, m)
      /\ pageErrors = (1..Pages) \ { d[i].page : i \in NoErrorAt(d, m) }
      /\ parsedPages = Cardinality(AcceptedTo(d, m))
  <2>1. /\ Len(downloaded) <= Pages /\ page <= Len(downloaded)
        /\ ListingsJoined(downloaded, state, page - 1) /\ PagesJoined(downloaded, state, page - 1)
        /\ pageErrors = (1..Pages) \ { downloaded[i].page : i \in NoErrorAt(downloaded, page - 1) }
        /\ parsedPages = Cardinality(AcceptedTo(downloaded, page - 1))
    BY <1>1 DEF IInv, JoinedIs, Joining
  <2> QED
    BY <1>2, <1>3, <2>1
<1>5. PICK p \in 1..Pages : p = d[k].page /\ k \in DOMAIN d
  BY <1>3, <1>4, DownloadIs
<1>6. PICK body : body = d[k].body
  OBVIOUS
<1>7. state \in States /\ Len(d) \in Nat /\ Pages \in Nat
  BY <1>4, DownloadIs, FetchAssumption DEF ListingsJoined, Sound
<1>8. /\ k \notin AcceptedOf(d) => Counted(d, k, pageErrors \cup {p}, parsedPages)
      /\ k \in AcceptedOf(d) => Counted(d, k, pageErrors, parsedPages + 1)
  <2>1. Counted(d, m, pageErrors, parsedPages)
    BY <1>4 DEF Counted, IInv, TypeOK
  <2>2. /\ k \notin AcceptedOf(d) => Counted(d, k, pageErrors \cup {d[k].page}, parsedPages)
        /\ k \in AcceptedOf(d) => Counted(d, k, pageErrors, parsedPages + 1)
    BY <1>2, <1>3, <1>4, <1>5, <2>1, CountsGrow, Zenon
  <2> QED
    BY <1>5, <2>2, Zenon
<1>9. /\ ListingsJoined(d, state', k) /\ PagesJoined(d, state', k)
      /\ Counted(d, k, pageErrors', parsedPages')
      /\ unidentified' \in Nat
  <2>1. unidentified \in Nat
    BY DEF IInv, TypeOK
  <2>2. CASE body = Unreadable
    <3>1. /\ pageErrors' = pageErrors \cup {p} /\ state' = state
          /\ parsedPages' = parsedPages /\ unidentified' = unidentified
      BY <1>2, <1>3, <1>5, <1>6, <2>2 DEF EndPage, joined
    <3>2. ListingsJoined(d, state, k) /\ k \notin AcceptedOf(d)
      BY <1>3, <1>4, <1>5, <1>6, <2>2, UnreadableJoins
    <3>3. PagesJoined(d, state, k)
      BY <1>3, <1>4, <1>5, <1>7, PagesStay
    <3> QED
      BY <1>8, <2>1, <3>1, <3>2, <3>3
  <2>3. ASSUME body # Unreadable PROVE unidentified + Nameless(body) \in Nat
    <3>1. body \in Bodies
      BY <1>5, <1>6, DownloadIs
    <3>2. PICK len \in Nat : IsBody(body, len)
      BY <2>3, <3>1, BodiesAre
    <3> DEFINE some == { n \in 1..len : body[n].url = NoURL }
    <3>3. Nameless(body) = Cardinality(some)
      BY <3>2 DEF Nameless, IsBody
    <3>4. IsFiniteSet(1..len) /\ some \subseteq 1..len
      BY FS_Interval
    <3> HIDE DEF some
    <3>5. Cardinality(some) \in Nat
      BY <3>4, FS_Subset, FS_CardinalityType
    <3> QED
      BY <2>1, <3>3, <3>5
  <2>4. CASE body # Unreadable /\ NoBooks(body, p)
    <3>1. /\ pageErrors' = pageErrors \cup {p} /\ state' = WithFailures(state, Parsed(body, p))
          /\ parsedPages' = parsedPages /\ unidentified' = unidentified + Nameless(body)
      BY <1>2, <1>3, <1>5, <1>6, <2>4 DEF EndPage
    <3>2. /\ ListingsJoined(d, state', k) /\ k \notin AcceptedOf(d) /\ state'.books = state.books
      <4>1. d[k].body # Unreadable /\ NoBooks(d[k].body, p)
        BY <1>6, <2>4
      <4>2. /\ ListingsJoined(d, WithFailures(state, Parsed(d[k].body, p)), k) /\ k \notin AcceptedOf(d)
            /\ WithFailures(state, Parsed(d[k].body, p)).books = state.books
        BY <1>3, <1>4, <1>5, <4>1, NoBooksJoins
      <4> QED
        BY <1>6, <3>1, <4>2, Zenon
    <3>3. PagesJoined(d, state', k)
      BY <1>3, <1>4, <1>5, <1>7, <3>2, PagesStay
    <3> QED
      BY <1>8, <2>3, <2>4, <3>1, <3>2, <3>3
  <2>5. CASE body # Unreadable /\ ~NoBooks(body, p)
    <3>1. /\ pageErrors' = pageErrors /\ state' = WithPage(state, Parsed(body, p))
          /\ parsedPages' = parsedPages + 1 /\ unidentified' = unidentified + Nameless(body)
      BY <1>2, <1>3, <1>5, <1>6, <2>5 DEF EndPage
    <3>2. ListingsJoined(d, state', k) /\ k \in AcceptedOf(d) /\ Continues(state, state', p)
      BY <1>3, <1>4, <1>5, <1>6, <2>5, <3>1, AcceptedJoins
    <3>3. PagesJoined(d, state', k)
      BY <1>2, <1>3, <1>4, <1>5, <3>2, PagesGrow DEF ListingsJoined
    <3> QED
      BY <1>8, <2>3, <2>5, <3>1, <3>2, <3>3
  <2> QED
    BY <2>2, <2>4, <2>5
<1>10. TypeOK'
  <2>1. state' \in States
    BY <1>9 DEF ListingsJoined, Sound
  <2>2. pageErrors' \subseteq 1..Pages /\ parsedPages' \in 0..Pages
    BY <1>9 DEF Counted
  <2>3. page' \in 1..Pages + 1
    BY <1>1, <1>3, <1>4, <1>7
  <2> QED
    BY <1>1, <1>9, <2>1, <2>2, <2>3 DEF IInv, TypeOK, States
<1>11. AttemptsBounded'
  BY <1>1 DEF IInv, AttemptsBounded
<1>12. DownloadsAre'
  BY <1>1 DEF DownloadsAre, Downloading
<1>13. JoinedIs'
  <2>1. page' <= Len(d) + 1
    BY <1>1, <1>3, <1>4, <1>7
  <2>2. /\ ListingsJoined(d, state', page' - 1) /\ PagesJoined(d, state', page' - 1)
        /\ pageErrors' = (1..Pages) \ { d[i].page : i \in NoErrorAt(d, page' - 1) }
        /\ parsedPages' = Cardinality(AcceptedTo(d, page' - 1))
    BY <1>3, <1>9 DEF Counted
  <2> QED
    BY <1>1, <1>2, <1>4, <2>1, <2>2 DEF JoinedIs
<1> QED
  BY <1>2, <1>10, <1>11, <1>12, <1>13 DEF IInv

LEMMA NextStep == IInv /\ [Next]_vars => IInv'
<1> SUFFICES ASSUME IInv, [Next]_vars PROVE IInv'
  OBVIOUS
<1>1. CASE AttemptSucceeds
  BY <1>1, AttemptSucceedsStep
<1>2. CASE AttemptFails
  BY <1>2, AttemptFailsStep
<1>3. CASE RetryWaitOver
  BY <1>3, RetryStep
<1>4. CASE DelayOver
  BY <1>4, DelayStep
<1>5. CASE BeginPage \/ Return
  BY <1>5, BeginStep
<1>6. CASE EndPage
  BY <1>6, EndPageStep
<1>7. CASE AttemptCancelled \/ WaitCancelled \/ PageCancelled
  <2>1. ReturnCancelled
    BY <1>7 DEF AttemptCancelled, WaitCancelled, PageCancelled
  <2>2. cancelled' \in BOOLEAN
    BY <2>1 DEF ReturnCancelled, IInv, TypeOK
  <2> QED
    BY <2>1, <2>2, CancelStep DEF ReturnCancelled
<1>8. CASE Cancel
  BY <1>8, CancelStep DEF Cancel
<1>9. CASE UNCHANGED vars
  <2>1. cancelled' \in BOOLEAN
    BY <1>9 DEF vars, IInv, TypeOK
  <2> QED
    BY <1>9, <2>1, CancelStep DEF vars
<1> QED
  BY <1>1, <1>2, <1>3, <1>4, <1>5, <1>6, <1>7, <1>8, <1>9 DEF Next, Proceed, Over

\* The bodies and listings meant by the invariant are those of the properties.
LEMMA SameBodies ==
    /\ Readable = ReadableOf(downloaded) /\ Accepted = AcceptedOf(downloaded)
    /\ \A i, url : /\ WellFormed(i, url) <=> HasWellFormed(downloaded, i, url)
                   /\ Malformed(i, url) <=> HasMalformed(downloaded, i, url)
<1>1. Readable = ReadableOf(downloaded)
  BY DEF Readable, ReadableOf
<1>2. Accepted = AcceptedOf(downloaded)
  BY <1>1 DEF Accepted, AcceptedOf, On
<1>3. \A i, url : /\ WellFormed(i, url) <=> HasWellFormed(downloaded, i, url)
                  /\ Malformed(i, url) <=> HasMalformed(downloaded, i, url)
  BY DEF WellFormed, HasWellFormed, Malformed, HasMalformed, On
<1> QED
  BY <1>1, <1>2, <1>3

\* At the end all bodies have been joined.
LEMMA AtTheEnd ==
    ASSUME IInv, pc \in {"returned", "failed"}
    PROVE  \E m \in Nat :
              /\ m = Len(downloaded) /\ DOMAIN downloaded = 1..m /\ downloaded \in Downloads
              /\ ListingsJoined(downloaded, state, m) /\ PagesJoined(downloaded, state, m)
              /\ AcceptedTo(downloaded, m) = Accepted /\ NoErrorAt(downloaded, m) = Accepted
              /\ pageErrors = (1..Pages) \ { downloaded[i].page : i \in Accepted }
              /\ parsedPages = Cardinality(Accepted)
<1>1. downloaded \in Downloads
  BY DEF IInv, TypeOK, Downloads
<1>2. PICK m \in Nat : m = Len(downloaded) /\ DOMAIN downloaded = 1..m
  BY <1>1, DownloadIs
<1>3. page - 1 = m
  BY <1>2 DEF IInv, JoinedIs, Joining
<1>4. /\ ListingsJoined(downloaded, state, m) /\ PagesJoined(downloaded, state, m)
      /\ pageErrors = (1..Pages) \ { downloaded[i].page : i \in NoErrorAt(downloaded, m) }
      /\ parsedPages = Cardinality(AcceptedTo(downloaded, m))
  BY <1>3 DEF IInv, JoinedIs, Joining
<1>5. AcceptedOf(downloaded) \subseteq 1..m
  BY <1>2 DEF AcceptedOf, ReadableOf
<1>6. AcceptedTo(downloaded, m) = Accepted
  BY <1>5, SameBodies DEF AcceptedTo
<1>7. NoErrorAt(downloaded, m) = Accepted
  BY <1>2, <1>5, SameBodies DEF NoErrorAt
<1> QED
  BY <1>1, <1>2, <1>4, <1>6, <1>7

LEMMA ListingsAccounted == IInv => EveryListingAccountedFor
<1> SUFFICES ASSUME IInv, pc = "returned"
             PROVE  /\ Seen(state) = { url \in URLs : \E i \in Accepted : WellFormed(i, url) }
                    /\ ToSet(FailedBuyURLs(state)) =
                          { url \in URLs \ Seen(state) : \E i \in Readable : Malformed(i, url) }
                    /\ Len(state.books) = Cardinality(Seen(state))
                    /\ IsInjective(FailedBuyURLs(state))
  BY DEF EveryListingAccountedFor
<1>1. PICK m \in Nat :
          /\ DOMAIN downloaded = 1..m /\ ListingsJoined(downloaded, state, m)
          /\ AcceptedTo(downloaded, m) = Accepted
  BY AtTheEnd
<1>2. /\ Sound(state)
      /\ Seen(state) = { url \in URLs : \E i \in Accepted : HasWellFormed(downloaded, i, url) }
      /\ state.failed = { url \in URLs \ Seen(state) :
                             \E i \in ReadableOf(downloaded) : i <= m /\ HasMalformed(downloaded, i, url) }
  BY <1>1 DEF ListingsJoined
<1>3. \A i \in ReadableOf(downloaded) : i <= m
  BY <1>1 DEF ReadableOf
<1>4. Seen(state) = { url \in URLs : \E i \in Accepted : WellFormed(i, url) }
  BY <1>2, SameBodies
<1>5. state.failed = { url \in URLs \ Seen(state) : \E i \in Readable : Malformed(i, url) }
  BY <1>2, <1>3, SameBodies
<1>6. PICK urls \in Seq(URLs) : urls = FailedBuyURLs(state) /\ Enumerates(urls, state.failed)
  BY <1>2, FailedListed
<1>7. ToSet(urls) = state.failed /\ IsInjective(urls)
  BY <1>6 DEF Enumerates, ToSet, IsInjective
<1>8. Len(state.books) = Cardinality(Seen(state))
  <2>1. PICK len \in Nat : len = Len(state.books) /\ DOMAIN state.books = 1..len
    BY <1>2, StateFields DEF Sound
  <2>2. \A url : url \in Seen(state) <=> \E i \in 1..len : state.books[i].url = url
    BY <1>2, <2>1, SeenIs DEF Sound
  <2> DEFINE f == [i \in 1..len |-> state.books[i].url]
  <2>3. f \in [1..len -> Seen(state)] /\ \A i \in 1..len : f[i] = state.books[i].url
    BY <2>2
  <2> HIDE DEF f
  <2>4. \A i, j \in 1..len : f[i] = f[j] => i = j
    BY <1>2, <2>1, <2>3 DEF Sound
  <2>5. f \in Bijection(1..len, Seen(state))
    BY <2>2, <2>3, <2>4 DEF Bijection, Injection, Surjection, IsInjective
  <2>6. ExistsBijection(1..len, Seen(state))
    BY <2>5 DEF ExistsBijection
  <2>7. Cardinality(Seen(state)) = len
    BY <2>6, FS_CountingElements
  <2> QED
    BY <2>1, <2>7
<1> QED
  BY <1>4, <1>5, <1>6, <1>7, <1>8

LEMMA FirstPagesWin == IInv => FirstPageWins
<1> SUFFICES ASSUME IInv, pc = "returned"
             PROVE  /\ \A i, j \in DOMAIN state.books : i < j => state.books[i].page <= state.books[j].page
                    /\ \A book \in ToSet(state.books) : \A i \in Readable :
                          WellFormed(i, book.url) => book.page <= downloaded[i].page
  BY DEF FirstPageWins
<1>1. PICK m \in Nat : DOMAIN downloaded = 1..m /\ PagesJoined(downloaded, state, m)
  BY AtTheEnd
<1>2. \A i, j \in DOMAIN state.books : i < j => state.books[i].page <= state.books[j].page
  BY <1>1 DEF PagesJoined
<1>3. ASSUME NEW book \in ToSet(state.books), NEW k \in Readable, WellFormed(k, book.url)
      PROVE  book.page <= downloaded[k].page
  <2>1. PICK i \in DOMAIN state.books : book = state.books[i]
    BY DEF ToSet
  <2>2. k \in ReadableOf(downloaded) /\ HasWellFormed(downloaded, k, state.books[i].url)
    BY <1>3, <2>1, SameBodies
  <2>3. k <= m
    BY <1>1, <2>2 DEF ReadableOf
  <2> QED
    BY <1>1, <2>1, <2>2, <2>3 DEF PagesJoined
<1> QED
  BY <1>2, <1>3

LEMMA EveryPageFailed == IInv => FailsOnlyWithEveryPage
<1> SUFFICES ASSUME IInv PROVE FailsOnlyWithEveryPage
  OBVIOUS
<1>1. attempt <= MaxRetries + 1
  BY DEF IInv, AttemptsBounded
<1>2. ASSUME pc \in {"returned", "failed"}
      PROVE  /\ pageErrors = (1..Pages) \ { downloaded[i].page : i \in Accepted }
             /\ parsedPages = Cardinality(Accepted)
             /\ IsFiniteSet(Accepted) /\ IsFiniteSet({ downloaded[i].page : i \in Accepted })
             /\ { downloaded[i].page : i \in Accepted } \subseteq 1..Pages
             /\ Cardinality({ downloaded[i].page : i \in Accepted }) = Cardinality(Accepted)
  <2>1. PICK m \in Nat :
            /\ m = Len(downloaded) /\ DOMAIN downloaded = 1..m /\ downloaded \in Downloads
            /\ pageErrors = (1..Pages) \ { downloaded[i].page : i \in Accepted }
            /\ parsedPages = Cardinality(Accepted)
    BY <1>2, AtTheEnd
  <2>2. Accepted \subseteq 1..m
    BY <2>1 DEF Accepted, Readable
  <2>3. IsFiniteSet(1..m)
    BY FS_Interval
  <2>4. IsFiniteSet(Accepted)
    BY <2>2, <2>3, FS_Subset
  <2> DEFINE pages == { downloaded[i].page : i \in Accepted }
             f == [i \in Accepted |-> downloaded[i].page]
  <2>5. \A i \in 1..m : downloaded[i].page \in 1..Pages
    BY <2>1, DownloadIs
  <2>6. \A i, j \in 1..m : downloaded[i].page = downloaded[j].page => i = j
    <3> TAKE i \in 1..m, j \in 1..m
    <3>1. i < j => downloaded[i].page < downloaded[j].page
      BY <2>1 DEF IInv, InOrder
    <3>2. j < i => downloaded[j].page < downloaded[i].page
      BY <2>1 DEF IInv, InOrder
    <3>3. downloaded[i].page \in Nat /\ downloaded[j].page \in Nat
      BY <2>5
    <3> QED
      BY <3>1, <3>2, <3>3
  <2>7. f \in [Accepted -> pages] /\ \A i \in Accepted : f[i] = downloaded[i].page
    OBVIOUS
  <2>8. \A q \in pages : \E i \in Accepted : f[i] = q
    OBVIOUS
  <2>9. pages \subseteq 1..Pages
    BY <2>2, <2>5
  <2> HIDE DEF f, pages
  <2>10. \A i, j \in Accepted : f[i] = f[j] => i = j
    BY <2>2, <2>6, <2>7
  <2>11. f \in Bijection(Accepted, pages)
    BY <2>7, <2>8, <2>10 DEF Bijection, Injection, Surjection, IsInjective
  <2>12. ExistsBijection(Accepted, pages)
    BY <2>11 DEF ExistsBijection
  <2>13. IsFiniteSet(pages) /\ Cardinality(pages) = Cardinality(Accepted)
    BY <2>4, <2>12, FS_Bijection
  <2> QED
    BY <2>1, <2>4, <2>9, <2>13 DEF pages
<1>3. ASSUME pc = "failed" PROVE pageErrors = 1..Pages
  <2>1. parsedPages = 0
    BY <1>3 DEF IInv, JoinedIs, Joining
  <2>2. Cardinality(Accepted) = 0 /\ IsFiniteSet(Accepted)
    BY <1>2, <1>3, <2>1
  <2>3. Accepted = {}
    BY <2>2, FS_EmptySet
  <2> QED
    BY <1>2, <1>3, <2>3
<1>4. ASSUME pc = "returned" PROVE Cardinality(pageErrors) = Pages - Cardinality(Accepted)
  <2> DEFINE pages == { downloaded[i].page : i \in Accepted }
  <2>1. /\ pageErrors = (1..Pages) \ pages /\ IsFiniteSet(pages) /\ pages \subseteq 1..Pages
        /\ Cardinality(pages) = Cardinality(Accepted)
    BY <1>2, <1>4
  <2> HIDE DEF pages
  <2>2. Pages \in Nat /\ IsFiniteSet(1..Pages) /\ Cardinality(1..Pages) = Pages
    <3>1. Pages \in Nat /\ 1 \in Int /\ Pages \in Int
      BY FetchAssumption
    <3>2. IsFiniteSet(1..Pages) /\ Cardinality(1..Pages) = IF 1 > Pages THEN 0 ELSE Pages-1+1
      BY <3>1, FS_Interval, Zenon
    <3> QED
      BY <3>1, <3>2
  <2>3. Cardinality((1..Pages) \ pages) = Cardinality(1..Pages) - Cardinality((1..Pages) \cap pages)
    BY <2>1, <2>2, FS_Difference
  <2>4. (1..Pages) \cap pages = pages
    BY <2>1
  <2> QED
    BY <2>1, <2>2, <2>3, <2>4
<1> QED
  BY <1>1, <1>3, <1>4 DEF FailsOnlyWithEveryPage

-----------------------------------------------------------------------------
(* The theorems                                                            *)

\* The invariant holds throughout.
THEOREM Invariant == Spec => []IInv
<1>1. Init => IInv
  BY InitStep
<1>2. IInv /\ [Next]_vars => IInv'
  BY NextStep
<1> QED
  BY <1>1, <1>2, PTL DEF Spec

\* Every variable of FetchWithResult keeps its type: no page past the last one
\* is downloaded, and no more pages are parsed than are configured.
THEOREM TypeCorrect == Spec => []TypeOK
<1>1. IInv => TypeOK
  BY DEF IInv
<1> QED
  BY <1>1, Invariant, PTL

\* What FetchWithResult returns has every listing that is well formed
\* somewhere once, and as failed, once, those that are malformed everywhere.
THEOREM ListingsAreAccountedFor == Spec => []EveryListingAccountedFor
<1> QED
  BY Invariant, ListingsAccounted, PTL

\* A listing has the data of the first page that shows it well formed, and the
\* listings come in the order of the pages.
THEOREM TheFirstPageWins == Spec => []FirstPageWins
<1> QED
  BY Invariant, FirstPagesWin, PTL

\* FetchWithResult fails only if every page did, and otherwise has an error for
\* each page that is missing from the result.
THEOREM OnePageIsEnough == Spec => []FailsOnlyWithEveryPage
<1> QED
  BY Invariant, EveryPageFailed, PTL

\* Whatever a page shows, reading a paragraph slices nothing out of range, and
\* a paragraph in Alib's layout has each of its texts in the field that its
\* neighbours give it, and in no other.
THEOREM TextsAreInTheirFields == Spec => []EveryTextInItsField
<1>1. IInv => EveryTextInItsField
  BY NoneMisread DEF EveryTextInItsField
<1> QED
  BY <1>1, Invariant, PTL

\* A cancelled fetch joins no further page, and returns listings only if none
\* was missing.
THEOREM NoneAfterCancellation == Spec => NothingAfterCancellation
<1>1. [Next]_vars => [cancelled => state' = state /\ (pc' = "returned" /\ pc # "returned" => AllParsed)]_vars
  <2> SUFFICES ASSUME Next, cancelled
               PROVE  state' = state /\ (pc' = "returned" /\ pc # "returned" => AllParsed)
    BY DEF vars
  <2>1. CASE AttemptSucceeds \/ AttemptFails
    BY <2>1 DEF AttemptSucceeds, AttemptFails, NextPage, Attempt, joined
  <2>2. CASE RetryWaitOver \/ DelayOver
    BY <2>2 DEF RetryWaitOver, DelayOver, Attempt, joined
  <2>3. CASE AttemptCancelled \/ WaitCancelled \/ PageCancelled \/ BeginPage
    BY <2>3 DEF AttemptCancelled, WaitCancelled, PageCancelled, BeginPage, ReturnCancelled, joined
  <2>4. CASE EndPage
    BY <2>4 DEF EndPage
  <2>5. CASE Return
    BY <2>5 DEF Return, joined
  <2>6. CASE Cancel \/ Over
    BY <2>6 DEF Cancel, Over, vars, joined
  <2> QED
    BY <2>1, <2>2, <2>3, <2>4, <2>5, <2>6 DEF Next, Proceed
<1> QED
  BY <1>1, PTL DEF Spec, NothingAfterCancellation

=============================================================================
