----------------------------- MODULE ListingText -----------------------------
(***************************************************************************)
(* What parseListing of internal/alib makes of a paragraph of a page: no   *)
(* listing, a malformed one, or a listing whose texts are dealt out to its *)
(* fields.                                                                 *)
(*                                                                         *)
(* A paragraph is the sequence of its elements: the title, links, line     *)
(* breaks and pieces of text, of which some are labels.  "within" is a     *)
(* title, seller or buy link inside another of them or inside a link: it   *)
(* may be the one that is chosen, but is no part of a line.                *)
(***************************************************************************)
EXTENDS Naturals, SequencesExt

CONSTANTS
    URLs,           \* buy URLs of listings
    NoURL,          \* a buy link that is missing or has no valid address
    Paragraphs      \* the paragraphs that pages show

Simple ==
    [kind : {"title", "seller", "photo", "break", "text", "preamble", "price", "condition", "photos"}]
    \cup [kind : {"buy"}, url : URLs \cup {NoURL}]

ASSUME ParagraphsAssumption ==
    /\ NoURL \notin URLs
    /\ \A par \in Paragraphs :
          /\ par \in Seq(ToSet(par))
          /\ \A e \in ToSet(par) :
                \/ e \in Simple
                \/ e.kind = "within" /\ e.node \in Simple /\ e.node.kind \in {"title", "seller", "buy"}

-----------------------------------------------------------------------------
(* listingNodes                                                            *)

Node(e) == IF e.kind = "within" THEN e.node ELSE e

Places(par, kind) == { i \in DOMAIN par : Node(par[i]).kind = kind }

First(S) == IF S = {} THEN 0 ELSE Min(S)

Title(par) == First(Places(par, "title"))

Seller(par) == First(Places(par, "seller"))

Buy(par) == IF Places(par, "buy") = {} THEN 0 ELSE Max(Places(par, "buy"))

Candidate(par) ==
    Buy(par) # 0 \/ (Title(par) # 0 /\ Places(par, "price") # {})

BuyURL(par) == IF Buy(par) = 0 THEN NoURL ELSE Node(par[Buy(par)]).url

-----------------------------------------------------------------------------
(* logicalLines: lines of parts                                            *)

\* findNode
Found(par, i) == i # 0 /\ par[i].kind # "within"

Line(par, i) == Cardinality({ j \in 1..i : par[j].kind = "break" })

\* The parts strictly between two elements.
Parts(par, from, to) == { i \in from + 1..to - 1 : par[i].kind \notin {"break", "within"} }

OnLine(par, S, n) == { i \in S : Line(par, i) = n }

\* The number of a part on its line, from 0.
Part(par, i) == Cardinality(OnLine(par, Parts(par, 0, i), Line(par, i)))

\* Mistaken: the place of the seller is not checked.
SellerAnywhere(par) == TRUE

SellerBetween(par) ==
    Found(par, Seller(par)) => Title(par) < Seller(par) /\ Seller(par) < Buy(par)

\* parseBook returns no error.
Parses(par) ==
    /\ Title(par) # 0 /\ BuyURL(par) # NoURL
    /\ Found(par, Title(par)) /\ Found(par, Buy(par))
    /\ Title(par) < Buy(par)
    /\ SellerBetween(par)

\* What parseListing returns.
Listing(par) == [url |-> BuyURL(par), parsed |-> Parses(par)]

-----------------------------------------------------------------------------
(* The fields, as the places of their texts                                *)

BeforeFirst(par, S, kinds) == { i \in S : \A j \in S : par[j].kind \in kinds => i < j }

\* trimSellerPreamble
Trimmed(par, S) ==
    IF \E i \in S : par[i].kind = "preamble"
    THEN { i \in S : i < Max({ j \in S : par[j].kind = "preamble" }) }
    ELSE S

\* Where the bibliography ends.
Sale(par) == IF Found(par, Seller(par)) THEN Seller(par) ELSE Buy(par)

\* parseBibliography
Bibliography(par) ==
    LET all  == Parts(par, Title(par), Sale(par))
        last == OnLine(par, all, Line(par, Sale(par)))
    IN  (all \ last)
        \cup BeforeFirst(par, IF Found(par, Seller(par)) THEN Trimmed(par, last) ELSE last, {"price"})

\* parseSeller
Location(par) ==
    IF Found(par, Seller(par))
    THEN BeforeFirst(par, OnLine(par, Parts(par, Seller(par), Buy(par)), Line(par, Seller(par))), {"price"})
    ELSE {}

\* parsePrice
Price(par) ==
    LET line   == OnLine(par, Parts(par, 0, Buy(par)), Line(par, Buy(par)))
        labels == { i \in line : par[i].kind = "price" }
    IN  { i \in line : labels # {} /\ i > Max(labels) }

\* parseDescription: up to the photos.
Description(par) == BeforeFirst(par, Parts(par, Buy(par), Len(par) + 1), {"photo", "photos"})

Content(par) == BeforeFirst(par, Description(par), {"condition"})

Condition(par) == Description(par) \ Content(par)

\* The bounds of what parseBibliography allocates and parseSeller slices.
Bounds(par) ==
    {<<0, (Line(par, Sale(par)) + 1) - Line(par, Title(par))>>}
    \cup { <<Part(par, s) + 1,
             IF Line(par, s) = Line(par, Buy(par)) THEN Part(par, Buy(par))
             ELSE Cardinality(OnLine(par, Parts(par, 0, Len(par) + 1), Line(par, s)))>>
           : s \in {Seller(par)} \cap { i \in DOMAIN par : Found(par, i) } }

-----------------------------------------------------------------------------
(* Properties                                                              *)

\* The layout of Alib: one price label, on the line of the buy link after
\* title and seller; the seller on that line, with the preamble right before it.
Usual(par) ==
    /\ \E label \in Places(par, "price") :
          /\ Places(par, "price") = {label}
          /\ Title(par) < label /\ Seller(par) < label /\ label < Buy(par)
          /\ Line(par, label) = Line(par, Buy(par))
    /\ Found(par, Seller(par)) =>
          /\ Line(par, Seller(par)) = Line(par, Buy(par))
          /\ \A i \in Places(par, "preamble") : i < Seller(par) => i = Seller(par) - 1

\* The texts, and those behind the buy link that follow one of the kinds.
Texts(par) == { i \in Parts(par, 0, Len(par) + 1) : par[i].kind # "preamble" }

Between(par, from, to) == { i \in Texts(par) : from < i /\ i < to }

Behind(par, kinds) == { i \in Texts(par) : \E j \in Buy(par) + 1..i : par[j].kind \in kinds }

\* No slice of a listing that parses is out of range, and in the layout of
\* Alib each text has one field, the one its neighbours give it: of the texts
\* from the title to the price label the bibliography has those before the
\* seller and the location the others.
FieldsAreInPlace(par) ==
    /\ \A bounds \in Bounds(par) : bounds[1] <= bounds[2]
    /\ Usual(par) =>
          LET label  == Max(Places(par, "price"))
              photos == {"photo", "photos"}
          IN  /\ Bibliography(par) \cap Texts(par) =
                    { i \in Between(par, Title(par), label) : i < Sale(par) }
              /\ Location(par) \cap Texts(par) = Between(par, Sale(par), label)
              /\ Price(par) \cap Texts(par) = Between(par, label, Buy(par))
              /\ Content(par) \cap Texts(par) =
                    Between(par, Buy(par), Len(par) + 1) \ Behind(par, photos \cup {"condition"})
              /\ Condition(par) \cap Texts(par) = Behind(par, {"condition"}) \ Behind(par, photos)
=============================================================================
