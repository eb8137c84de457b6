---------------------------- MODULE MCPageFetch -----------------------------
(***************************************************************************)
(* Two pages with up to two listings each, in every combination: a listing *)
(* can be well formed and malformed on a page, on both, or on either.      *)
(*                                                                         *)
(* Paragraphs are all short ones, longer ones with the parts before the    *)
(* buy link, and a title and a buy link with all that may follow them.     *)
(***************************************************************************)
EXTENDS PageFetch

CONSTANTS u, v

SomeURLs == {u, v}

Plain(kinds) == [kind : kinds]

BuyLink(url) == [kind |-> "buy", url |-> url]

Within(e) == [kind |-> "within", node |-> e]

Short ==
    BoundedSeq(
        Plain({"title", "seller", "photo", "break", "text", "preamble", "price", "condition"})
        \cup {BuyLink(u), BuyLink(v), BuyLink(NoURL),
              Within([kind |-> "title"]), Within([kind |-> "seller"]), Within(BuyLink(u))}, 3)

Openings == BoundedSeq(Plain({"title", "seller", "break", "text", "preamble", "price"}) \cup {BuyLink(u)}, 5)

Middles ==
    { <<[kind |-> "title"]>> \o middle \o <<BuyLink(u)>>
      : middle \in BoundedSeq(Plain({"title", "seller", "break", "text", "preamble", "price"}), 5) }

Endings ==
    { <<[kind |-> "title"], [kind |-> "price"], BuyLink(u)>> \o rest
      : rest \in BoundedSeq(Plain({"break", "text", "photo", "photos", "condition"}), 4) }

SomeParagraphs == Short \cup Openings \cup Middles \cup Endings
=============================================================================
