------------------------- MODULE ContentTruncation --------------------------
(***************************************************************************)
(* RenderBook of internal/digest/render.go: a listing that exceeds a text  *)
(* limit has its content shortened to a prefix and an ellipsis, which      *)
(* truncateContent finds by binary search.  What a listing says is left    *)
(* out: it is the size it has whole, and with each prefix of its content.  *)
(***************************************************************************)
EXTENDS Integers

CONSTANTS
    Listings,   \* [length, whole, cut]: runes of content, size, size when cut
    Limits,     \* the values of message_limit
    ByteLimit   \* richMessageHTMLByteLimit

Size == [runes : Nat, bytes : Nat]

\* Another rune of content never makes a text smaller: it adds a displayed
\* rune, a line break or nothing, and bytes.
ASSUME TruncationAssumption ==
    /\ Limits \subseteq Nat /\ ByteLimit \in Nat
    /\ \A l \in Listings :
          /\ l.length \in Nat
          /\ l.whole \in Size
          /\ l.cut \in [0..l.length -> Size]
          /\ \A j, k \in 0..l.length :
                j <= k => l.cut[j].runes <= l.cut[k].runes /\ l.cut[j].bytes <= l.cut[k].bytes

VARIABLES
    listing,    \* the listing that is rendered
    limit,      \* message_limit
    pc,         \* where RenderBook is, or how it returned
    low, high   \* bounds of the prefix that is searched

vars == <<listing, limit, pc, low, high>>

ExceedsTextLimits(size, runeLimit) == size.runes > runeLimit \/ size.bytes > ByteLimit

\* A shortened listing must leave one rune of message_limit.
FitsCut(k) == ~ExceedsTextLimits(listing.cut[k], limit - 1)

Init ==
    /\ listing \in Listings /\ limit \in Limits
    /\ pc = "measure" /\ low = 0 /\ high = 0

Measure ==
    /\ pc = "measure"
    /\ IF ~ExceedsTextLimits(listing.whole, limit)
       THEN pc' = "whole" /\ UNCHANGED high
       ELSE IF listing.length = 0
            THEN pc' = "rejected" /\ UNCHANGED high
            ELSE pc' = "search" /\ high' = listing.length
    /\ UNCHANGED <<listing, limit, low>>

Middle == (low + high + 1) \div 2

\* Mistaken: a prefix that was refused stays in the search.
ProbeKeeping ==
    /\ pc = "search" /\ low < high
    /\ IF FitsCut(Middle) THEN low' = Middle /\ UNCHANGED high
                          ELSE high' = Middle /\ UNCHANGED low
    /\ UNCHANGED <<listing, limit, pc>>

\* Mistaken: a text must stay below the byte limit.
ProbeBelow ==
    /\ pc = "search" /\ low < high
    /\ IF FitsCut(Middle) /\ listing.cut[Middle].bytes < ByteLimit
       THEN low' = Middle /\ UNCHANGED high
       ELSE high' = Middle - 1 /\ UNCHANGED low
    /\ UNCHANGED <<listing, limit, pc>>

\* Mistaken: the search allows the rune that the result must leave.
ProbeAtLimit ==
    /\ pc = "search" /\ low < high
    /\ IF ~ExceedsTextLimits(listing.cut[Middle], limit)
       THEN low' = Middle /\ UNCHANGED high
       ELSE high' = Middle - 1 /\ UNCHANGED low
    /\ UNCHANGED <<listing, limit, pc>>

Probe ==
    /\ pc = "search" /\ low < high
    /\ IF FitsCut(Middle) THEN low' = Middle /\ UNCHANGED high
                          ELSE high' = Middle - 1 /\ UNCHANGED low
    /\ UNCHANGED <<listing, limit, pc>>

Conclude ==
    /\ pc = "search" /\ low >= high
    /\ pc' = IF FitsCut(low) THEN "shortened" ELSE "rejected"
    /\ UNCHANGED <<listing, limit, low, high>>

\* RenderBook has returned.
Over == pc \in {"whole", "shortened", "rejected"} /\ UNCHANGED vars

Next == Measure \/ Probe \/ Conclude \/ Over

Spec == Init /\ [][Next]_vars

-----------------------------------------------------------------------------
(* Properties                                                              *)

\* Every variable has its type, and the search stays within the content.
TypeOK ==
    /\ listing \in Listings /\ limit \in Limits
    /\ pc \in {"measure", "search", "whole", "shortened", "rejected"}
    /\ low \in 0..high /\ high \in 0..listing.length

\* By the README a listing is shortened to the longest prefix that fits both
\* limits.  The code leaves one rune of message_limit: the prefix it finds does,
\* and a longer one that fits has exactly message_limit runes.
LongestPrefixButAtLimit ==
    pc = "shortened" =>
        /\ FitsCut(low)
        /\ \A k \in (low + 1)..listing.length :
              ExceedsTextLimits(listing.cut[k], limit) \/ listing.cut[k].runes = limit

\* A listing is rejected only if it does not fit whole and none of its prefixes
\* does, not even the empty one, but for those of exactly message_limit runes.
\* The README knows of no such exception: by it a listing is saved whose empty
\* prefix has message_limit runes.  The code and its tests reject it.
RejectedOnlyIfNothingFits ==
    pc = "rejected" =>
        /\ ExceedsTextLimits(listing.whole, limit)
        /\ listing.length > 0 =>
              \A k \in 0..listing.length :
                  ExceedsTextLimits(listing.cut[k], limit) \/ listing.cut[k].runes = limit

\* Each probe, which renders the whole listing again, halves the search.
SearchHalves == [][pc = "search" /\ pc' = "search" => 2 * (high' - low') <= high - low]_vars
=============================================================================
