---------------------- MODULE ContentTruncationProofs -----------------------
(***************************************************************************)
(* The binary search of truncateContent finds the longest prefix for every *)
(* content and every limit.  The invariant says that no prefix beyond high *)
(* fits and that the prefix low does, unless low is still 0; it is         *)
(* inductive because a longer prefix never fits where a shorter does not.  *)
(***************************************************************************)
EXTENDS ContentTruncation, TLAPS

\* No cut above the search's interval fits.
NothingBeyond == \A k \in (high + 1)..listing.length : ~FitsCut(k)

\* What is known before RenderBook has returned.
SearchInv ==
    /\ pc = "measure" => low = 0 /\ high = 0
    /\ pc = "search" =>
          /\ listing.length > 0 /\ ExceedsTextLimits(listing.whole, limit)
          /\ NothingBeyond
          /\ low = 0 \/ FitsCut(low)

\* What is known once RenderBook has returned.
ResultInv ==
    /\ pc = "shortened" => low = high /\ NothingBeyond /\ FitsCut(low)
    /\ pc = "rejected" =>
          /\ ExceedsTextLimits(listing.whole, limit)
          /\ listing.length > 0 => low = 0 /\ high = 0 /\ NothingBeyond /\ ~FitsCut(0)

\* The inductive invariant.
Inv == TypeOK /\ SearchInv /\ ResultInv

-----------------------------------------------------------------------------

\* A prefix fits if a longer one does.
LEMMA ShorterFits ==
    ASSUME TypeOK, NEW j \in 0..listing.length, NEW k \in 0..listing.length, j <= k, FitsCut(k)
    PROVE  FitsCut(j)
<1>1. listing \in Listings /\ limit \in Nat
  BY TruncationAssumption DEF TypeOK
<1>2. /\ listing.length \in Nat
      /\ listing.cut \in [0..listing.length -> Size]
      /\ listing.cut[j].runes <= listing.cut[k].runes
      /\ listing.cut[j].bytes <= listing.cut[k].bytes
  BY <1>1, TruncationAssumption
<1>3. listing.cut[j] \in Size /\ listing.cut[k] \in Size
  BY <1>2
<1>4. /\ listing.cut[j].runes \in Nat /\ listing.cut[j].bytes \in Nat
      /\ listing.cut[k].runes \in Nat /\ listing.cut[k].bytes \in Nat
  BY <1>3 DEF Size
<1>. QED
  BY <1>1, <1>2, <1>4, TruncationAssumption, SMTT(30) DEF FitsCut, ExceedsTextLimits

\* The middle lies above low and not above high.
LEMMA MiddleBetween ==
    ASSUME NEW l \in Nat, NEW h \in Nat, l < h
    PROVE  /\ (l + h + 1) \div 2 \in Nat
           /\ l < (l + h + 1) \div 2 /\ (l + h + 1) \div 2 <= h
           /\ 2 * (h - ((l + h + 1) \div 2)) <= h - l
           /\ 2 * ((((l + h + 1) \div 2) - 1) - l) <= h - l
  OBVIOUS

\* A listing that has not been measured satisfies the invariant.
LEMMA InitEstablishes == Init => Inv
<1>. SUFFICES ASSUME Init PROVE Inv
  OBVIOUS
<1>1. listing.length \in Nat
  BY TruncationAssumption DEF Init
<1>. QED
  BY <1>1 DEF Init, Inv, TypeOK, SearchInv, ResultInv

\* Measuring the whole listing preserves the invariant.
LEMMA MeasurePreserves ==
    ASSUME Inv, Measure PROVE Inv'
<1>1. /\ listing \in Listings /\ limit \in Limits /\ listing.length \in Nat
      /\ low = 0 /\ high = 0 /\ pc = "measure"
  BY TruncationAssumption DEF Inv, TypeOK, SearchInv, Measure
<1>2. UNCHANGED <<listing, limit, low>>
  BY DEF Measure
<1>3. CASE ~ExceedsTextLimits(listing.whole, limit)
  <2>1. pc' = "whole" /\ high' = high
    BY <1>3 DEF Measure
  <2>. QED
    BY <1>1, <1>2, <2>1 DEF Inv, TypeOK, SearchInv, ResultInv
<1>4. CASE ExceedsTextLimits(listing.whole, limit) /\ listing.length = 0
  <2>1. pc' = "rejected" /\ high' = high
    BY <1>4 DEF Measure
  <2>. QED
    BY <1>1, <1>2, <1>4, <2>1 DEF Inv, TypeOK, SearchInv, ResultInv
<1>5. CASE ExceedsTextLimits(listing.whole, limit) /\ listing.length # 0
  <2>1. pc' = "search" /\ high' = listing.length
    BY <1>5 DEF Measure
  <2>2. TypeOK'
    BY <1>1, <1>2, <2>1 DEF TypeOK
  <2>3. NothingBeyond'
    BY <1>1, <1>2, <2>1 DEF NothingBeyond
  <2>. QED
    BY <1>1, <1>2, <1>5, <2>1, <2>2, <2>3 DEF Inv, SearchInv, ResultInv
<1>. QED
  BY <1>3, <1>4, <1>5

\* A probe halves the interval and keeps every fitting cut in it.
LEMMA ProbePreserves ==
    ASSUME Inv, Probe PROVE Inv'
<1>1. /\ listing \in Listings /\ limit \in Limits /\ listing.length \in Nat
      /\ low \in Nat /\ high \in 0..listing.length /\ low < high /\ pc = "search"
      /\ listing.length > 0 /\ ExceedsTextLimits(listing.whole, limit) /\ NothingBeyond
  BY TruncationAssumption DEF Inv, TypeOK, SearchInv, Probe
<1>2. /\ Middle \in Nat /\ low < Middle /\ Middle <= high
      /\ Middle \in 0..listing.length
  BY <1>1, MiddleBetween DEF Middle
<1>3. UNCHANGED <<listing, limit, pc>>
  BY DEF Probe
<1>4. CASE FitsCut(Middle)
  <2>1. low' = Middle /\ high' = high
    BY <1>4 DEF Probe
  <2>2. FitsCut(low)'
    BY <1>3, <1>4, <2>1 DEF FitsCut
  <2>3. NothingBeyond'
    BY <1>1, <1>3, <2>1 DEF NothingBeyond, FitsCut
  <2>. QED
    BY <1>1, <1>2, <1>3, <2>1, <2>2, <2>3 DEF Inv, TypeOK, SearchInv, ResultInv
<1>5. CASE ~FitsCut(Middle)
  <2>1. high' = Middle - 1 /\ low' = low
    BY <1>5 DEF Probe
  <2>2. ASSUME NEW k \in Middle..listing.length PROVE ~FitsCut(k)
    BY <1>1, <1>2, <1>5, <2>2, ShorterFits DEF Inv
  <2>3. NothingBeyond'
    BY <1>2, <1>3, <2>1, <2>2 DEF NothingBeyond, FitsCut
  <2>4. (low = 0 \/ FitsCut(low))'
    BY <1>1, <1>3, <2>1 DEF Inv, SearchInv, FitsCut
  <2>. QED
    BY <1>1, <1>2, <1>3, <2>1, <2>3, <2>4 DEF Inv, TypeOK, SearchInv, ResultInv
<1>. QED
  BY <1>4, <1>5

\* An empty interval leaves the longest cut that fits.
LEMMA ConcludePreserves ==
    ASSUME Inv, Conclude PROVE Inv'
<1>0. /\ pc = "search" /\ low >= high /\ UNCHANGED <<listing, limit, low, high>>
      /\ pc' = IF FitsCut(low) THEN "shortened" ELSE "rejected"
  BY DEF Conclude
<1>a. low \in 0..high /\ high \in 0..listing.length /\ listing.length \in Nat
  BY TruncationAssumption DEF Inv, TypeOK
<1>1. /\ pc = "search" /\ low = high /\ UNCHANGED <<listing, limit, low, high>>
      /\ pc' = IF FitsCut(low) THEN "shortened" ELSE "rejected"
  BY <1>0, <1>a
<1>2. /\ ExceedsTextLimits(listing.whole, limit) /\ NothingBeyond
      /\ low = 0 \/ FitsCut(low)
  BY <1>1 DEF Inv, SearchInv
<1>3. TypeOK'
  BY <1>1 DEF Inv, TypeOK
<1>4. NothingBeyond' /\ (FitsCut(low))' = FitsCut(low) /\ (FitsCut(0))' = FitsCut(0)
  BY <1>1, <1>2 DEF NothingBeyond, FitsCut
<1>. QED
  BY <1>1, <1>2, <1>3, <1>4 DEF Inv, SearchInv, ResultInv

\* Once RenderBook has returned nothing changes.
LEMMA StutterPreserves ==
    ASSUME Inv, UNCHANGED vars PROVE Inv'
  BY DEF vars, Inv, TypeOK, SearchInv, ResultInv, NothingBeyond, FitsCut

\* Every step preserves the invariant.
LEMMA NextPreserves == Inv /\ [Next]_vars => Inv'
<1>. SUFFICES ASSUME Inv, [Next]_vars PROVE Inv'
  OBVIOUS
<1>1. CASE Measure
  BY <1>1, MeasurePreserves
<1>2. CASE Probe
  BY <1>2, ProbePreserves
<1>3. CASE Conclude
  BY <1>3, ConcludePreserves
<1>4. CASE Over
  BY <1>4, StutterPreserves DEF Over
<1>5. CASE UNCHANGED vars
  BY <1>5, StutterPreserves
<1>. QED
  BY <1>1, <1>2, <1>3, <1>4, <1>5 DEF Next

\* Every search of RenderBook satisfies the inductive invariant, whatever
\* the listing's sizes and the limits.
THEOREM Inductive == Spec => []Inv
  BY InitEstablishes, NextPreserves, PTL DEF Spec

-----------------------------------------------------------------------------

\* Every variable keeps its type and the search never leaves the content, so
\* that truncateContent never slices beyond it.
THEOREM TypeCorrect == Spec => []TypeOK
<1>1. Inv => TypeOK
  BY DEF Inv
<1>. QED
  BY <1>1, Inductive, PTL

\* A cut that is refused exceeds a limit, or has exactly message_limit runes:
\* truncateContent asks for one rune less than the limit, and sizes are whole.
LEMMA RefusedOrAtLimit ==
    ASSUME TypeOK, NEW k \in 0..listing.length, ~FitsCut(k)
    PROVE  ExceedsTextLimits(listing.cut[k], limit) \/ listing.cut[k].runes = limit
<1>1. listing \in Listings /\ limit \in Nat
  BY TruncationAssumption DEF TypeOK
<1>2. listing.cut[k] \in Size
  BY <1>1, TruncationAssumption
<1>3. listing.cut[k].runes \in Nat
  BY <1>2 DEF Size
<1>. QED
  BY <1>1, <1>3 DEF FitsCut, ExceedsTextLimits

\* For every content and every limit, a shortened listing leaves one rune of
\* message_limit, and a longer prefix that fits the limits of the README has
\* exactly message_limit runes.
THEOREM PrefixIsLongest == Spec => []LongestPrefixButAtLimit
<1>1. ASSUME Inv PROVE LongestPrefixButAtLimit
  <2>1. SUFFICES ASSUME pc = "shortened", NEW k \in (low + 1)..listing.length
                 PROVE  ExceedsTextLimits(listing.cut[k], limit) \/ listing.cut[k].runes = limit
    BY <1>1 DEF Inv, ResultInv, LongestPrefixButAtLimit
  <2>2. low = high /\ NothingBeyond
    BY <1>1, <2>1 DEF Inv, ResultInv
  <2>3. ~FitsCut(k)
    BY <2>1, <2>2 DEF NothingBeyond
  <2>4. low \in Nat /\ listing.length \in Nat
    BY <1>1, TruncationAssumption DEF Inv, TypeOK
  <2>5. k \in 0..listing.length
    BY <2>1, <2>4
  <2>. QED
    BY <1>1, <2>3, <2>5, RefusedOrAtLimit DEF Inv
<1>. QED
  BY <1>1, Inductive, PTL

\* A listing that RenderBook rejects has no prefix that fits the limits of the
\* README, but for one of exactly message_limit runes: no listing is lost to a
\* search that went wrong.
THEOREM RejectionIsJustified == Spec => []RejectedOnlyIfNothingFits
<1>1. ASSUME Inv PROVE RejectedOnlyIfNothingFits
  <2>1. SUFFICES ASSUME pc = "rejected", listing.length > 0, NEW k \in 0..listing.length
                 PROVE  ExceedsTextLimits(listing.cut[k], limit) \/ listing.cut[k].runes = limit
    BY <1>1 DEF Inv, ResultInv, RejectedOnlyIfNothingFits
  <2>2. high = 0 /\ NothingBeyond /\ ~FitsCut(0)
    BY <1>1, <2>1 DEF Inv, ResultInv
  <2>3. listing.length \in Nat
    BY <1>1, TruncationAssumption DEF Inv, TypeOK
  <2>4. k = 0 \/ k \in (high + 1)..listing.length
    BY <2>2, <2>3
  <2>5. ~FitsCut(k)
    BY <2>2, <2>4 DEF NothingBeyond
  <2>. QED
    BY <1>1, <2>5, RefusedOrAtLimit DEF Inv
<1>. QED
  BY <1>1, Inductive, PTL

\* Every probe halves what is left to search: rendering a listing takes at
\* most logarithmically many attempts, and the search cannot go on for ever.
THEOREM ProbesHalve == Spec => SearchHalves
<1>1. ASSUME Inv, Next, pc = "search", pc' = "search"
      PROVE  2 * (high' - low') <= high - low
  <2>1. /\ low \in Nat /\ high \in Nat
    BY <1>1, TruncationAssumption DEF Inv, TypeOK
  <2>2. Probe
    BY <1>1 DEF Next, Measure, Conclude, Over
  <2>3. low < high
    BY <2>2 DEF Probe
  <2>4. CASE FitsCut(Middle)
    <3>1. low' = Middle /\ high' = high
      BY <2>2, <2>4 DEF Probe
    <3>. QED
      BY <2>1, <2>3, <3>1, MiddleBetween DEF Middle
  <2>5. CASE ~FitsCut(Middle)
    <3>1. low' = low /\ high' = Middle - 1
      BY <2>2, <2>5 DEF Probe
    <3>. QED
      BY <2>1, <2>3, <3>1, MiddleBetween DEF Middle
  <2>. QED
    BY <2>4, <2>5
<1>2. Inv /\ [Next]_vars => [pc = "search" /\ pc' = "search" => 2 * (high' - low') <= high - low]_vars
  BY <1>1
<1>. QED
  BY <1>2, Inductive, PTL DEF Spec, SearchHalves
=============================================================================
