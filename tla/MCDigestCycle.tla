--------------------------- MODULE MCDigestCycle ----------------------------
(* DigestCycle with two listings: one of this year, one of unknown year.   *)
EXTENDS DigestCycle

CONSTANT Undated    \* the listings whose year is unknown

YearOf == [k \in Keys |-> IF k \in Undated THEN 0 ELSE 2026]
=============================================================================
