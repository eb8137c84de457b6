-------------------------- MODULE MCDigestChunking --------------------------
(* Texts of a few runes.  A rune takes one byte or three, so that listings  *)
(* meet either text limit first.                                           *)
EXTENDS DigestChunking

Text1 == [runes |-> 1, bytes |-> 1]
Text2 == [runes |-> 2, bytes |-> 2]
Wide2 == [runes |-> 2, bytes |-> 6]
Text5 == [runes |-> 5, bytes |-> 5]
Text8 == [runes |-> 8, bytes |-> 8]

SomeSizes    == {Text1, Wide2, Text5, Text8}
HeaderSize   == Text2
SummarySize  == [runes |-> 3, bytes |-> 4]
NoticeSize   == [runes |-> 3, bytes |-> 3]
BreakSize    == [runes |-> 1, bytes |-> 2]
RuleSize     == [runes |-> 0, bytes |-> 1]
=============================================================================
