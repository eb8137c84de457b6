------------------------ MODULE MCContentTruncation -------------------------
(* Contents of up to four runes: plain ones, ones escaped as an entity, and *)
(* the carriage return that the following line feed absorbs.               *)
EXTENDS ContentTruncation, Sequences

Sized(runes, bytes) == [runes |-> runes, bytes |-> bytes]

Plus(a, b) == Sized(a.runes + b.runes, a.bytes + b.bytes)

Runes == {Sized(1, 1), Sized(1, 5), Sized(0, 0)}

Contents == UNION { [1..n -> Runes] : n \in 0..4 }

\* The text up to the content, the content's first k runes, and what follows.
Prefix(base, content, k) ==
    LET prefix[i \in 0..k] ==
            IF i = 0 THEN Plus(base, Sized(2, 4)) ELSE Plus(prefix[i-1], content[i])
    IN  prefix[k]

SomeListings ==
    { [length |-> Len(content),
       whole  |-> IF content = <<>> THEN base ELSE Prefix(base, content, Len(content)),
       cut    |-> [k \in 0..Len(content) |-> Plus(Prefix(base, content, k), Sized(1, 3))]]
      : base \in {Sized(1, 1), Sized(3, 5)}, content \in Contents }
=============================================================================
