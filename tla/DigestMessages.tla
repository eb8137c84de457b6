--------------------------- MODULE DigestMessages ---------------------------
(***************************************************************************)
(* The ways a digest may be cut into messages: DigestCycle delivers any of *)
(* them, and DigestChunking shows that RenderSendable produces one.        *)
(***************************************************************************)
EXTENDS Naturals, Sequences

\* The list in order, every message but the first (a header of its own) and
\* the last (a failure summary, or the notification that there is nothing new)
\* with at least one listing.
Chunkings(list) ==
    UNION { { [i \in 1..n |-> SubSeq(list, cut[i-1] + 1, cut[i])]
              : cut \in { c \in [0..n -> 0..Len(list)] :
                             /\ c[0] = 0 /\ c[n] = Len(list)
                             /\ \A i \in 1..n :
                                   c[i-1] < c[i] \/ (c[i-1] = c[i] /\ i \in {1, n}) } }
            : n \in 1..Len(list) + 2 }
=============================================================================
