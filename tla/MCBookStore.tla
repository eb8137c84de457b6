---------------------------- MODULE MCBookStore -----------------------------
(* BookStore on files TLC can enumerate.                                   *)
EXTENDS BookStore

\* Records of the versions that gave no queue order, waiting for delivery or
\* delivered.
LegacyPending(t) == [observedAt |-> t, sentAt |-> 0, queueOrder |-> 0, sent |-> FALSE]
LegacySent(t)    == [observedAt |-> t, sentAt |-> t, queueOrder |-> 0, sent |-> TRUE]

\* A new file, or one that older versions left with nothing to deliver: it may
\* hold markers, delivered records and values that do not decode.
OldFile == {Absent, LegacyMarker, Corrupt, LegacySent(1)}

\* One that waits for delivery with listings of no queue order.
LegacyPendingFile == {Absent, LegacyPending(1)}
=============================================================================
