--------------------------- MODULE DigestChunking ---------------------------
(***************************************************************************)
(* RenderSendable of internal/digest/render.go: how the pending listings   *)
(* are packed into Telegram messages.  A message has three limits: runes   *)
(* that are displayed, bytes of HTML and rich message blocks.  Texts are   *)
(* their sizes; a listing is what RenderBook made of it, which may still   *)
(* be too large.  One step handles one listing.                            *)
(***************************************************************************)
EXTENDS DigestMessages, FiniteSets

CONSTANTS
    Sizes,          \* sizes a rendered listing may have: [runes, bytes]
    MaxListings,    \* bound of the listings of a digest, for model checking
    Limits,         \* the values of message_limit
    ByteLimit,      \* richMessageHTMLByteLimit
    BlockLimit,     \* richMessageBlockLimit
    Header, Summary, Notice,    \* sizes of the fixed texts
    SectionBreak, Separator     \* sizes of what stands between texts

Size == [runes : Nat, bytes : Nat]

ASSUME ChunkingAssumption ==
    /\ Sizes \subseteq Size /\ MaxListings \in Nat
    /\ Limits \subseteq Nat /\ ByteLimit \in Nat /\ BlockLimit \in Nat \ {0}
    /\ {Header, Summary, Notice, SectionBreak, Separator} \subseteq Size

VARIABLES
    listings,   \* the rendered listings of the digest, in order
    failures,   \* listings of the fetch could not be parsed
    limit,      \* message_limit
    pc,         \* where RenderSendable is
    next,       \* the listing that is handled next
    chunks,     \* the messages that are complete
    current,    \* the message that grows
    blocks      \* how many blocks the code counts in it

inputs == <<listings, failures, limit>>
vars   == <<inputs, pc, next, chunks, current, blocks>>

-----------------------------------------------------------------------------
(* Sizes                                                                   *)

Nothing == [runes |-> 0, bytes |-> 0]

a ++ b == [runes |-> a.runes + b.runes, bytes |-> a.bytes + b.bytes]

If(condition, size) == IF condition THEN size ELSE Nothing

\* A message: its header, its listings (as indices) and its closing text.
Chunk == [header : BOOLEAN, books : Seq(Nat), closing : {"none", "summary", "notice"}]

Text(header, books, closing) == [header |-> header, books |-> books, closing |-> closing]

\* Listings and the rules between them, texts being the sizes of all listings.
Total(texts, books) ==
    LET total[n \in 0..Len(books)] ==
            IF n = 0 THEN Nothing
            ELSE total[n-1] ++ If(n > 1, Separator) ++ texts[books[n]]
    IN  total[Len(books)]

TextSize(c) ==
    If(c.header, Header)
    ++ If(c.header /\ (c.books # <<>> \/ c.closing # "none"), SectionBreak)
    ++ Total(listings, c.books)
    ++ If(c.books # <<>> /\ c.closing # "none", Separator)
    ++ If(c.closing = "summary", Summary) ++ If(c.closing = "notice", Notice)

ExceedsTextLimits(size) == size.runes > limit \/ size.bytes > ByteLimit

ChunkExceedsLimits(n, c) == n > BlockLimit \/ ExceedsTextLimits(TextSize(c))

\* The listings that RenderBook rejects.
Skipped == { k \in DOMAIN listings : ExceedsTextLimits(listings[k]) }

-----------------------------------------------------------------------------
(* RenderSendable                                                          *)

Init ==
    /\ listings \in UNION { [1..n -> Sizes] : n \in 0..MaxListings }
    /\ failures \in BOOLEAN
    /\ limit \in Limits
    /\ pc = "begin" /\ next = 1
    /\ chunks = <<>> /\ current = Text(TRUE, <<>>, "none") /\ blocks = 0

Return(result) ==
    /\ pc' = "returned" /\ chunks' = result
    /\ UNCHANGED <<inputs, next, current, blocks>>

\* ErrMessageTooLong
Reject ==
    /\ pc' = "rejected" /\ chunks' = <<>>
    /\ UNCHANGED <<inputs, next, current, blocks>>

NothingToSend ==
    /\ pc = "begin" /\ listings = <<>> /\ ~failures
    /\ IF ExceedsTextLimits(Notice) THEN Reject ELSE Return(<<Text(FALSE, <<>>, "notice")>>)

Begin ==
    /\ pc = "begin" /\ listings # <<>>
    /\ IF ExceedsTextLimits(Header)
       THEN Reject
       ELSE pc' = "listing" /\ UNCHANGED <<inputs, next, chunks, current, blocks>>

SkipBook ==
    /\ pc = "listing" /\ next \in Skipped
    /\ next' = next + 1
    /\ UNCHANGED <<inputs, pc, chunks, current, blocks>>

\* Mistaken: the rule between two listings is not counted as a block.
AppendBookUnruled ==
    /\ pc = "listing" /\ next \in DOMAIN listings \ Skipped
    /\ LET grown     == [current EXCEPT !.books = Append(@, next)]
           candidate == blocks + 1
       IN  IF ChunkExceedsLimits(candidate, grown)
           THEN /\ chunks' = Append(chunks, current)
                /\ current' = Text(FALSE, <<next>>, "none")
                /\ blocks' = 1
           ELSE current' = grown /\ blocks' = candidate /\ UNCHANGED chunks
    /\ next' = next + 1
    /\ UNCHANGED <<inputs, pc>>

\* Mistaken: the listing that starts a new message is not put into it.
AppendBookDropping ==
    /\ pc = "listing" /\ next \in DOMAIN listings \ Skipped
    /\ LET grown     == [current EXCEPT !.books = Append(@, next)]
           candidate == blocks + IF current.books # <<>> THEN 2 ELSE 1
       IN  IF ChunkExceedsLimits(candidate, grown)
           THEN /\ chunks' = Append(chunks, current)
                /\ current' = Text(FALSE, <<>>, "none")
                /\ blocks' = 0
           ELSE current' = grown /\ blocks' = candidate /\ UNCHANGED chunks
    /\ next' = next + 1
    /\ UNCHANGED <<inputs, pc>>

\* Mistaken: a rule is counted before the first listing, too.
AppendBookOvercounting ==
    /\ pc = "listing" /\ next \in DOMAIN listings \ Skipped
    /\ LET grown     == [current EXCEPT !.books = Append(@, next)]
           candidate == blocks + 2
       IN  IF ChunkExceedsLimits(candidate, grown)
           THEN /\ chunks' = Append(chunks, current)
                /\ current' = Text(FALSE, <<next>>, "none")
                /\ blocks' = 2
           ELSE current' = grown /\ blocks' = candidate /\ UNCHANGED chunks
    /\ next' = next + 1
    /\ UNCHANGED <<inputs, pc>>

\* appendBook: the listing joins the current message or begins the next one.
AppendBook ==
    /\ pc = "listing" /\ next \in DOMAIN listings \ Skipped
    /\ LET grown     == [current EXCEPT !.books = Append(@, next)]
           candidate == blocks + IF current.books # <<>> THEN 2 ELSE 1
       IN  IF ChunkExceedsLimits(candidate, grown)
           THEN /\ chunks' = Append(chunks, current)
                /\ current' = Text(FALSE, <<next>>, "none")
                /\ blocks' = 1
           ELSE current' = grown /\ blocks' = candidate /\ UNCHANGED chunks
    /\ next' = next + 1
    /\ UNCHANGED <<inputs, pc>>

Listed == pc = "listing" /\ next > Len(listings)

\* renderFailureSummary: nothing but failures to tell.
SummaryOnly ==
    /\ (pc = "begin" /\ listings = <<>> /\ failures) \/ (Listed /\ current.books = <<>>)
    /\ IF ExceedsTextLimits(Summary)
       THEN Reject
       ELSE IF ~ChunkExceedsLimits(1, Text(TRUE, <<>>, "summary"))
            THEN Return(<<Text(TRUE, <<>>, "summary")>>)
            ELSE IF ExceedsTextLimits(Header)
                 THEN Reject
                 ELSE Return(<<Text(TRUE, <<>>, "none"), Text(FALSE, <<>>, "summary")>>)

\* Mistaken: only failures of the fetch are told.
FinishForgetful ==
    /\ Listed /\ current.books # <<>>
    /\ ~failures
    /\ Return(Append(chunks, current))

Finish ==
    /\ Listed /\ current.books # <<>>
    /\ ~failures /\ Skipped = {}
    /\ Return(Append(chunks, current))

FinishWithSummary ==
    /\ Listed /\ current.books # <<>>
    /\ failures \/ Skipped # {}
    /\ LET closed == [current EXCEPT !.closing = "summary"]
       IN  Return(IF ChunkExceedsLimits(blocks + 2, closed)
                  THEN chunks \o <<current, Text(FALSE, <<>>, "summary")>>
                  ELSE Append(chunks, closed))

\* RenderSendable has returned.
Over == pc \in {"returned", "rejected"} /\ UNCHANGED vars

Next ==
    \/ NothingToSend \/ Begin \/ SkipBook \/ AppendBook
    \/ SummaryOnly \/ Finish \/ FinishWithSummary \/ Over

Spec == Init /\ [][Next]_vars
-----------------------------------------------------------------------------
(* Properties                                                              *)

\* Every variable has its type; the code never counts more blocks than a
\* message may have.
TypeOK ==
    /\ listings \in Seq(Sizes) /\ failures \in BOOLEAN /\ limit \in Limits
    /\ pc \in {"begin", "listing", "returned", "rejected"}
    /\ next \in 1..Len(listings) + 1
    /\ chunks \in Seq(Chunk) /\ current \in Chunk
    /\ blocks \in 0..BlockLimit

\* The blocks a message has: its listings, the rules between them, and the
\* failure summary with the rule before it.  A header shares the block of what
\* follows it.
Blocks(c) ==
    LET n == Len(c.books) + IF c.closing = "none" THEN 0 ELSE 1
    IN  IF n = 0 THEN 1 ELSE 2 * n - 1

Fits(c) == Blocks(c) <= BlockLimit /\ ~ExceedsTextLimits(TextSize(c))

\* Every message keeps within the three limits.  The code does not measure a
\* summary that gets a message of its own; config.go's lowest message_limit
\* has room for it.
MessagesFit ==
    pc = "returned" /\ ~ExceedsTextLimits(Summary) => \A i \in DOMAIN chunks : Fits(chunks[i])

\* The listings that fit a message, in order: the k-th of them is the one that
\* follows k - 1 others.
Rank(S, n) == Cardinality({ m \in S : m < n })

Enumerated(S) == [k \in 1..Cardinality(S) |-> CHOOSE n \in S : Rank(S, n) = k - 1]

Sendable == Enumerated(DOMAIN listings \ Skipped)

\* The messages carry every listing that fits one, once and in order, and are
\* cut as DigestCycle supposes.
ListingsSentOnceInOrder ==
    pc = "returned" => [i \in DOMAIN chunks |-> chunks[i].books] \in Chunkings(Sendable)

\* When a listing failed, here or in the fetch, the last message says so, and
\* no other does.
FailuresAreTold ==
    pc = "returned" =>
        \A i \in DOMAIN chunks :
            chunks[i].closing = "summary" <=>
                i = Len(chunks) /\ (failures \/ Skipped # {})

\* The same texts cut in every possible way.
Alternatives ==
    LET closing == IF failures \/ Skipped # {} THEN "summary" ELSE "none"
    IN  { [i \in DOMAIN lists |->
             Text(i = 1, lists[i], IF i = Len(lists) THEN closing ELSE "none")]
          : lists \in Chunkings(Sendable) }

\* No other way to cut the digest needs fewer messages: each costs the chat a
\* notification and the bot a share of its rate limit.
FewestMessages ==
    pc = "returned" /\ listings # <<>> /\ ~ExceedsTextLimits(Summary) =>
        \A other \in Alternatives :
            (\A i \in DOMAIN other : Fits(other[i])) => Len(chunks) <= Len(other)
=============================================================================
