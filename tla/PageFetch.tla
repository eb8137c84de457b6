----------------------------- MODULE PageFetch ------------------------------
(***************************************************************************)
(* Client.FetchWithResult of internal/alib: all configured pages are       *)
(* downloaded one after the other, each with retries, then all are parsed  *)
(* and their listings are joined.  Sellers repeat a listing on many pages, *)
(* and a listing may be malformed on one page and well formed on another.  *)
(*                                                                         *)
(* A page's body is the sequence of its listings.  A listing is what       *)
(* parseListing makes of a paragraph: its buy URL, if it has one, and      *)
(* whether the rest of it could be parsed.                                 *)
(***************************************************************************)
EXTENDS ListingText

CONSTANTS
    Pages,          \* how many pages are configured
    MaxRetries,     \* alib_max_retries
    Unreadable,     \* a body that is no HTML in a known encoding
    MaxListings     \* bound of the listings of a page, for model checking

ASSUME FetchAssumption ==
    /\ Pages \in Nat \ {0} /\ MaxRetries \in Nat /\ MaxListings \in Nat

\* What the paragraphs are that are listings at all.
Listings == { Listing(par) : par \in { p \in Paragraphs : Candidate(p) } }

Bodies == BoundedSeq(Listings, MaxListings) \cup {Unreadable}

VARIABLES
    delayed,        \* whether alib_download_delay is positive
    pc,             \* where FetchWithResult is, or how it returned
    cancelled,      \* its context is cancelled
    page,           \* the page that is downloaded or parsed
    attempt,        \* how often its download was attempted
    downloaded,     \* the bodies, as [page, body]
    pageErrors,     \* pages that could not be downloaded or parsed
    parsedPages,    \* how many pages were parsed
    state,          \* the listings joined so far
    unidentified    \* malformed listings without a buy URL

download == <<page, attempt, downloaded>>
joined   == <<parsedPages, state, unidentified>>
vars     == <<delayed, pc, cancelled, download, pageErrors, joined>>

-----------------------------------------------------------------------------
(* parseState: a book is the listing's buy URL and the page whose data of  *)
(* it are kept.                                                            *)

EmptyState == [books |-> <<>>, failed |-> {}, failedOrder |-> <<>>]

Seen(s) == { book.url : book \in ToSet(s.books) }

\* Mistaken: a failure is not taken back when the listing is parsed after all.
AddBookKeeping(s, book) ==
    IF book.url \in Seen(s) THEN s ELSE [s EXCEPT !.books = Append(@, book)]

\* Mistaken: the latest data of a listing are kept.
AddBookLatest(s, book) ==
    [s EXCEPT !.failed = @ \ {book.url},
              !.books = Append(SelectSeq(@, LAMBDA b : b.url # book.url), book)]

AddBook(s, book) ==
    [s EXCEPT !.failed = @ \ {book.url},
              !.books = IF book.url \in Seen(s) THEN @ ELSE Append(@, book)]

AddFailure(s, url) ==
    IF url \in Seen(s) \cup s.failed
    THEN s
    ELSE [s EXCEPT !.failed = @ \cup {url}, !.failedOrder = Append(@, url)]

FailedBuyURLs(s) ==
    LET urls[n \in 0..Len(s.failedOrder)] ==
            IF n = 0 THEN <<>>
            ELSE IF s.failedOrder[n] \in s.failed
                 THEN Append(urls[n-1], s.failedOrder[n])
                 ELSE urls[n-1]
    IN  urls[Len(s.failedOrder)]

AddListing(s, listing, p) ==
    IF listing.parsed THEN AddBook(s, [url |-> listing.url, page |-> p])
    ELSE IF listing.url = NoURL THEN s ELSE AddFailure(s, listing.url)

\* ParseWithResult
Parsed(body, p) ==
    LET parsed[n \in 0..Len(body)] ==
            IF n = 0 THEN EmptyState ELSE AddListing(parsed[n-1], body[n], p)
    IN  parsed[Len(body)]

Nameless(body) == Cardinality({ i \in DOMAIN body : body[i].url = NoURL })

\* ErrNoBooks, which keeps the failures
NoBooks(body, p) == Parsed(body, p).books = <<>> /\ Nameless(body) > 0

\* A page's failures are added to the result, then its books.
WithFailures(s, result) ==
    LET urls == FailedBuyURLs(result)
        told[n \in 0..Len(urls)] == IF n = 0 THEN s ELSE AddFailure(told[n-1], urls[n])
    IN  told[Len(urls)]

WithPage(s, result) ==
    LET told[n \in 0..Len(result.books)] ==
            IF n = 0 THEN WithFailures(s, result) ELSE AddBook(told[n-1], result.books[n])
    IN  told[Len(result.books)]

-----------------------------------------------------------------------------

Init ==
    /\ delayed \in BOOLEAN
    /\ pc = "attempting" /\ cancelled = FALSE
    /\ page = 1 /\ attempt = 1
    /\ downloaded = <<>> /\ pageErrors = {}
    /\ parsedPages = 0 /\ state = EmptyState /\ unidentified = 0

Cancel ==
    /\ ~cancelled
    /\ cancelled' = TRUE
    /\ UNCHANGED <<delayed, pc, download, pageErrors, joined>>

\* ctx.Err() is returned, with no listing at all.
ReturnCancelled ==
    /\ pc' = "cancelled"
    /\ UNCHANGED <<delayed, cancelled, download, pageErrors, joined>>

\* The next attempt; a request of a cancelled context fails at once.
Attempt(p, n) ==
    /\ page' = p /\ attempt' = n
    /\ pc' = IF cancelled THEN "cancelled" ELSE "attempting"

\* The page is done with; the next one waits for alib_download_delay.
NextPage ==
    IF page = Pages
    THEN pc' = "parsing" /\ page' = 1 /\ UNCHANGED attempt
    ELSE IF delayed
         THEN pc' = "delaying" /\ UNCHANGED <<page, attempt>>
         ELSE Attempt(page + 1, 1)

\* downloadPageAttempt reads a whole answer with status 200.
AttemptSucceeds ==
    /\ pc = "attempting"
    /\ \E body \in Bodies : downloaded' = Append(downloaded, [page |-> page, body |-> body])
    /\ NextPage
    /\ UNCHANGED <<delayed, cancelled, pageErrors, joined>>

\* A refused or broken connection, a timeout, another status, an answer that is
\* too large: each is retried, up to the limit.
AttemptFails ==
    /\ pc = "attempting" /\ ~cancelled
    /\ IF attempt <= MaxRetries
       THEN pc' = "retrying" /\ UNCHANGED <<page, attempt, pageErrors>>
       ELSE pageErrors' = pageErrors \cup {page} /\ NextPage
    /\ UNCHANGED <<delayed, cancelled, downloaded, joined>>

AttemptCancelled == pc = "attempting" /\ cancelled /\ ReturnCancelled

RetryWaitOver ==
    /\ pc = "retrying"
    /\ Attempt(page, attempt + 1)
    /\ UNCHANGED <<delayed, cancelled, downloaded, pageErrors, joined>>

DelayOver ==
    /\ pc = "delaying"
    /\ Attempt(page + 1, 1)
    /\ UNCHANGED <<delayed, cancelled, downloaded, pageErrors, joined>>

WaitCancelled == pc \in {"retrying", "delaying"} /\ cancelled /\ ReturnCancelled

\* From now on page counts the bodies.
AllParsed == page > Len(downloaded)

BeginPage ==
    /\ pc = "parsing" /\ ~AllParsed
    /\ IF cancelled
       THEN ReturnCancelled
       ELSE pc' = "reading" /\ UNCHANGED <<delayed, cancelled, download, pageErrors, joined>>

\* Mistaken: the context is not checked after the page.
EndPageUnchecked ==
    /\ pc = "reading"
    /\ LET p      == downloaded[page].page
           body   == downloaded[page].body
       IN  IF body = Unreadable \/ NoBooks(body, p)
           THEN pageErrors' = pageErrors \cup {p} /\ UNCHANGED joined
           ELSE /\ state' = WithPage(state, Parsed(body, p))
                /\ unidentified' = unidentified + Nameless(body)
                /\ parsedPages' = parsedPages + 1
                /\ UNCHANGED pageErrors
    /\ pc' = "parsing" /\ page' = page + 1
    /\ UNCHANGED <<delayed, cancelled, attempt, downloaded>>

\* The page was parsed while the context lived.
EndPage ==
    /\ pc = "reading" /\ ~cancelled
    /\ LET p      == downloaded[page].page
           body   == downloaded[page].body
           result == Parsed(body, p)
       IN  \/ /\ body = Unreadable
              /\ pageErrors' = pageErrors \cup {p}
              /\ UNCHANGED joined
           \/ /\ body # Unreadable /\ NoBooks(body, p)
              /\ pageErrors' = pageErrors \cup {p}
              /\ state' = WithFailures(state, result)
              /\ unidentified' = unidentified + Nameless(body)
              /\ UNCHANGED parsedPages
           \/ /\ body # Unreadable /\ ~NoBooks(body, p)
              /\ state' = WithPage(state, result)
              /\ unidentified' = unidentified + Nameless(body)
              /\ parsedPages' = parsedPages + 1
              /\ UNCHANGED pageErrors
    /\ pc' = "parsing" /\ page' = page + 1
    /\ UNCHANGED <<delayed, cancelled, attempt, downloaded>>

PageCancelled == pc = "reading" /\ cancelled /\ ReturnCancelled

\* Mistaken: one failed page fails the fetch.
ReturnOnlyAll ==
    /\ pc = "parsing" /\ AllParsed
    /\ pc' = IF parsedPages < Pages THEN "failed" ELSE "returned"
    /\ UNCHANGED <<delayed, cancelled, download, pageErrors, joined>>

Return ==
    /\ pc = "parsing" /\ AllParsed
    /\ pc' = IF parsedPages = 0 THEN "failed" ELSE "returned"
    /\ UNCHANGED <<delayed, cancelled, download, pageErrors, joined>>

\* FetchWithResult has returned.
Over == pc \in {"returned", "failed", "cancelled"} /\ UNCHANGED vars

Proceed ==
    \/ AttemptSucceeds \/ AttemptFails \/ AttemptCancelled
    \/ RetryWaitOver \/ DelayOver \/ WaitCancelled
    \/ BeginPage \/ EndPage \/ PageCancelled \/ Return

Next == Proceed \/ Cancel \/ Over

Spec == Init /\ [][Next]_vars

-----------------------------------------------------------------------------
(* Properties                                                              *)

Books == [url : URLs, page : 1..Pages]

\* Every variable has its type.
TypeOK ==
    /\ delayed \in BOOLEAN
    /\ pc \in {"attempting", "retrying", "delaying", "parsing", "reading",
               "returned", "failed", "cancelled"}
    /\ cancelled \in BOOLEAN
    /\ page \in 1..Pages + 1 /\ attempt \in Nat
    /\ downloaded \in Seq([page : 1..Pages, body : Bodies])
    /\ pageErrors \subseteq 1..Pages /\ parsedPages \in 0..Pages
    /\ state \in [books : Seq(Books), failed : SUBSET URLs, failedOrder : Seq(URLs)]
    /\ unidentified \in Nat

\* The readable bodies, and those of them that are parsed without an error:
\* they hold a well-formed listing, or none that could not be identified.
Readable == { i \in DOMAIN downloaded : downloaded[i].body # Unreadable }

On(i) == ToSet(downloaded[i].body)

Accepted == { i \in Readable : (\E l \in On(i) : l.parsed) \/ (\A l \in On(i) : l.url # NoURL) }

WellFormed(i, url) == [url |-> url, parsed |-> TRUE] \in On(i)

Malformed(i, url) == [url |-> url, parsed |-> FALSE] \in On(i)

\* The result has every listing that is well formed somewhere, and as failed
\* those that are malformed everywhere, whatever the order of pages and
\* listings: no listing is in both lists, in one of them twice, or lost.
EveryListingAccountedFor ==
    pc = "returned" =>
        /\ Seen(state) = { url \in URLs : \E i \in Accepted : WellFormed(i, url) }
        /\ ToSet(FailedBuyURLs(state)) =
              { url \in URLs \ Seen(state) : \E i \in Readable : Malformed(i, url) }
        /\ Len(state.books) = Cardinality(Seen(state))
        /\ IsInjective(FailedBuyURLs(state))

\* Of a listing on several pages the data of the first page are kept, and the
\* listings come in the order of the pages, in which queue orders are given.
FirstPageWins ==
    pc = "returned" =>
        /\ \A i, j \in DOMAIN state.books : i < j => state.books[i].page <= state.books[j].page
        /\ \A book \in ToSet(state.books) : \A i \in Readable :
              WellFormed(i, book.url) => book.page <= downloaded[i].page

\* The fetch fails only if every page did, each after one attempt and
\* alib_max_retries more: one page that can be parsed is enough for a digest,
\* and every other page's error is known.
FailsOnlyWithEveryPage ==
    /\ attempt <= MaxRetries + 1
    /\ pc = "failed" => pageErrors = 1..Pages
    /\ pc = "returned" => Cardinality(pageErrors) = Pages - Cardinality(Accepted)

\* The paragraphs that parse, and have a text in the wrong field, in none, or
\* a slice out of range.
Misread == { par \in Paragraphs : Parses(par) /\ ~FieldsAreInPlace(par) }

\* Whatever order a paragraph has its parts in, reading it does not panic,
\* and no text of a listing in Alib's layout is lost or told twice.
EveryTextInItsField == pc = "reading" => Misread = {}

\* A cancelled fetch never returns what it has joined so far, which would lack
\* the listings of later pages and take their failures for none: after the
\* cancellation no further page is joined, and listings are returned only if
\* none was missing.
NothingAfterCancellation ==
    [][cancelled => state' = state /\ (pc' = "returned" /\ pc # "returned" => AllParsed)]_vars

=============================================================================
