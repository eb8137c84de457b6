# alib-fetcher in TLA+

alib-fetcher watches search pages of the book market Alib for a number of
Telegram chats and posts new listings to each chat as digests.  These modules
model the parts of it in which something can go wrong that a unit test would
hardly reach; TLC checks them on small instances and TLAPS proves the results
under [What is proved](#what-is-proved) for every instance.  `PROJECT.json`
maps each definition to the lines of `src/` it stands for.

Run from this directory:

    tlc -workers 2 -config BookStore.cfg MCBookStore
    tlapm BookStoreProofs.tla

## The system

| part | code | state | operations |
| --- | --- | --- | --- |
| state store | `internal/store/store.go` | one bbolt file per chat: buy URL -> record (observed, sent, queue order), bucket sequence | `Open` (migrates), `RecordDiscovered`, `Pending`, `MarkSent`, `Prune`, `DeleteLatest`, `Close` |
| digest service | `internal/app/service.go`, `internal/process/job.go` | one digest: listings, failures, messages still to send | `Run`: prune, fetch, record, load, send and mark message by message; `ForgetLatestForChat` |
| digest rendering | `internal/digest/render.go` | the message that grows | `RenderSendable`, `RenderBook`, `truncateContent` |
| Alib client and parser | `internal/alib` | bodies, listings joined so far | `FetchWithResult`: download with retries, parse, join; `parseListing`: the fields of a listing |
| service process | `internal/process` | runners with a lock each, a generation of them per configuration, scheduler, callback poller | `RunReloadable`, `reloadGeneration`, `serviceGeneration.run` and `stop`, `digestRunner` |
| Telegram client | `internal/telegram` | polling offset, registered callbacks | `Send`, `AnswerCallback`, `RemoveReplyMarkup`, `ListenCallbacks`, `SetTimeout` |
| configuration | `internal/config` | none; it reads the state directory | read, validate, give each chat a state file and pages |
| command line | `cmd/alib-fetcher` | the clients of the bots, kept across configurations | arguments, modes, selection of chats, exit status |

**How they interact.**  The main loop owns a *generation*: the runners of one
configuration, a cron scheduler and a poller for each Telegram token.  Startup,
schedule and refresh button start digests on the chat's runner, whose lock
admits one at a time.  A digest opens the chat's state file, runs the service
and closes the file.  The service asks the client for listings, records them
in one transaction, reads back what is pending, has it rendered into messages,
and for each message calls Telegram and then marks its listings sent.  Command
lines (`-once`, `-forget-latest`) do the same on the same files from processes
of their own; bbolt's file lock is all that separates them.  When the
configuration file changes, the main loop stops admitting digests, waits for
those that run, and starts the next generation.

**What is hard.**

* Delivery and its record are two systems without a common transaction: the
  process may die, or the answer be lost, between Telegram's acceptance and
  `MarkSent`.
* The list of pending listings is read once and used over many network calls.
* Each store operation is a loop in a transaction that a cancellation, an error
  or a crash may leave at any iteration.
* State files of older versions hold markers, and records without a queue
  order, which are treated differently in three comparators.
* Three kinds of goroutines start digests while another stops them; the file
  may change again, or become invalid, while the old digests are waited for.
* Messages have three independent limits, which texts may meet exactly.
* A listing may be malformed on one page and well formed on the next, and its
  parts may come in an order its parser did not expect.
* A bot's client outlives the configurations that use it, while its polling is
  stopped at any moment, with updates fetched, queued and being handled.
* An answer of Telegram that breaks off says nothing about what was done.
* State files are kept apart by name, but file systems and links identify names
  in ways of their own.

The properties that make each part correct are listed with its run below;
`PROJECT.json` lists the hazards line by line with the properties that address
each, including those that no property covers yet.

## Modules

| module | models |
| --- | --- |
| `BookRecords` | the values of the bucket and what each operation does to one of them, or to all at once; the comparators |
| `BookLedger` | abstract: every store operation is one atomic step |
| `BookStore` | the store: operations as transactions of one step per listing, with migration, cancellation, crash, and the file lock |
| `BookStoreProofs` | theorems on `BookStore`: its safety, and that it implements `BookLedger` |
| `BotCalls` | what an answer of the Bot API is taken for, and what it may mean |
| `Outbox` | abstract: at-least-once delivery of a set of listings |
| `DigestMessages` | the ways a list of listings may be cut into messages |
| `DigestCycle` | digests and the forget command of several processes on one state file and one chat |
| `DigestCycleProofs` | theorems on `DigestCycle`: its safety, and that it implements `Outbox` |
| `DigestChunking` | `RenderSendable`: packing listings into messages |
| `DigestChunkingProofs` | theorems on `DigestChunking` |
| `ContentTruncation` | `RenderBook` and `truncateContent`: shortening one listing |
| `ContentTruncationProofs` | theorems on `ContentTruncation` |
| `PageFetch` | `FetchWithResult`: downloads, retries, cancellation, joining of pages |
| `PageFetchProofs` | theorems on `PageFetch` and `ListingText` |
| `ServiceGenerations` | runners, generations, reload, shutdown |
| `ServiceGenerationsProofs` | theorems on `ServiceGenerations` |
| `ListingText` | `parseListing`: whether a paragraph is a listing, and the fields of its texts |
| `PressInbox` | abstract: presses handled once and in order |
| `CallbackPolling` | presses from Telegram to the digest they start, over reloads |
| `CallbackPollingProofs` | theorems on `CallbackPolling`: its safety, and that it implements `PressInbox` |
| `StateMapping` | which state file a chat has, and when two collide |
| `SearchSources` | the pages a search asks for |
| `CommandRun` | one run of the program, from arguments to exit status |
| `CommandRunProofs` | theorems on `CommandRun`, `StateMapping` and `SearchSources` |
| `MC*` | values of constants for TLC |

They compose as follows.  `DigestCycle` uses the operators of `BookRecords`
that act on all records at once; `BookStore` shows that the store's loops,
interrupted anywhere, have exactly that effect (`ImplementsLedger`).
`DigestCycle` delivers any of the cuttings of `DigestMessages`;
`DigestChunking` shows that `RenderSendable` yields one of them
(`ListingsSentOnceInOrder`).  `DigestChunking` and `DigestCycle` take a listing
that does not fit as an input; `ContentTruncation` shows when that happens.
`DigestCycle`'s `Fetch` returns any listings and any failures that are not
among them; `PageFetch` shows that the two are disjoint.  `PageFetch` knows of
a paragraph only what `Listing` of `ListingText` says of it.  Whether a call of
`DigestCycle` succeeds, fails or is to be repeated, and what the chat has got
then, are the outcomes `BotCalls` computes from all answers.  What a digest
does while it holds its runner's lock is `DigestCycle`; who may hold it is
`ServiceGenerations`, whose reload `CallbackPolling` repeats in fewer steps
around several pollers.  `DigestCycle` has one chat with one file;
`NoSharedStateFile` of `CommandRun` shows that the chats of a configuration do
not share one.

A definition whose comment begins with "Mistaken" is an operation with a
plausible bug in it.  No specification uses these: they are there to show that
each property fails when the code is wrong.

### The store: `BookRecords`, `BookStore`, `BookLedger`

`recs` and `sequence` are the committed bucket and its sequence, `tx` the
transaction: a working copy, the sequence as the transaction sees it, and the
listings its loop has still to visit.  `DiscoverOne`, `MarkOne`, `PruneOne` and
`ForgetOne` are the bodies of the loops, `Commit` and `Rollback` what
`DB.Update` does with the result.  `Rollback` and `Crash` are enabled between
any two iterations.  Keys are natural numbers because only the byte order of
buy URLs matters; times are natural numbers, 0 being a time never written.
The payload of a listing is left out: no operation branches on it.  So is,
therefore, that `RecordDiscovered` replaces titles and photos by newer ones.
The migration is one step: it runs in one transaction inside `Open`, before
anybody else can see the file.

### The digest: `DigestCycle`, `Outbox`

Each process has a `job` whose `pc` follows `Service.Run`.  `copies` counts how
often the chat got each listing, `lostAcks` how many of those copies were not
marked, and `bare` tells whether a button was removed and none has come since;
these are history, which the code does not keep.  Every step may fail
(`StepFails`), a call may fail whether Telegram has done it or not
(`SendFails`, `RemoveFails`), marking may fail (`MarkFails`) and the process
may die (`Crash`); all of them count as faults.  Rate limits are not faults and
are not limited.

`BotCalls` lists the answers to a call: no answer, or a status with a body that
breaks off, is too large, is no reply of the API, or is one.  `CallError` is
what the code makes of it; `Failures`, `Retries` and `Successes` are whether
Telegram has done what was asked in each case.  That `Retries` is `{FALSE}` and
`Successes` is `{TRUE}` is what `CopiesAreAccountedFor` rests on.

`ImplementsOutbox` maps a record that is absent, unsent or sent to *unknown*,
*queued* and *settled*: listings are posted only while queued, settled only
after they were posted, and forgotten only when settled or when the operator
asks for it.

### Rendering: `DigestChunking`, `ContentTruncation`

A text is its size, in displayed runes and in bytes of HTML.  `DigestChunking`
keeps the code's counter of blocks and compares it, in `MessagesFit`, with the
blocks a message has by the rules of its layout.  `ContentTruncation` knows the
size of a listing with each prefix of its content; the assumption is that a
longer prefix never makes the text smaller, which holds since a rune adds a
displayed rune, a line break, or nothing, and its bytes.

### Pages: `PageFetch`, `ListingText`

A page's body is a sequence of listings, each of which has a buy URL or none
and could be parsed or not.  `parseState` is modelled with its three
collections.  A paragraph, in `ListingText`, is the sequence of its elements,
and a field is the set of the places of its texts.  The code's positions (line
and part) are computed from places; `Bounds` are those of them that the code
allocates or slices with, unguarded by a comparison of its own.  The first loop downloads all pages, the second parses and joins
them; the context may be cancelled at any moment.  The time a retry or a
delay takes is left out, that it may be interrupted is not.

### The service: `ServiceGenerations`

`main` is the main loop, `phase` the goroutine of a generation, `poller` its
callback worker, and each member of `Tasks` a goroutine that runs one digest.
A critical section under a runner's lifecycle mutex that does not block is one
step.  `stopping`, `lock` and the tasks' `admitted` state are the runner's
flag, its mutex and its wait group.  `file` is what the configuration file
holds, which the environment may change up to `MaxEdits` times, to a valid
configuration or to `Invalid`.

The effect of a digest is not part of this module, nor which chat a press
belongs to; a generation has one poller here.

### The presses: `CallbackPolling`, `PressInbox`

`presses` is what Telegram has for each bot, `offset` and `channel` are the
client's, `handlers` the callbacks registered with it.  A listener is known by
its generation and the first recipient of its group, and has a poller (`poll`,
`upto`) and a worker (`work`, `serving`).  `PollReturns`, `HandOn` and
`LoseUpdate` follow the SDK's `getUpdates`, which stores the number of an update
before it queues it; `TakeUpdate` is its worker, calling the first handler that
matches, with the handler's choice of a recipient.  `select` between a queued
update and a cancelled context is a free choice.  The client has
one worker, the SDK's default, which calls handlers synchronously, as the code
asks it to.

`ImplementsInbox` maps the client's queue, the update being queued and what
Telegram still has to one inbox per bot, of which a press is taken only from
the front, and dropped only while polling is stopped.

### One run: `CommandRun`, `StateMapping`, `SearchSources`

The initial states are cases of arguments, a configuration file and a
directory.  `StateMapping` abstracts a directory to what names lead to: nothing,
a file, or a link, on a file system that does or does not fold names; a chain of
links is one link.  Opening a name creates the file at its `Place`, so that two
names of absent files may become one.  `SearchSources` yields the pages in the
code's order: categories, filters in form order, queries, each URL once.  The
digests of a one-shot run work at the same time, each with its own result.

## What the runs check

| run | properties | bounds | result |
| --- | --- | --- | --- |
| `BookStore` | `QueueOrdersUnique`, `OpenFileIsReadable`, `PendingOrderIsTotal`, `QueueFollowsDiscovery`, `DiscoveryIsStable`, `ForgetReversesDiscovery`, `ImplementsLedger` | 3 listings, each absent at first, a marker, corrupt, or an old delivered record; times 1..3, 4 queue orders | pass, 1 572 339 states |
| `BookStore_legacy_forget` | `ForgetReversesDiscovery` | 2 listings, each absent or an old pending record | **violated** |
| `DigestCycle_safety` | `UndeliveredStayPending`, `CopiesAreAccountedFor`, `OneSoundOneButton`, `NoRepeatWithinRetention`, `ImplementsOutbox` | 2 listings, a service and a command line, 2 faults, times 1..3 | pass, 3 070 191 states |
| `DigestCycle_live` | `EventuallySettled`, `ButtonReturns` | the same with 1 fault and a clock that stands still | pass, 22 248 states |
| `ServiceGenerations_safety` | `OneDigestPerChat`, `OnlyCurrentSettingsRun`, `GreetedOnce`, `NoAdmissionWhileWaiting` | 2 chats, 3 configurations, one that cannot be prepared, 3 digests at a time, 3 generations, 2 edits | pass, 919 931 states |
| `ServiceGenerations_live` | `StopEnds`, `ShutdownEnds`, `SettingsConverge` | 2 chats, 2 configurations, 1 digest at a time, 3 generations, 2 edits | pass, 24 213 states |
| `ServiceGenerations_greeting` | `NewChatIsGreeted` | 2 chats, 3 configurations, 3 generations | **violated** |
| `DigestChunking` | `MessagesFit`, `ListingsSentOnceInOrder`, `FailuresAreTold`, `FewestMessages` | up to 4 listings of 4 sizes, 4 rune limits, 13 bytes, 5 blocks | pass, 15 008 states |
| `ContentTruncation` | `LongestPrefixButAtLimit`, `RejectedOnlyIfNothingFits`, `SearchHalves` | contents of up to 4 runes of 3 kinds, 5 rune limits, 15 bytes | pass, 4 930 states |
| `PageFetch` | `EveryListingAccountedFor`, `FirstPageWins`, `FailsOnlyWithEveryPage`, `EveryTextInItsField`, `NothingAfterCancellation` | 2 pages of up to 2 listings of 2 buy URLs, or none, 2 retries; 32 009 paragraphs | pass, 89 503 states |
| `CallbackPolling` | `OneListenerPerBot`, `PressStartsItsDigest`, `ImplementsInbox`, `PressesAreHandled` | 2 bots, 2 chats, 3 configurations, 2 generations, 2 presses, a queue of 1 | pass, 237 024 states |
| `CommandRun` | `NoSharedStateFile`, `SourcesAsConfigured`, `ExitStatusTells` | every command line; 2 chats with 5 file names in 96 directories; searches of up to 3 categories and 2 queries over 3 form fields | pass, 180 400 states |

What each passing run shows is its `about` in `PROJECT.json`.  Modules define a
`TypeOK`; it is a conjunct of each inductive invariant and a theorem of its own,
so that no run spends a property on it.

**Why these bounds are enough.**

* *Store.*  Uniqueness of queue orders relates two records, the transitivity of
  the order three; a record must be deleted and discovered again while others
  stay, for which 4 queue orders leave room.  Retention 1 with three times has
  a record that is too young, one exactly at the cutoff and one beyond it.
  One process suffices because the lock admits one; that several may wait for
  it matters in `DigestCycle`.
* *Digest.*  Two listings give digests of one message and of two, and a message
  of two listings; two processes give every contention for the file; two faults
  give a fault in the digest that makes up for the first.
* *Generations.*  Three generations and two edits give a change during a
  change, a change back, and an invalid file in between; three digests give one
  that runs, one that waits and one that is being admitted.  Deadlock is
  checked in the safety run with all three.  The liveness run has one digest at
  a time, since strong fairness of three generations is costly to check; that
  digests do not wait for each other for ever is then up to the safety run.
* *Rendering.*  The limits are chosen so that texts meet each of them exactly,
  exceed it by one and stay below it by one; wide runes meet the byte limit
  first, short listings the block limit.
* *Pages.*  Two pages of two listings have a listing well formed and malformed
  in either order on one page and across pages.  Of the 32 009 paragraphs,
  11 998 parse and 2 626 of those have the layout of Alib; they hold every order
  of the parts that matter, on one line and on several.
* *Presses.*  Two generations and two presses have a press that is queued while
  the one before it is handled, one that is lost, and one that is taken over;
  the queue of one is full with a second update.  The configurations move a chat
  from one bot to another, change which recipient is first in a group, and name
  one chat twice.
* *One run.*  Two chats suffice, as collisions are between two; the names cover
  names that differ in case only, links to a file that exists, that is missing,
  and to the other chat's, and a name that is no file name.  Three form fields
  have one before and one after `lday`, whose place in the URL is special.

### Fairness

`DigestCycle`: a process goes on with what it has begun (weak fairness of
`Proceed`): the code has no unbounded wait but the network's, which timeouts
end.  It gets the file when it finds it free again and again (strong fairness
of `Open`), which the repeated attempts of bbolt within a second, and of the
schedule after that, amount to.  Telegram accepts a message that is sent again
and again (strong fairness of `Send`); without this nothing could be delivered.
The service starts digests for ever, and not only at the times a command line
has the file (strong fairness of `Start` while the file is free): without it an
operator who runs the program again and again, each time the schedule is due,
could keep the service from the file.
Faults are finite in number.

`ServiceGenerations`: goroutines are scheduled and digests end.  `select`
chooses at random among its ready cases, so that the main loop sees a shutdown,
and a poller a cancellation, that stays ready (strong fairness of
`ShutdownSeen` and `StopPolling`).  A mutex of Go that starves a waiter is
handed over to it (strong fairness of `Acquire`).  A generation is strongly
fair because a go statement does not wait, where the model must wait for one
of its few `Tasks` to be free.

`CallbackPolling`: goroutines are scheduled, requests and digests end.  Nothing
is assumed of presses, reloads and shutdown.

## What is proved

TLAPS proves the safety properties of every state machine, those about pure
functions among them, and the three refinements, for every value of the constants their assumptions admit: any finite
set of keys, any processes, chats, configurations, directories, pages, digests,
presses and generations, and any of the bounds that keep TLC's instances small.  Each module states an
inductive invariant `IInv`, shows that `Init` establishes it and that every
action preserves it (a lemma for each action), and derives its theorems from
it.  TLC checked each of these invariants on the runs' instances before it was
proved.

| module | theorem | states |
| --- | --- | --- |
| `BookStoreProofs` | `TypeCorrect`, `QueueOrdersAreUnique`, `OpenFilesAreReadable` | the store's invariants |
| | `TransactionsKeepPace` | how far each transaction has come |
| | `LedgerImplemented` | `BookStore` implements `BookLedger` |
| | `DiscoveriesStay`, `QueueIsInDiscoveryOrder`, `PendingIsInOneOrder`, `ForgetsTheLatest` | the order of the queue, for the files named below |
| `DigestCycleProofs` | `TypeCorrect`, `NothingLeavesTheQueue`, `EveryCopyAccountedFor`, `OneSoundAndButton`, `NotRepeatedWhileRetained` | what a chat gets, and when again |
| | `OutboxImplemented` | `DigestCycle` implements `Outbox` |
| `ServiceGenerationsProofs` | `TypeCorrect`, `CurrentSettingsRun`, `OneDigestAtATime`, `GreetedAtMostOnce`, `NoneAdmitted` | which digests run, under which settings |
| `CallbackPollingProofs` | `TypeCorrect`, `ClientsAreNotShared`, `TheDigestMeantIsStarted` | who listens, and what a press starts |
| | `InboxImplemented` | `CallbackPolling` implements `PressInbox` |
| `DigestChunkingProofs` | `TypeCorrect`, `EveryMessageFits`, `EveryListingIsSent`, `FailuresTold`, `NoFewerMessages` | what the messages of a digest carry, and how many they are |
| `PageFetchProofs` | `TypeCorrect`, `ListingsAreAccountedFor`, `TheFirstPageWins`, `OnePageIsEnough`, `NoneAfterCancellation` | what a fetch returns |
| | `TextsAreInTheirFields` | which field of a listing has each text of its paragraph |
| `CommandRunProofs` | `FilesAreNotShared`, `TheExitStatusTells` | who works on which file, and how a run ends |
| | `PagesAreAsConfigured` | which pages a chat's search fetches |
| `ContentTruncationProofs` | `TypeCorrect`, `PrefixIsLongest`, `RejectionIsJustified`, `ProbesHalve` | the binary search |

The `about` of each theorem is in `PROJECT.json`.  The assumptions are those of
the modules (`KeysAssumption`, `StoreAssumption`, `CycleAssumption`,
`ServiceAssumption`, `PollingAssumption`, `CasesAssumption` and so on), which TLC evaluates in
every run.

### The store

`QueueOrdersUnique` is not inductive by itself.  A transaction commits its
working copy, so the copy has to be readable and to belong to a process that
has the file open (`TransactionIsReadable`); a value read from it must be a
record for its queue order to mean anything (`OpenFileIsReadable`); and the
sequence grows with each allocation, so that a fresh order exceeds all others
(the first conjunct of `OrdersAllocated`).  `IInv` is the conjunction.
`StepKeepsOrders` is the heart of the argument: overwriting one key with a
value that has no queue order, the order it had, or a fresh one, keeps orders
unique.  Each loop body is an instance of it.

The refinement needs to know more of a transaction: `Progress` says that its
working copy is what the operation of the ledger makes of the committed
records, restricted to the listings the loop has passed (`DiscoveredSoFar`,
`MarkedSoFar`, `PrunedSoFar`, `ForgottenSoFar`).  Nothing but the owner of the
lock changes the committed records, so that they are still what they were when
the transaction began; when its loop ends, the working copy is the ledger's
result, and `Commit` is the ledger's step.  All other steps stutter.

Three theorems have a hypothesis on the file that was there at first.

* `ObservedFiles` (for `DiscoveriesStay`): its records say when they were
  observed.  `MarkSent` fills in the time of a record that does not.
* `DeliveredFiles` (for `QueueIsInDiscoveryOrder`, `PendingIsInOneOrder` and
  `ForgetsTheLatest`): its records have been delivered, and were observed at 1,
  the time the model starts at.  It may hold markers and corrupt values all the
  same, as in the run `BookStore`.  Without it the properties are false: see
  [Findings](#findings).

The invariant is `Times`: every record was observed no later than the clock,
and no later than the cycle of the process that has the file; the order of the
queue is the order of observation; and a file that still holds markers has not
handed out any queue order.

### The digest

`IInv` says of each process what is true at each place of its digest (`JobInv`):
it has the file exactly while it is past `opening`; the messages it has still
to send are disjoint and hold pending listings only, which rests on nobody else
having the file; what it has told the chat so far amounts to no sound and no
button until its last message.  `RecordsInOrder` ties the stored records to the
history of marks: what was pruned, or never stored, was marked more than the
retention before the clock and before every cycle under way, so that a stale
`cycleTime` cannot bring a listing back too early.  `CopiesAreAccountedFor` is
inductive with these.  `ChunkingsSplit` says of all cuttings at once that
consecutive messages share no listing.

`AnswersMean` evaluates `BotCalls` for all answers: a call that succeeded was
served, one that is to be repeated was not.  This is what the count of copies
rests on.

### The service

`OneDigestPerChat` speaks of digests of two generations, `OnlyCurrentSettingsRun`
of one and the settings.  Both follow from three facts that are inductive
together: a running task holds the lock of its chat in its generation; an
active task belongs to the current generation and the main loop is not past
waiting for it (`OnlyCurrentSettingsRun`); all runners of older generations
refuse digests, and so do those of the current one from the moment the main
loop waits for it (`ReplacedRefuse`).  `GreetingsExclude` makes a chat's
startup digest be in one place only: still to be launched, in one goroutine, or
counted.

### The presses

`ListenersInOrder` has every listener gone when the next generation is prepared,
from which `OneListenerPerBot` follows; `HandlersInOrder` gives a client one
handler at most, that of the listener of its bot, so that the handler that
takes an update is the one whose recipients the press was meant for.

For the refinement, `QueueInOrder` and `BusyInOrder` describe a bot's line: the
updates queued by the client, the one its poller is handing on, and those after
`offset` that Telegram still has, in increasing numbers without overlap.  Each
step of the poller moves an update along this line and leaves the line as it is
(`LineStays`), but for the steps that take its head (`LineAdvances`), lose the
one that is being queued (`LineLoses`) or add one at its end (`LineGrows`).
`IsFiniteSet(Tokens)` is assumed because the inbox counts what it drops.

### The messages of a digest

The theorems hold for any number of listings of any sizes, and for any limits.
`Packing` is the invariant of the loop: the complete messages are a cut of the
listings that can be sent (`Packed`), each of them keeps the limits and would
not with the next listing (`Complete`), the message that grows has the listings
handled since, and the code's counter of blocks is right.  `MessagesFit` and
`ListingsSentOnceInOrder` follow when the last message is added, by one lemma
for each way to end.  The listings that can be sent are numbered by how many
others precede them (`Rank`, `EnumeratedInOrder`).

`NoFewerMessages` says that filling one message before beginning the next is
optimal.  `GreedyIsAhead` compares the cut of the code with any other: after as
many messages, the other has not come further.  If it had first done so in some
message, that message would begin no later and end later than the code's, and
would hold one that has no room for its last listing; but leaving out listings
never makes a message too large (`FewerFit`, which rests on the sum in `Total`
growing, `PartsTakeLess`).  A summary that gets a message of its own is
accounted for in `FinishWithSummaryStep`: a way with one message less would end
with a message that holds the code's last one and the summary.

### The pages

The theorems hold for any number of pages, listings and retries.  `ParsedIs`,
`FailuresJoin` and `PageJoins` say what each of the three loops computes, for a
list of any length: the collections stay `Sound` (no listing twice, none both a
book and failed, the order of failures injective), and what is added are the
listings that are well formed somewhere, and the failures nobody has parsed.

While the pages are downloaded, the invariant says that each page up to the
present one is downloaded or among the errors (`DownloadsAre`).  While they are
joined, it says that the result is what the pages before the present one give:
which listings are books and which failed (`ListingsJoined`), from which page
each book is (`PagesJoined`), which pages are errors, and how many listings had
no buy URL.  That the first page wins needs one thing more: the books' pages are
earlier than those of all bodies still to come.  The properties, which speak of
all the bodies, follow at the end, when none is to come (`SameBodies`,
`AtTheEnd`).  `NoneAfterCancellation` is about steps and follows from the
actions alone.

`EveryTextInItsField` says that no paragraph is misread, and holds of any
sequence of elements.  The code finds its way by lines and parts, the property by
places; `LinesGrow` and `PartCounts` relate the two: an element of a later line,
or of a later part of the same line, comes later, and in Alib's layout title,
seller, price label and buy link share out the paragraph in this order
(`LayoutIs`).  `BoundsHold` shows that what the code allocates or slices with is
in order in every layout.  There is one lemma for each field, stating the
equation of `FieldsAreInPlace`; those equations leave no text to two fields.

### One run

`FilesApart` is true of the files of a valid mapping (`MappingSeparates`): each
leads somewhere or can be created at its own place, and no two collide.  It has
to survive the creation of files by the digests themselves, which is
`OpenedApart`: a file that is created is a new one (`CreatedInPlace`, and `Files`
has no names in it), so that no other name leads to it but those that fold to
the same; and a link that leads nowhere, through which a file could be created
at a second name, is refused by the validation.  Whoever works has a file
(`FilesExist`), and two that do not collide then have different ones.  The
recipients are the chats that `-chat` selects, in order and none twice
(`SelectionIs`), so that what holds of any two chats holds of any two
recipients.

`SourcesAsConfigured` rests on two facts about `SearchSources`.  A page asks for
what its request does (`PageAsks`, from what the loop over the form yields,
`GivenIs`), and only one list of parameters asks for it (`AsksOnce`): two lists
that differed would do so at a first place, where each would have to have a
field that the other still needs later (`NotBehind`).  So two requests have the
same page exactly if either page answers both (`AnswersAre`).  And the loops
yield the pages of the requests so far, ordered by the first request for each
(`Tells`): a request that is later than all others adds its page at the end or
finds it there (`RequestTold`), and the loops over categories, fields, filters
and queries go through the requests in the order of their ranks (`CategoryBatch`,
`FilterBatch`, `QueryBatch`, `SearchTells`).

### Truncation

The invariant says that no prefix beyond `high` fits and that the prefix `low`
does unless `low` is still 0.  It is inductive because of `ShorterFits`, which
rests on the monotonicity in `TruncationAssumption`.  It speaks of the limit that
the code searches with, one rune below `message_limit`; `RefusedOrAtLimit` leads
from there to the limits of the README: a refused prefix exceeds one of them or
has exactly `message_limit` runes.

### How induction is done

The prover cannot instantiate a theorem about all predicates.  Where a fact
about lists needs induction (`SequenceIsBookList`, `OrdersNeededGrows`,
`RankGrows`, `PartsTakeLess`), its proof takes the least number at which it
fails (`LeastNumber` of `DigestCycleProofs`, `Least` of the others) and derives
a contradiction; `UpTo` packs this argument for the loops of `PageFetch` and
`CommandRun`.  A loop is written as a recursive function in the models.  It is
unfolded by exhibiting, for each length, the table it denotes: `TableExists` of
`PageFetchProofs` and `CommandRunProofs` does so for any base and any step that
keep within a set, and `SelectingExists` for the selection of chats.

### Only model-checked

* Liveness under fairness (`EventuallySettled`, `ButtonReturns`, `StopEnds`,
  `ShutdownEnds`, `SettingsConverge`, `PressesAreHandled`), and anything about
  ENABLED: out of the prover's reach.

Every invariant, action property and refinement that a passing run checks has its
theorem.

## Findings

* `BookStore_legacy_forget`: `RecordDiscovered` gives a pending record of an
  older version a new queue order, but keeps its observation time, when the
  listing is seen again (`store.go:169-176`).  `DeleteLatest` puts queue
  orders first, so `-forget-latest` deletes a listing that was discovered
  earlier before one discovered later, where its comment promises "reverse
  discovery order" (`store.go:314`).
* `ServiceGenerations_greeting`: a chat that a reload adds may never get its
  startup digest.  Its goroutine is started by a go statement
  (`reload.go:202`); if the next reload requests the stop before it has
  reached `beginRun`, it is refused, and the next generation takes the chat
  for an old one (`reload.go:267`).  The README says "newly added chats
  follow `run_on_startup`".

Three more disagreements have no violating run of their own; the first is why a
run has the initial states it has, the others are exceptions that a property
states:

* The order of delivery.  `Pending` puts queue orders before observation times
  (`store.go:223`).  A pending record of an older version gets its order only
  when its listing is fetched again, so that a listing discovered later, or
  earlier in the same fetch, is posted before it.  A plan of the repository says
  that `Pending` keeps the lasting order of first discovery
  (`docs/plans/completed/20260825-sort-digest-by-publication-year.md:13-14`).
  `QueueFollowsDiscovery` is about files whose old records are all delivered.
* The rune that a shortened listing must leave of `message_limit`
  (`render.go:115`, `render.go:192`).  A longer prefix than the one that is found
  may fit both limits, and the README says that the content is reduced to the
  longest prefix that fits them (`README.md:36-37`).  For the same reason a
  listing whose mandatory fields and ellipsis have exactly `message_limit` runes
  is rejected, although they fit.  The tests ask for both
  (`render_test.go:742-743`, `render_test.go:776`).
  `LongestPrefixButAtLimit` and `RejectedOnlyIfNothingFits` measure prefixes
  against the limits of the README, and except those of exactly `message_limit`
  runes by name.
* The press that a reload drops.  The SDK stores the number of an update before
  it queues it, so that one that waits for room when a reload cancels the polling
  is dropped, and never fetched again.  The README says "Retained tokens keep
  their polling offsets and queued callbacks" (`README.md:155`).  `LoseUpdate` is
  that step; `ImplementsInbox` allows a press to be dropped only while polling
  is stopped, and `PressesAreHandled` allows for it.

Smaller observations that no run is about:

* The comparator of `Pending` compares queue orders only when both records have
  one (`store.go:223-225`).  Let x and y be pending listings of an older version,
  observed together, with URLs x < y, and let a fetch discover z and then see x
  again.  These have the orders 1 and 2, y has none, and the three form a cycle:
  z before x by order, x before y by URL, y before z by time.  The order in
  which they are posted is then up to the sort.  This is why
  `PendingOrderIsTotal` is checked and proved for files that older versions left
  with nothing to deliver.
* A press that a worker takes after the cancellation is matched against the old
  settings, refused, and its answer fails: it is handled, but in vain.
  `PressesAreHandled` counts it as handled.
* A search with `lday = 7` written out and a later field, such as `sortby`, has
  another URL than the same search without `lday`, so that both are fetched if
  both are configured.  `SourcesAsConfigured` counts them as two.
* In layouts that Alib does not use, text between the seller's line and the line
  of the buy link is in no field, and a price label before the seller puts text
  into both location and price.  `EveryTextInItsField` is about texts in the
  usual layout (`Usual`), and about slices in every layout.

## Not modelled

* Text: HTML and its encoding, Windows-1251, the wording of messages, errors and
  log lines, the removal of secrets from errors.  A paragraph is its elements, a
  listing its size, a search value whether it can be encoded.
* The publication year, the photos' addresses, and the conversion of listings
  recorded by older versions (`alib`).
* Reading TOML and the ranges of the global settings: one Boolean each.  The
  `fresh_books` policy of a chat.
* bbolt and the file system: the transaction, the file lock and names are
  modelled as the code uses them, and marked external.  Of the Telegram SDK the
  polling and the reading of answers are translated, the rest is left out.
* The cron schedule and the length of delays: that something happens later is
  modelled, when it does is not.  A time that passes during a reload is missed.
* Logging and statistics, and helpers that only tests use.

## Plan

Done: every component, with the exceptions above, and the proofs listed under
[What is proved](#what-is-proved).  What may be worth adding: the publication
year with the `fresh_books` policy that refers to it, and the ranges of the
global settings.
