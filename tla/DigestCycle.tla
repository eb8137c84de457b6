---------------------------- MODULE DigestCycle -----------------------------
(***************************************************************************)
(* One chat's digests from state file to Telegram: app.Service.Run inside  *)
(* executeJobForChat, and ForgetLatestForChat, run by the service and by   *)
(* command lines started beside it.  They share the state file, which one  *)
(* process at a time can open, and the chat.  Any step may fail or be      *)
(* cancelled, the answer to a delivery may be lost, and a process may die  *)
(* between any two steps.                                                  *)
(*                                                                         *)
(* A store operation is one step here: BookStore, which implements         *)
(* BookLedger, shows that it takes effect as one.                          *)
(***************************************************************************)
EXTENDS BookRecords, DigestMessages, BotCalls

CONSTANTS
    Processes,      \* the executables: the service and command lines
    Services,       \* those of them that start digests on a schedule
    Nobody,         \* nobody has the state file open
    Year,           \* the publication year of each listing, 0 when unknown
    Retention,      \* how long a delivered listing is remembered
    MaxTime,        \* bound of the clock, for model checking
    MaxSequence,    \* bound of the bucket sequence, for model checking
    MaxFaults       \* bound of the faults in a behaviour, for model checking

ASSUME CycleAssumption ==
    /\ Services \subseteq Processes /\ Nobody \notin Processes
    /\ Year \in [Keys -> Nat]
    /\ Retention \in Nat /\ MaxTime \in Nat \ {0}
    /\ MaxSequence \in Nat /\ MaxFaults \in Nat

VARIABLES
    recs,           \* the state file: a value for every key
    sequence,       \* its bucket sequence
    owner,          \* the process that has the file open
    job,            \* what each process is doing
    clock,          \* the wall clock
    faults,         \* how many faults have happened
    copies,         \* how often the chat got a listing since it was discovered
    lostAcks,       \* how many of those copies a digest ended with, unmarked
    lastMarked,     \* the time a listing was last marked sent with, or 0
    bare            \* a button was removed and no message has brought one since

store   == <<recs, sequence>>
history == <<copies, lostAcks, lastMarked, bare>>
vars    == <<recs, sequence, owner, job, clock, faults, history>>

-----------------------------------------------------------------------------
(* A process's job                                                         *)

Kinds == {"scheduled", "refresh", "once", "forget"}

Steps ==
    {"idle", "opening", "pruning", "fetching", "recording", "loading", "removing",
     "sending", "waiting", "marking", "forgetting", "finished", "failed"}

NoJob ==
    [pc |-> "idle", kind |-> "scheduled", cycleTime |-> 0, books |-> <<>>, failed |-> {},
     unfit |-> {}, chunks |-> <<>>, buttons |-> 0, sounds |-> 0]

At(p, pc) == job[p].pc = pc

Goto(p, pc) == job' = [job EXCEPT ![p].pc = pc]

Fault == faults < MaxFaults /\ faults' = faults + 1

Bump(f, S) == [k \in Keys |-> IF k \in S THEN f[k] + 1 ELSE f[k]]

Clear(f, S) == [k \in Keys |-> IF k \in S THEN 0 ELSE f[k]]

\* The listings of the message a process is delivering.
InChunk(p) == Listed(Head(job[p].chunks))

Init ==
    /\ recs = [k \in Keys |-> Absent]
    /\ sequence = 0
    /\ owner = Nobody
    /\ job = [p \in Processes |-> NoJob]
    /\ clock = 1
    /\ faults = 0
    /\ copies = [k \in Keys |-> 0]
    /\ lostAcks = [k \in Keys |-> 0]
    /\ lastMarked = [k \in Keys |-> 0]
    /\ bare = FALSE

-----------------------------------------------------------------------------
(* The state file                                                          *)

\* The service starts digests on its schedule and at the press of a button; a
\* command line runs one digest or forgets listings.
Start(p, kind) ==
    /\ At(p, "idle")
    /\ kind \in (IF p \in Services THEN {"scheduled", "refresh"} ELSE {"once", "forget"})
    /\ job' = [job EXCEPT ![p] = [NoJob EXCEPT !.pc = "opening", !.kind = kind]]
    /\ UNCHANGED <<store, owner, clock, faults, history>>

\* Mistaken: the state file is opened without an exclusive lock.
OpenShared(p) ==
    /\ At(p, "opening")
    /\ owner' = p
    /\ job' = [job EXCEPT ![p].cycleTime = clock,
                          ![p].pc = IF job[p].kind = "forget" THEN "forgetting" ELSE "pruning"]
    /\ UNCHANGED <<store, clock, faults, history>>

\* store.Open gets the file lock; Run then reads the time of the cycle.
Open(p) ==
    /\ At(p, "opening")
    /\ owner = Nobody
    /\ owner' = p
    /\ job' = [job EXCEPT ![p].cycleTime = clock,
                          ![p].pc = IF job[p].kind = "forget" THEN "forgetting" ELSE "pruning"]
    /\ UNCHANGED <<store, clock, faults, history>>

\* Another process kept the file for a second: the job ends with an error.
OpenTimesOut(p) ==
    /\ At(p, "opening")
    /\ owner # Nobody
    /\ job' = [job EXCEPT ![p] = NoJob]
    /\ UNCHANGED <<store, owner, clock, faults, history>>

\* Mistaken: the file is closed only when the job succeeds.
CloseFinished(p) ==
    /\ At(p, "finished") \/ At(p, "failed")
    /\ owner' = IF At(p, "finished") THEN Nobody ELSE owner
    /\ job' = [job EXCEPT ![p] = NoJob]
    /\ UNCHANGED <<store, clock, faults, history>>

\* The deferred Close, whether the job succeeded or failed.
Close(p) ==
    /\ At(p, "finished") \/ At(p, "failed")
    /\ owner' = Nobody
    /\ job' = [job EXCEPT ![p] = NoJob]
    /\ UNCHANGED <<store, clock, faults, history>>

\* DeleteLatest, all that -forget-latest does with the open file.
Forget(p) ==
    \E limit \in 1..Cardinality(Keys) :
        /\ At(p, "forgetting")
        /\ LET gone == Latest(recs, limit)
           IN  /\ recs' = DeleteAll(recs, gone)
               /\ copies' = Clear(copies, gone)
               /\ lostAcks' = Clear(lostAcks, gone)
               /\ lastMarked' = Clear(lastMarked, gone)
        /\ Goto(p, "finished")
        /\ UNCHANGED <<sequence, owner, clock, faults, bare>>

-----------------------------------------------------------------------------
(* Preparing a digest                                                      *)

\* Mistaken: delivered listings are not retained.
PruneDelivered(p) ==
    /\ At(p, "pruning")
    /\ recs' = PruneAll(recs, job[p].cycleTime, 0)
    /\ LET gone == Stored(recs) \ Stored(recs')
       IN  /\ copies' = Clear(copies, gone)
           /\ lostAcks' = Clear(lostAcks, gone)
    /\ Goto(p, "fetching")
    /\ UNCHANGED <<sequence, owner, clock, faults, lastMarked, bare>>

Prune(p) ==
    /\ At(p, "pruning")
    /\ recs' = PruneAll(recs, job[p].cycleTime, Retention)
    /\ LET gone == Stored(recs) \ Stored(recs')
       IN  /\ copies' = Clear(copies, gone)
           /\ lostAcks' = Clear(lostAcks, gone)
    /\ Goto(p, "fetching")
    /\ UNCHANGED <<sequence, owner, clock, faults, lastMarked, bare>>

\* FetchWithResult returns the listings it could parse and the buy URLs of
\* those it could not; unfit are the listings too long for a message.
Fetch(p) ==
    \E books \in BookLists, unfit \in SUBSET Keys :
        \E failed \in SUBSET (Keys \ Listed(books)) :
            /\ At(p, "fetching")
            /\ sequence + Cardinality(Listed(books) \ Stored(recs)) <= MaxSequence
            /\ IF failed \cup unfit = {} THEN UNCHANGED faults ELSE Fault
            /\ job' = [job EXCEPT ![p].pc = "recording", ![p].books = books,
                                  ![p].failed = failed, ![p].unfit = unfit]
            /\ UNCHANGED <<store, owner, clock, history>>

\* recordableFetched: a listing that is already stored is recorded even if it
\* does not fit a message; a new one that does not fit counts as failed.
Recordable(p) ==
    { k \in Listed(job[p].books) : k \in Stored(recs) \/ k \notin job[p].unfit }

FetchedBefore(p, a, b) ==
    \E i, j \in DOMAIN job[p].books :
        i < j /\ job[p].books[i] = a /\ job[p].books[j] = b

\* The recordable listings are recorded in the order they were fetched in.
Discover(p) ==
    \E books \in BookLists :
        /\ At(p, "recording")
        /\ Listed(books) = Recordable(p)
        /\ SortedBy(books, LAMBDA a, b : FetchedBefore(p, a, b))
        /\ recs' = DiscoverAll(recs, sequence, books, job[p].cycleTime)
        /\ sequence' = sequence + OrdersNeeded(recs, books, Len(books))
        /\ job' = [job EXCEPT ![p].pc = "loading", ![p].books = <<>>,
                              ![p].failed = @ \cup (Listed(job[p].books) \ Recordable(p))]
        /\ UNCHANGED <<owner, clock, faults, history>>

\* sortPending: unknown years first, then the newest; Pending's order among
\* equals, which the stable sort keeps.
DigestBefore(a, b) ==
    IF Year[a] = Year[b]
    THEN PendingBefore(recs, a, b)
    ELSE Year[b] # 0 /\ (Year[a] = 0 \/ Year[a] > Year[b])

\* Mistaken: listings of unknown year drop out of the sorted list.
LoadDated(p) ==
    \E list \in BookLists :
        /\ At(p, "loading")
        /\ Listed(list) = { k \in PendingKeys(recs) \ (job[p].failed \cup job[p].unfit) : Year[k] # 0 }
        /\ SortedBy(list, DigestBefore)
        /\ \E chunks \in Chunkings(list) :
              job' = [job EXCEPT
                        ![p].chunks = chunks, ![p].failed = {}, ![p].unfit = {},
                        ![p].pc = IF job[p].kind = "refresh" THEN "removing" ELSE "sending"]
        /\ UNCHANGED <<store, owner, clock, faults, history>>

\* Pending, less the listings whose current page could not be parsed; then
\* RenderSendable skips those that do not fit.
Load(p) ==
    \E list \in BookLists :
        /\ At(p, "loading")
        /\ Listed(list) = (PendingKeys(recs) \ job[p].failed) \ job[p].unfit
        /\ SortedBy(list, DigestBefore)
        /\ \E chunks \in Chunkings(list) :
              job' = [job EXCEPT
                        ![p].chunks = chunks, ![p].failed = {}, ![p].unfit = {},
                        ![p].pc = IF job[p].kind = "refresh" THEN "removing" ELSE "sending"]
        /\ UNCHANGED <<store, owner, clock, faults, history>>

-----------------------------------------------------------------------------
(* Delivering it                                                           *)

\* BeforeDelivery: the button that was pressed is taken off its message.
RemoveButton(p) ==
    /\ At(p, "removing")
    /\ TRUE \in Successes
    /\ job' = [job EXCEPT ![p].pc = "sending", ![p].buttons = @ - 1]
    /\ bare' = TRUE
    /\ UNCHANGED <<store, owner, clock, faults, copies, lostAcks, lastMarked>>

\* The call fails, whether or not the button is gone; it is not retried.
RemoveFails(p) ==
    \E taken \in Failures \cup Retries :
        /\ At(p, "removing")
        /\ Fault
        /\ Goto(p, "failed")
        /\ bare' = (bare \/ taken)
        /\ UNCHANGED <<store, owner, clock, copies, lostAcks, lastMarked>>

IsLast(p) == Len(job[p].chunks) = 1

\* The next message, once this one is dealt with.
NextChunk(j) ==
    [j EXCEPT !.chunks = Tail(@), !.pc = IF Tail(j.chunks) = <<>> THEN "finished" ELSE "sending"]

\* Mistaken: every message carries a button.
AcceptedWithButton(p) ==
    [job[p] EXCEPT !.buttons = @ + 1, !.sounds = IF IsLast(p) THEN @ + 1 ELSE @]

\* Telegram accepts the message: the last one with a sound and a button.
Accepted(p) ==
    [job[p] EXCEPT !.buttons = IF IsLast(p) THEN @ + 1 ELSE @,
                   !.sounds  = IF IsLast(p) THEN @ + 1 ELSE @]

\* Telegram has taken the message, or has not.
Post(p, taken) ==
    /\ copies' = IF taken THEN Bump(copies, InChunk(p)) ELSE copies
    /\ bare' = (bare /\ ~(taken /\ IsLast(p)))

Send(p) ==
    \E taken \in Successes :
        /\ At(p, "sending")
        /\ Post(p, taken)
        /\ job' = [job EXCEPT ![p] = IF InChunk(p) = {} THEN NextChunk(Accepted(p))
                                     ELSE [Accepted(p) EXCEPT !.pc = "marking"]]
        /\ UNCHANGED <<store, owner, clock, faults, lostAcks, lastMarked>>

\* The call fails, though Telegram may have taken the message.
SendFails(p) ==
    \E taken \in Failures :
        /\ At(p, "sending")
        /\ Fault
        /\ Post(p, taken)
        /\ lostAcks' = IF taken THEN Bump(lostAcks, InChunk(p)) ELSE lostAcks
        /\ job' = [job EXCEPT ![p] = [IF taken THEN Accepted(p) ELSE @ EXCEPT !.pc = "failed"]]
        /\ UNCHANGED <<store, owner, clock, lastMarked>>

\* Telegram asks to retry later.
RateLimited(p) ==
    \E taken \in Retries :
        /\ At(p, "sending")
        /\ Post(p, taken)
        /\ Goto(p, "waiting")
        /\ UNCHANGED <<store, owner, clock, faults, lostAcks, lastMarked>>

WaitOver(p) ==
    /\ At(p, "waiting")
    /\ Goto(p, "sending")
    /\ UNCHANGED <<store, owner, clock, faults, history>>

\* Mistaken: the first message settles all listings of the digest.
MarkWholeDigest(p) ==
    /\ At(p, "marking")
    /\ LET all == UNION { Listed(job[p].chunks[i]) : i \in DOMAIN job[p].chunks }
       IN  /\ recs' = MarkAllSent(recs, all, job[p].cycleTime)
           /\ lastMarked' = [k \in Keys |-> IF k \in all THEN job[p].cycleTime ELSE lastMarked[k]]
    /\ job' = [job EXCEPT ![p] = NextChunk(@)]
    /\ UNCHANGED <<sequence, owner, clock, faults, copies, lostAcks, bare>>

\* MarkSent of the message's listings, under a context nobody cancels.
Mark(p) ==
    /\ At(p, "marking")
    /\ InChunk(p) \subseteq Stored(recs)
    /\ recs' = MarkAllSent(recs, InChunk(p), job[p].cycleTime)
    /\ lastMarked' = [k \in Keys |-> IF k \in InChunk(p) THEN job[p].cycleTime ELSE lastMarked[k]]
    /\ job' = [job EXCEPT ![p] = NextChunk(@)]
    /\ UNCHANGED <<sequence, owner, clock, faults, copies, lostAcks, bare>>

\* MarkSent returns an error: the digest ends, the listings stay unsent.
MarkFails(p) ==
    /\ At(p, "marking")
    /\ Fault
    /\ lostAcks' = Bump(lostAcks, InChunk(p))
    /\ Goto(p, "failed")
    /\ UNCHANGED <<store, owner, clock, copies, lastMarked, bare>>

-----------------------------------------------------------------------------
(* Faults and time                                                         *)

\* A step returns an error, or finds its context cancelled.
StepFails(p) ==
    /\ job[p].pc \in {"pruning", "fetching", "recording", "loading", "waiting", "forgetting"}
    /\ Fault
    /\ Goto(p, "failed")
    /\ UNCHANGED <<store, owner, clock, history>>

\* The process dies.
Crash(p) ==
    /\ ~At(p, "idle")
    /\ Fault
    /\ owner' = IF owner = p THEN Nobody ELSE owner
    /\ lostAcks' = IF At(p, "marking") THEN Bump(lostAcks, InChunk(p)) ELSE lostAcks
    /\ job' = [job EXCEPT ![p] = NoJob]
    /\ UNCHANGED <<store, clock, copies, lastMarked, bare>>

Tick ==
    /\ clock < MaxTime
    /\ clock' = clock + 1
    /\ UNCHANGED <<store, owner, job, faults, history>>

\* What a process does of itself once it has begun a job.
Proceed(p) ==
    \/ OpenTimesOut(p)
    \/ Close(p)
    \/ Forget(p)
    \/ Prune(p)
    \/ Fetch(p)
    \/ Discover(p)
    \/ Load(p)
    \/ RemoveButton(p)
    \/ RateLimited(p)
    \/ WaitOver(p)
    \/ Mark(p)

Next ==
    \/ \E p \in Processes :
          \/ \E kind \in Kinds : Start(p, kind)
          \/ Open(p)
          \/ Send(p)
          \/ Proceed(p)
          \/ SendFails(p)
          \/ RemoveFails(p)
          \/ MarkFails(p)
          \/ StepFails(p)
          \/ Crash(p)
    \/ Tick

Spec == Init /\ [][Next]_vars

\* A process goes on with the job it has begun.  It gets the file when it finds
\* it free again and again, and Telegram, asked again and again, accepts a
\* message.  The service's schedule starts digests for ever, and not only at
\* times at which a command line has the file.
Fairness ==
    /\ \A p \in Processes :
          WF_vars(Proceed(p)) /\ SF_vars(Open(p)) /\ SF_vars(Send(p))
    /\ \A p \in Services : SF_vars(owner = Nobody /\ Start(p, "scheduled"))

FairSpec == Spec /\ Fairness

-----------------------------------------------------------------------------
(* Properties                                                              *)

Job ==
    [pc : Steps, kind : Kinds, cycleTime : 0..MaxTime, books : BookLists,
     failed : SUBSET Keys, unfit : SUBSET Keys, chunks : Seq(BookLists),
     buttons : -1..1, sounds : 0..1]

\* Every variable has its type.
TypeOK ==
    /\ recs \in [Keys -> Record \cup {Absent}]
    /\ sequence \in 0..MaxSequence
    /\ owner \in Processes \cup {Nobody}
    /\ job \in [Processes -> Job]
    /\ clock \in 1..MaxTime
    /\ faults \in 0..MaxFaults
    /\ copies \in [Keys -> Nat] /\ lostAcks \in [Keys -> Nat]
    /\ lastMarked \in [Keys -> 0..MaxTime]
    /\ bare \in BOOLEAN

Delivering(p) == job[p].pc \in {"removing", "sending", "waiting", "marking"}

\* Every listing of the messages a digest still has to deliver is pending in
\* the file at that moment, although the list was read before the first
\* message was sent: nobody marks, prunes or forgets it meanwhile, so MarkSent
\* never meets a missing record.
UndeliveredStayPending ==
    \A p \in Processes : Delivering(p) =>
        \A i \in DOMAIN job[p].chunks : Listed(job[p].chunks[i]) \subseteq PendingKeys(recs)

\* The chat got a listing once for each acknowledgement that was lost, and
\* once more when it is marked sent or is about to be: a listing marked sent
\* was delivered, and a second copy always has a lost acknowledgement behind it.
CopiesAreAccountedFor ==
    \A k \in Keys :
        copies[k] = lostAcks[k] +
            IF \/ recs[k] # Absent /\ recs[k].sent
               \/ \E p \in Processes : At(p, "marking") /\ k \in InChunk(p)
            THEN 1 ELSE 0

\* A digest that succeeds has sounded once and left one button, with its last
\* message, and a refresh has removed the button it was started from: it
\* leaves the chat with as many buttons as it found.
OneSoundOneButton ==
    \A p \in Processes :
        /\ job[p].pc = "finished" /\ job[p].kind # "forget" =>
              /\ job[p].sounds = 1
              /\ job[p].buttons = IF job[p].kind = "refresh" THEN 0 ELSE 1
        /\ job[p].kind = "refresh" => job[p].buttons <= 0

\* A listing that was marked sent is not posted again by a digest that begins
\* within the retention time, unless the operator has forgotten it.
NoRepeatWithinRetention ==
    [][\A k \in Keys, p \in Processes :
          /\ copies'[k] > copies[k] /\ job'[p] # job[p] /\ lastMarked[k] # 0
          => job[p].cycleTime > lastMarked[k] + Retention]_vars

\* The digest implements the at-least-once outbox.
Status(k) ==
    IF recs[k] = Absent THEN "unknown" ELSE IF recs[k].sent THEN "settled" ELSE "queued"

Box == INSTANCE Outbox WITH
    status     <- [k \in Keys |-> Status(k)],
    forgetting <- \E p \in Processes : At(p, "forgetting")

ImplementsOutbox == Box!Spec

\* A pending listing is eventually delivered and marked, or the operator
\* forgets it.
EventuallySettled ==
    \A k \in Keys : k \in PendingKeys(recs) ~> k \notin PendingKeys(recs)

\* A chat whose button was removed by a refresh that then failed or crashed
\* gets a message with a button in the end.
ButtonReturns == bare ~> ~bare
=============================================================================
