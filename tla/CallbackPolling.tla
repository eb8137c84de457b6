-------------------------- MODULE CallbackPolling ---------------------------
(***************************************************************************)
(* The presses of refresh buttons, from Telegram to the digest they start: *)
(* callbacks.go of internal/process, updates.go of internal/telegram and   *)
(* the polling of the Telegram SDK they use.                               *)
(*                                                                         *)
(* A bot (a token) has one client for as long as the process lives, with   *)
(* the offset of its polling and the updates it has fetched.  A generation *)
(* of the service runs a listener for each bot of its settings: a poller   *)
(* that fetches updates and a worker that handles them.  A reload stops    *)
(* the digests, then the listeners, changes the clients' timeouts and      *)
(* starts the next generation, as ServiceGenerations shows in detail.      *)
(***************************************************************************)
EXTENDS Naturals, Sequences, FiniteSets, SequencesExt

CONSTANTS
    Tokens,         \* bots
    Buttons,        \* the buttons people press: [chat |-> its id and user name, refresh]
    Snapshots,      \* valid configurations
    Recipients,     \* the recipients of each: an expected chat id and a token
    Initial,        \* the configuration the process starts with
    ChannelSize,    \* how many fetched updates a client holds
    MaxPresses,     \* bound of the presses, for model checking
    MaxGenerations  \* bound of the generations, for model checking

\* A chat id of the configuration is a number or a user name.
ExpectedIds == [byName : {FALSE}, id : Nat] \cup [byName : {TRUE}, name : STRING]

ASSUME PollingAssumption ==
    /\ IsFiniteSet(Tokens)
    /\ \A b \in Buttons : b.chat.id \in Nat /\ b.refresh \in BOOLEAN
    /\ Initial \in Snapshots
    /\ \A s \in Snapshots : Recipients[s] # <<>> /\ Recipients[s] \in
          Seq([expected : ExpectedIds, token : Tokens])
    /\ ChannelSize \in Nat \ {0} /\ MaxPresses \in Nat /\ MaxGenerations \in Nat \ {0}

Generations == 1..MaxGenerations

VARIABLES
    presses,    \* the updates Telegram has for each bot, numbered from 1
    offset,     \* the number of the last update a client has accepted
    channel,    \* the updates a client has fetched and not yet handled
    handlers,   \* the listeners registered with a client
    fate,       \* what became of each press
    main,       \* where the main loop is
    cur,        \* the latest generation
    settings,   \* the configuration of each generation
    stopping,   \* the runners of a generation that refuse digests
    runs,       \* the digests that run
    cancelled,  \* the generations whose control context was cancelled
    shutdown,   \* the process was told to stop
    poll,       \* where the poller of a listener is
    upto,       \* the last update of the batch it hands on
    work,       \* where the worker of a listener is
    serving     \* the handler and the press a worker is busy with

client   == <<offset, channel, handlers>>
service  == <<main, cur, settings, cancelled, shutdown>>
digests  == <<stopping, runs>>
listener == <<poll, upto, work, serving>>
vars     == <<presses, client, fate, service, digests, listener>>

-----------------------------------------------------------------------------
(* Listeners                                                               *)

\* A listener is known by its generation and the first recipient of its group.
Slots == UNION { DOMAIN Recipients[s] : s \in Snapshots }

Listeners == Generations \X Slots

RecipientsOf(g) == Recipients[settings[g]]

TokenOf(l) == RecipientsOf(l[1])[l[2]].token

\* sameCallbackClient: recipients of one bot share a client, and a listener.
Groups(s) ==
    { i \in DOMAIN Recipients[s] :
        \A j \in 1..i - 1 : Recipients[s][j].token # Recipients[s][i].token }

GroupOf(l) ==
    { i \in DOMAIN RecipientsOf(l[1]) : RecipientsOf(l[1])[i].token = TokenOf(l) }

\* The control context of a generation is a child of the process context.
ControlDone(g) == g \in cancelled \/ shutdown

Alive(l) == poll[l] # "off"

NoPress == [handler |-> <<1, 1>>, press |-> 0]

\* The listeners that a generation with settings s starts.
Started(g, s) == { l \in Listeners : l[1] = g /\ l[2] \in Groups(s) }

Init ==
    /\ presses = [t \in Tokens |-> <<>>]
    /\ offset = [t \in Tokens |-> 0]
    /\ channel = [t \in Tokens |-> <<>>]
    /\ handlers = [t \in Tokens |-> <<>>]
    /\ fate = [t \in Tokens |-> [i \in 1..MaxPresses |-> "unmade"]]
    /\ main = "serving" /\ cur = 1
    /\ settings = [g \in Generations |-> Initial]
    /\ stopping = [g \in Generations |-> {}]
    /\ runs = {} /\ cancelled = {} /\ shutdown = FALSE
    /\ poll = [l \in Listeners |-> IF l \in Started(1, Initial) THEN "starting" ELSE "off"]
    /\ upto = [l \in Listeners |-> 0]
    /\ work = [l \in Listeners |-> "off"]
    /\ serving = [l \in Listeners |-> NoPress]

Becomes(t, i, to) == fate' = [fate EXCEPT ![t][i] = to]

\* A button is pressed: Telegram numbers the update.
Press(t, press) ==
    /\ Cardinality(UNION { {b} \X DOMAIN presses[b] : b \in Tokens }) < MaxPresses
    /\ presses' = [presses EXCEPT ![t] = Append(@, press)]
    /\ Becomes(t, Len(presses[t]) + 1, "waiting")
    /\ UNCHANGED <<client, service, digests, listener>>

\* ListenCallbacks registers its handler, then starts the poller and the worker.
Listen(l) ==
    /\ poll[l] = "starting"
    /\ handlers' = [handlers EXCEPT ![TokenOf(l)] = Append(@, l)]
    /\ poll' = [poll EXCEPT ![l] = "polling"]
    /\ work' = [work EXCEPT ![l] = "waiting"]
    /\ UNCHANGED <<presses, offset, channel, fate, service, digests, upto, serving>>

\* Both have ended: the handler is removed and ListenCallbacks returns.
Unlisten(l) ==
    /\ poll[l] = "ended" /\ work[l] = "ended"
    /\ handlers' = [handlers EXCEPT ![TokenOf(l)] = RemoveFirst(@, l)]
    /\ poll' = [poll EXCEPT ![l] = "off"]
    /\ work' = [work EXCEPT ![l] = "off"]
    /\ UNCHANGED <<presses, offset, channel, fate, service, digests, upto, serving>>

-----------------------------------------------------------------------------
(* The poller: getUpdates.  A request that fails is repeated, which changes *)
(* nothing.                                                                 *)

Accept(t) == offset' = [offset EXCEPT ![t] = @ + 1]

BatchEnds(l, pc) == poll' = [poll EXCEPT ![l] = pc] /\ upto' = [upto EXCEPT ![l] = 0]

\* Telegram returns the updates from offset + 1; the first one's number is
\* stored before the update is handed on.
PollReturns(l) ==
    LET t == TokenOf(l)
    IN  /\ poll[l] = "polling" /\ Len(presses[t]) > offset[t]
        /\ upto' = [upto EXCEPT ![l] = Len(presses[t])]
        /\ Accept(t)
        /\ poll' = [poll EXCEPT ![l] = "handing"]
        /\ UNCHANGED <<presses, channel, handlers, fate, service, digests, work, serving>>

\* Mistaken: the last update of a batch is not accepted, and fetched again.
HandOnLate(l) ==
    LET t == TokenOf(l)
    IN  /\ poll[l] = "handing" /\ Len(channel[t]) < ChannelSize
        /\ channel' = [channel EXCEPT ![t] = Append(@, offset[t])]
        /\ IF offset[t] < upto[l]
           THEN Accept(t) /\ UNCHANGED <<poll, upto>>
           ELSE BatchEnds(l, "polling") /\ offset' = [offset EXCEPT ![t] = @ - 1]
        /\ UNCHANGED <<presses, handlers, fate, service, digests, work, serving>>

\* The channel has room: the update is queued, and the next one accepted.
HandOn(l) ==
    LET t == TokenOf(l)
    IN  /\ poll[l] = "handing" /\ Len(channel[t]) < ChannelSize
        /\ channel' = [channel EXCEPT ![t] = Append(@, offset[t])]
        /\ IF offset[t] < upto[l]
           THEN Accept(t) /\ UNCHANGED <<poll, upto>>
           ELSE BatchEnds(l, "polling") /\ UNCHANGED offset
        /\ UNCHANGED <<presses, handlers, fate, service, digests, work, serving>>

\* select sees the cancelled context first: the update whose number is stored
\* is lost, the rest of the batch will be fetched again.
LoseUpdate(l) ==
    /\ poll[l] = "handing" /\ ControlDone(l[1])
    /\ Becomes(TokenOf(l), offset[TokenOf(l)], "dropped")
    /\ BatchEnds(l, "ended")
    /\ UNCHANGED <<presses, client, service, digests, work, serving>>

\* Mistaken: a request that fails ends the polling.
PollEndsOnError(l) ==
    /\ poll[l] = "polling"
    /\ poll' = [poll EXCEPT ![l] = "ended"]
    /\ UNCHANGED <<presses, client, fate, service, digests, upto, work, serving>>

PollEnds(l) ==
    /\ poll[l] = "polling" /\ ControlDone(l[1])
    /\ poll' = [poll EXCEPT ![l] = "ended"]
    /\ UNCHANGED <<presses, client, fate, service, digests, upto, work, serving>>

-----------------------------------------------------------------------------
(* The worker: waitUpdates and the handler of callbacks.go                 *)

\* matchesExpectedChat; user names are compared without regard to case.
Matches(chat, expected) ==
    IF expected.byName THEN chat.name = expected.name ELSE chat.id = expected.id

\* Mistaken: the first recipient that matches is taken.
AddresseesFirst(h, press) ==
    LET matching == { i \in GroupOf(h) : Matches(press.chat, RecipientsOf(h[1])[i].expected) }
    IN  { i \in matching : \A j \in matching : i <= j }

\* The recipients of the bot that the chat of a press may stand for.
Addressees(h, press) ==
    { i \in GroupOf(h) : Matches(press.chat, RecipientsOf(h[1])[i].expected) }

Locked(g, i) == \E r \in runs : r.gen = g /\ r.recipient = i

\* tryStartRefresh, under the runner's lifecycle mutex.
TryStart(g, i, t, n) ==
    runs' = IF i \in stopping[g] \/ Locked(g, i)
            THEN runs
            ELSE runs \cup {[gen |-> g, recipient |-> i, bot |-> t, press |-> n]}

\* The worker takes an update, though its context may be done as well.  The
\* client's first handler gets it; one with other data, or that finds no
\* handler, is ignored.
TakeUpdate(l) ==
    LET t     == TokenOf(l)
        n     == Head(channel[t])
        press == presses[t][n]
    IN  /\ work[l] = "waiting" /\ channel[t] # <<>>
        /\ channel' = [channel EXCEPT ![t] = Tail(@)]
        /\ IF handlers[t] = <<>> \/ ~press.refresh
           THEN Becomes(t, n, "ignored") /\ UNCHANGED <<work, serving, runs>>
           ELSE LET h == Head(handlers[t])
                IN  /\ Becomes(t, n, "answering")
                    /\ work' = [work EXCEPT ![l] = "answering"]
                    /\ serving' = [serving EXCEPT ![l] = [handler |-> h, press |-> n]]
                    /\ IF Cardinality(Addressees(h, press)) = 1
                       THEN \E i \in Addressees(h, press) : TryStart(h[1], i, t, n)
                       ELSE UNCHANGED runs
        /\ UNCHANGED <<presses, offset, handlers, service, stopping, poll, upto>>

\* AnswerCallback returns; it fails when the listener's context is done, and
\* whenever Telegram cannot be reached.
AnswerReturns(l, to) ==
    /\ work[l] = "answering"
    /\ to = "answered" => ~ControlDone(serving[l].handler[1])
    /\ Becomes(TokenOf(l), serving[l].press, to)
    /\ work' = [work EXCEPT ![l] = "waiting"]
    /\ serving' = [serving EXCEPT ![l] = NoPress]
    /\ UNCHANGED <<presses, client, service, digests, poll, upto>>

WorkEnds(l) ==
    /\ work[l] = "waiting" /\ ControlDone(l[1])
    /\ work' = [work EXCEPT ![l] = "ended"]
    /\ UNCHANGED <<presses, client, fate, service, digests, poll, upto, serving>>

-----------------------------------------------------------------------------
(* Digests and generations                                                 *)

\* A startup or scheduled digest.
StartOther(g, i) ==
    /\ g = cur /\ main # "exited" /\ i \in DOMAIN RecipientsOf(g)
    /\ i \notin stopping[g] /\ ~Locked(g, i)
    /\ runs' = runs \cup {[gen |-> g, recipient |-> i, bot |-> RecipientsOf(g)[i].token, press |-> 0]}
    /\ UNCHANGED <<presses, client, fate, service, stopping, listener>>

Finish(r) ==
    /\ r \in runs
    /\ runs' = runs \ {r}
    /\ UNCHANGED <<presses, client, fate, service, stopping, listener>>

Shutdown ==
    /\ ~shutdown
    /\ shutdown' = TRUE
    /\ UNCHANGED <<presses, client, fate, main, cur, settings, cancelled, digests, listener>>

Goto(pc) == main' = pc

\* The configuration file has changed, or the process stops.
RequestStop ==
    /\ main = "serving" /\ (shutdown \/ cur < MaxGenerations)
    /\ Goto("waiting")
    /\ stopping' = [stopping EXCEPT ![cur] = DOMAIN RecipientsOf(cur)]
    /\ UNCHANGED <<presses, client, fate, cur, settings, cancelled, shutdown, runs, listener>>

\* The digests have ended: generation.stop cancels the control context.
RunsEnded ==
    /\ main = "waiting" /\ \A r \in runs : r.gen # cur
    /\ Goto("joining")
    /\ cancelled' = cancelled \cup {cur}
    /\ UNCHANGED <<presses, client, fate, cur, settings, shutdown, digests, listener>>

\* Mistaken: the end of the listeners is not waited for.
ListenersCancelled ==
    /\ main = "joining"
    /\ Goto(IF shutdown THEN "exited" ELSE "preparing")
    /\ UNCHANGED <<presses, client, fate, cur, settings, cancelled, shutdown, digests, listener>>

\* callbacksDone is closed and the generation has ended.
ListenersEnded ==
    /\ main = "joining" /\ \A l \in Started(cur, settings[cur]) : ~Alive(l)
    /\ Goto(IF shutdown THEN "exited" ELSE "preparing")
    /\ UNCHANGED <<presses, client, fate, cur, settings, cancelled, shutdown, digests, listener>>

\* Prepare has set the timeouts of the bots' clients, and the next generation
\* starts with the settings the file holds now, or with the old ones.
Restart(s) ==
    /\ main = "preparing" /\ cur < MaxGenerations
    /\ Goto("serving")
    /\ cur' = cur + 1
    /\ settings' = [settings EXCEPT ![cur + 1] = s]
    /\ poll' = [l \in Listeners |-> IF l \in Started(cur + 1, s) THEN "starting" ELSE poll[l]]
    /\ UNCHANGED <<presses, client, fate, cancelled, shutdown, digests, upto, work, serving>>

\* The file is not read again for a process that stops.
ReloadAborted ==
    /\ main = "preparing" /\ shutdown
    /\ Goto("exited")
    /\ UNCHANGED <<presses, client, fate, cur, settings, cancelled, shutdown, digests, listener>>

\* RunReloadable has returned.
Exited == main = "exited" /\ UNCHANGED vars

-----------------------------------------------------------------------------

Poller(l) == PollReturns(l) \/ HandOn(l) \/ LoseUpdate(l) \/ PollEnds(l)

Worker(l) == TakeUpdate(l) \/ WorkEnds(l) \/ \E to \in {"answered", "unanswered"} : AnswerReturns(l, to)

Main == RequestStop \/ RunsEnded \/ ListenersEnded \/ ReloadAborted \/ \E s \in Snapshots : Restart(s)

Next ==
    \/ \E t \in Tokens, press \in Buttons : Press(t, press)
    \/ \E l \in Listeners : Listen(l) \/ Poller(l) \/ Worker(l) \/ Unlisten(l)
    \/ \E g \in Generations, i \in Slots : StartOther(g, i)
    \/ \E r \in runs : Finish(r)
    \/ Shutdown \/ Main \/ Exited

Spec == Init /\ [][Next]_vars

\* Goroutines are scheduled, a request and a digest end.
Fairness ==
    /\ \A l \in Listeners :
          /\ WF_vars(Listen(l)) /\ WF_vars(Unlisten(l))
          /\ WF_vars(Poller(l)) /\ WF_vars(Worker(l))
    /\ WF_vars(\E r \in runs : Finish(r))
    /\ WF_vars(RunsEnded \/ ListenersEnded \/ \E s \in Snapshots : Restart(s))

FairSpec == Spec /\ Fairness
-----------------------------------------------------------------------------
(* Properties                                                              *)

Run == [gen : Generations, recipient : Slots, bot : Tokens, press : 0..MaxPresses]

\* A bot's client is used by one generation at a time and by one listener of
\* it: never do two pollers share an offset, nor does a handler outlive its
\* listener, and while the main loop sets the clients' timeouts nothing runs
\* that could send a request.
OneListenerPerBot ==
    /\ \A k, l \in Listeners :
          Alive(k) /\ Alive(l) /\ TokenOf(k) = TokenOf(l) => k = l
    /\ \A t \in Tokens : \A l \in ToSet(handlers[t]) : Alive(l) /\ l[1] = cur
    /\ main = "preparing" => runs = {} /\ \A l \in Listeners : ~Alive(l)

\* A press starts the digest of the recipient its chat stands for and of no
\* other, under the settings in force: none when two recipients may be meant,
\* none of a bot that did not receive it, and one digest at most.
PressStartsItsDigest ==
    \A r \in runs : r.press # 0 =>
        /\ r.gen = cur
        /\ LET press == presses[r.bot][r.press]
               meant == { i \in DOMAIN RecipientsOf(cur) :
                            /\ RecipientsOf(cur)[i].token = r.bot
                            /\ Matches(press.chat, RecipientsOf(cur)[i].expected) }
           IN  press.refresh /\ meant = {r.recipient}

\* The queue of a bot: what its client has queued, what its poller has
\* accepted but not queued, and what Telegram still has.
Handing(t) == { l \in Listeners : poll[l] = "handing" /\ TokenOf(l) = t }

Waiting(t) ==
    channel[t] \o (IF Handing(t) = {} THEN <<>> ELSE <<offset[t]>>)
    \o [i \in 1..Len(presses[t]) - offset[t] |-> offset[t] + i]

Inbox == INSTANCE PressInbox WITH
    inbox    <- [t \in Tokens |-> Waiting(t)],
    stopping <- IF ControlDone(cur) THEN Tokens ELSE {}

\* Every variable has its type.
TypeOK ==
    /\ presses \in [Tokens -> Seq(Buttons)]
    /\ offset \in [Tokens -> 0..MaxPresses]
    /\ channel \in [Tokens -> Seq(1..MaxPresses)]
    /\ handlers \in [Tokens -> Seq(Listeners)]
    /\ fate \in [Tokens -> [1..MaxPresses -> Inbox!Fates]]
    /\ main \in {"serving", "waiting", "joining", "preparing", "exited"}
    /\ cur \in Generations /\ settings \in [Generations -> Snapshots]
    /\ stopping \in [Generations -> SUBSET Slots] /\ runs \subseteq Run
    /\ cancelled \subseteq Generations /\ shutdown \in BOOLEAN
    /\ poll \in [Listeners -> {"off", "starting", "polling", "handing", "ended"}]
    /\ upto \in [Listeners -> 0..MaxPresses]
    /\ work \in [Listeners -> {"off", "waiting", "answering", "ended"}]
    /\ serving \in [Listeners -> [handler : Listeners, press : 0..MaxPresses]]

\* Across reloads each press is handled at most once and in order, and is
\* dropped only while polling is being stopped.
ImplementsInbox == Inbox!Spec

\* A press is handled in the end, or lost when polling stopped, unless the
\* settings have no recipient of its bot or the process stops: the next
\* generation takes over what the last one left.
PressesAreHandled ==
    \A t \in Tokens, i \in 1..MaxPresses :
        fate[t][i] = "waiting"
        ~> \/ fate[t][i] # "waiting" \/ shutdown
           \/ \A j \in DOMAIN RecipientsOf(cur) : RecipientsOf(cur)[j].token # t
=============================================================================
