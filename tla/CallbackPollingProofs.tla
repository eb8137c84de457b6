----------------------- MODULE CallbackPollingProofs ------------------------
(***************************************************************************)
(* However often the service is reloaded and whatever people press: a bot  *)
(* has one listener at a time, a press starts the digest of its chat and   *)
(* of no other, and the presses of a bot are a queue from which each is    *)
(* taken once.                                                             *)
(***************************************************************************)
EXTENDS CallbackPolling, FiniteSetTheorems, SequenceTheorems, TLAPS

\* The service waits for its digests no more.
Ended == {"joining", "preparing", "exited"}

\* A listener is one of the generation that runs, has its two goroutines or
\* neither, and is gone when the next generation is prepared.
ListenersInOrder ==
    \A l \in Listeners :
        /\ Alive(l) => l \in Started(cur, settings[cur])
        /\ work[l] = "off" <=> poll[l] \in {"off", "starting"}
        /\ main \in {"preparing", "exited"} => ~Alive(l)

\* A client has the handler of its listener at most.
HandlersInOrder ==
    \A t \in Tokens :
        /\ Len(handlers[t]) <= 1
        /\ \A l \in ToSet(handlers[t]) : TokenOf(l) = t /\ poll[l] \notin {"off", "starting"}

\* Digests run under the settings in force, and none once the service has
\* waited for them.
DigestsInOrder ==
    /\ main # "serving" => stopping[cur] = DOMAIN RecipientsOf(cur)
    /\ main \in Ended => runs = {}
    /\ \A r \in runs :
          /\ r.gen = cur /\ r.recipient \in DOMAIN RecipientsOf(cur)
          /\ r.press \in 0..Len(presses[r.bot])

\* The last of a bot's updates that its client has queued.
Queued(t) == IF Handing(t) = {} THEN offset[t] ELSE offset[t] - 1

\* The updates that wait in a client are in order, and were fetched.
ChannelInOrder(t) ==
    /\ offset[t] <= Len(presses[t]) /\ Len(presses[t]) <= MaxPresses
    /\ \A i \in DOMAIN channel[t] : channel[t][i] <= Queued(t)
    /\ \A i, j \in DOMAIN channel[t] : i < j => channel[t][i] < channel[t][j]

\* A press that was not made has no number, and one that is being answered
\* keeps a worker busy.
FatesInOrder(t) ==
    \A i \in 1..MaxPresses :
        /\ fate[t][i] = "unmade" <=> i > Len(presses[t])
        /\ fate[t][i] = "answering" =>
              \E l \in Listeners : work[l] = "answering" /\ TokenOf(l) = t /\ serving[l].press = i

\* What a bot has sent and its client has queued.
QueueInOrder(t) == ChannelInOrder(t) /\ FatesInOrder(t)

\* A poller hands on an update it has accepted, of a batch it has fetched; a
\* worker answers a press that no longer waits.
BusyInOrder(l) ==
    LET t == TokenOf(l)
    IN  /\ poll[l] = "handing" => offset[t] >= 1 /\ offset[t] <= upto[l] /\ upto[l] <= Len(presses[t])
        /\ work[l] = "answering" =>
              /\ serving[l].press \in 1..Queued(t)
              /\ \A i \in DOMAIN channel[t] : serving[l].press < channel[t][i]
              /\ fate[t][serving[l].press] = "answering"

\* The inductive invariant.
IInv ==
    /\ TypeOK
    /\ ListenersInOrder
    /\ HandlersInOrder
    /\ DigestsInOrder
    /\ \A t \in Tokens : QueueInOrder(t)
    /\ \A l \in Listeners : BusyInOrder(l)
    /\ PressStartsItsDigest

-----------------------------------------------------------------------------
(* Listeners and their bots                                                *)

\* The recipients of a snapshot are a list, each with one of the bots.
LEMMA RecipientTokens ==
    ASSUME NEW s \in Snapshots
    PROVE  /\ DOMAIN Recipients[s] = 1..Len(Recipients[s]) /\ Len(Recipients[s]) \in Nat
           /\ \A i \in DOMAIN Recipients[s] : Recipients[s][i].token \in Tokens
<1> DEFINE R == [expected : ExpectedIds, token : Tokens]
<1>1. \A r \in R : r.token \in Tokens
  OBVIOUS
<1>2. Recipients[s] \in Seq(R)
  BY PollingAssumption
<1> HIDE DEF R
<1>3. DOMAIN Recipients[s] = 1..Len(Recipients[s]) /\ Len(Recipients[s]) \in Nat
  BY <1>2, LenProperties
<1>4. \A i \in 1..Len(Recipients[s]) : Recipients[s][i] \in R
  BY <1>2, ElementOfSeq
<1> QED
  BY <1>1, <1>3, <1>4

\* A listener that runs is one of the current generation, for a bot of its
\* settings.
LEMMA AliveIsCurrent ==
    ASSUME IInv, NEW l \in Listeners, Alive(l)
    PROVE  /\ l[1] = cur /\ l[2] \in Groups(settings[cur]) /\ l[2] \in DOMAIN RecipientsOf(cur)
           /\ TokenOf(l) = RecipientsOf(cur)[l[2]].token /\ TokenOf(l) \in Tokens
           /\ GroupOf(l) = { i \in DOMAIN RecipientsOf(cur) : RecipientsOf(cur)[i].token = TokenOf(l) }
           /\ main \notin {"preparing", "exited"}
<1>1. /\ l[1] = cur /\ l[2] \in Groups(settings[cur]) /\ main \notin {"preparing", "exited"}
      /\ settings[cur] \in Snapshots
  BY DEF IInv, ListenersInOrder, Started, TypeOK
<1>2. l[2] \in DOMAIN RecipientsOf(cur)
  BY <1>1 DEF Groups, RecipientsOf
<1>3. RecipientsOf(cur)[l[2]].token \in Tokens
  BY <1>1, <1>2, RecipientTokens DEF RecipientsOf
<1> QED
  BY <1>1, <1>2, <1>3 DEF TokenOf, GroupOf

\* No two of them are of one bot: a group is known by its first recipient.
LEMMA OneAlive ==
    ASSUME IInv, NEW k \in Listeners, NEW l \in Listeners,
           Alive(k), Alive(l), TokenOf(k) = TokenOf(l)
    PROVE  k = l
<1> DEFINE rs == Recipients[settings[cur]]
<1>1. /\ k[1] = cur /\ k[2] \in Groups(settings[cur]) /\ TokenOf(k) = rs[k[2]].token
      /\ l[1] = cur /\ l[2] \in Groups(settings[cur]) /\ TokenOf(l) = rs[l[2]].token
  BY AliveIsCurrent DEF RecipientsOf
<1>3. /\ k[2] \in DOMAIN rs /\ l[2] \in DOMAIN rs
      /\ \A i \in 1..k[2] - 1 : rs[i].token # rs[k[2]].token
      /\ \A i \in 1..l[2] - 1 : rs[i].token # rs[l[2]].token
  BY <1>1 DEF Groups
<1>4. DOMAIN rs = 1..Len(rs) /\ Len(rs) \in Nat
  BY RecipientTokens DEF IInv, TypeOK
<1> HIDE DEF rs
<1>2. ASSUME NEW i \in DOMAIN rs, NEW j \in DOMAIN rs, rs[i].token = rs[j].token,
             \A h \in 1..j - 1 : rs[h].token # rs[j].token
      PROVE  ~(i < j)
  BY <1>2, <1>4
<1>5. k[2] = l[2]
  <2>1. ~(k[2] < l[2]) /\ ~(l[2] < k[2])
    BY <1>1, <1>2, <1>3
  <2>2. k[2] \in Nat /\ l[2] \in Nat
    BY <1>3, <1>4
  <2> QED
    BY <2>1, <2>2
<1>6. k = <<k[1], k[2]>> /\ l = <<l[1], l[2]>>
  BY DEF Listeners
<1> QED
  BY <1>1, <1>5, <1>6

\* A client has a list of handlers, of one at most.
LEMMA HandlersOf ==
    ASSUME IInv, NEW t \in Tokens
    PROVE  /\ handlers[t] \in Seq(Listeners) /\ ToSet(handlers[t]) \subseteq Listeners
           /\ DOMAIN handlers[t] = 1..Len(handlers[t]) /\ Len(handlers[t]) \in {0, 1}
<1>1. handlers[t] \in Seq(Listeners) /\ Len(handlers[t]) <= 1
  BY DEF IInv, TypeOK, HandlersInOrder
<1>2. DOMAIN handlers[t] = 1..Len(handlers[t]) /\ Len(handlers[t]) \in Nat
  BY <1>1, LenProperties
<1>3. \A i \in 1..Len(handlers[t]) : handlers[t][i] \in Listeners
  BY <1>1, ElementOfSeq
<1>4. Len(handlers[t]) \in {0, 1}
  <2> DEFINE n == Len(handlers[t])
  <2>1. n \in Nat /\ n <= 1
    BY <1>1, <1>2
  <2> HIDE DEF n
  <2>2. n \in {0, 1}
    BY <2>1
  <2> QED
    BY <2>2 DEF n
<1>5. ToSet(handlers[t]) \subseteq Listeners
  BY <1>2, <1>3 DEF ToSet
<1> QED
  BY <1>1, <1>2, <1>4, <1>5

\* The poller of a bot that has a listener is that listener's.
LEMMA HandingIs ==
    ASSUME IInv, NEW l \in Listeners, Alive(l)
    PROVE  Handing(TokenOf(l)) = IF poll[l] = "handing" THEN {l} ELSE {}
<1>1. \A k \in Listeners : poll[k] = "handing" /\ TokenOf(k) = TokenOf(l) => k = l
  BY OneAlive DEF Alive
<1> QED
  BY <1>1 DEF Handing

-----------------------------------------------------------------------------
(* The steps of the service                                                *)

\* A step of the main loop or of a digest, that leaves the clients and the
\* listeners alone.
LEMMA ServiceStep ==
    ASSUME IInv, UNCHANGED <<presses, offset, channel, handlers, fate, cur, settings, poll, upto, work, serving>>,
           main' \in {"serving", "waiting", "joining", "preparing", "exited"},
           stopping' \in [Generations -> SUBSET Slots], runs' \subseteq Run,
           cancelled' \subseteq Generations, shutdown' \in BOOLEAN,
           main' \in {"preparing", "exited"} => \A l \in Listeners : ~Alive(l),
           DigestsInOrder', PressStartsItsDigest'
    PROVE  IInv'
<1>1. TypeOK'
  BY DEF IInv, TypeOK
<1>2. ListenersInOrder'
  BY DEF IInv, ListenersInOrder, Alive, Started
<1>3. \A l \in Listeners : TokenOf(l)' = TokenOf(l)
  BY DEF TokenOf, RecipientsOf
<1>4. HandlersInOrder'
  <2>1. \A t \in Tokens : ToSet(handlers[t]) \subseteq Listeners
    BY HandlersOf
  <2> QED
    BY <1>3, <2>1 DEF IInv, HandlersInOrder, ToSet
<1>5. \A t \in Tokens : Queued(t)' = Queued(t)
  BY <1>3 DEF Queued, Handing
<1>6. ASSUME NEW t \in Tokens PROVE QueueInOrder(t)'
  BY <1>3, <1>5 DEF IInv, QueueInOrder, ChannelInOrder, FatesInOrder
<1>7. ASSUME NEW l \in Listeners PROVE BusyInOrder(l)'
  <2>1. CASE Alive(l)
    <3>1. TokenOf(l) \in Tokens
      BY <2>1, AliveIsCurrent
    <3> QED
      BY <1>3, <1>5, <3>1 DEF IInv, BusyInOrder
  <2>2. CASE ~Alive(l)
    BY <2>2 DEF IInv, ListenersInOrder, Alive, BusyInOrder
  <2> QED
    BY <2>1, <2>2
<1> QED
  BY <1>1, <1>2, <1>4, <1>6, <1>7 DEF IInv

\* The digests are in order as long as nothing is done to them.
LEMMA DigestsStay ==
    ASSUME IInv, UNCHANGED <<presses, main, cur, settings, stopping, runs>>
    PROVE  DigestsInOrder' /\ PressStartsItsDigest'
BY DEF IInv, DigestsInOrder, PressStartsItsDigest, RecipientsOf, Matches

\* A scheduled or startup digest starts under the settings in force.
LEMMA StartOtherStep ==
    ASSUME IInv, NEW g \in Generations, NEW i \in Slots, StartOther(g, i)
    PROVE  IInv'
<1> DEFINE r == [gen |-> g, recipient |-> i, bot |-> RecipientsOf(g)[i].token, press |-> 0]
<1>1. /\ g = cur /\ i \in DOMAIN RecipientsOf(g) /\ i \notin stopping[g] /\ runs' = runs \cup {r}
      /\ UNCHANGED <<presses, offset, channel, handlers, fate, main, cur, settings, cancelled, shutdown,
                     stopping, poll, upto, work, serving>>
  BY DEF StartOther, client, service, listener
<1>2. main = "serving" /\ TypeOK
  BY <1>1 DEF IInv, DigestsInOrder
<1>3. r.bot \in Tokens
  BY <1>1, <1>2, RecipientTokens DEF TypeOK, RecipientsOf
<1>4. r \in Run
  BY <1>3, PollingAssumption DEF Run
<1>5. /\ r.gen = cur /\ r.recipient \in DOMAIN RecipientsOf(cur) /\ r.press = 0
      /\ Len(presses[r.bot]) \in Nat
  BY <1>1, <1>2, <1>3 DEF TypeOK
<1> HIDE DEF r
<1>6. DigestsInOrder'
  BY <1>1, <1>2, <1>5 DEF IInv, DigestsInOrder, Ended, RecipientsOf
<1>7. PressStartsItsDigest'
  BY <1>1, <1>5 DEF IInv, PressStartsItsDigest, RecipientsOf, Matches
<1> QED
  BY <1>1, <1>2, <1>4, <1>6, <1>7, ServiceStep DEF TypeOK

\* A digest ends.
LEMMA FinishStep ==
    ASSUME IInv, NEW r \in runs, Finish(r)
    PROVE  IInv'
<1>1. /\ runs' \subseteq runs
      /\ UNCHANGED <<presses, offset, channel, handlers, fate, main, cur, settings, cancelled, shutdown,
                     stopping, poll, upto, work, serving>>
  BY DEF Finish, client, service, listener
<1>2. DigestsInOrder'
  BY <1>1 DEF IInv, DigestsInOrder, Ended, RecipientsOf
<1>3. PressStartsItsDigest'
  BY <1>1 DEF IInv, PressStartsItsDigest, RecipientsOf, Matches
<1> QED
  BY <1>1, <1>2, <1>3, ServiceStep DEF IInv, TypeOK, ListenersInOrder

\* A process that is told to stop, and the end of a generation.
LEMMA StopStep ==
    ASSUME IInv, Shutdown \/ RequestStop \/ RunsEnded \/ ListenersEnded \/ ReloadAborted
    PROVE  IInv'
<1>1. UNCHANGED <<presses, offset, channel, handlers, fate, cur, settings, runs, poll, upto, work, serving>>
  BY DEF Shutdown, RequestStop, RunsEnded, ListenersEnded, ReloadAborted, client, listener, digests
<1>2. TypeOK
  BY DEF IInv
<1>3. /\ main' \in {"serving", "waiting", "joining", "preparing", "exited"}
      /\ cancelled' \subseteq Generations /\ shutdown' \in BOOLEAN
  BY <1>2 DEF Shutdown, RequestStop, RunsEnded, ListenersEnded, ReloadAborted, Goto, TypeOK
<1>4. /\ stopping' \in [Generations -> SUBSET Slots]
      /\ main' # "serving" => stopping'[cur] = DOMAIN RecipientsOf(cur)
      /\ main' \in Ended => runs = {}
      /\ main' \in {"preparing", "exited"} => \A l \in Listeners : ~Alive(l)
  <2>1. DOMAIN RecipientsOf(cur) \subseteq Slots
    BY <1>2 DEF RecipientsOf, Slots, TypeOK
  <2>2. CASE Shutdown
    BY <1>2, <2>2 DEF Shutdown, digests, IInv, DigestsInOrder, ListenersInOrder, TypeOK
  <2>3. CASE RequestStop
    BY <1>2, <2>1, <2>3 DEF RequestStop, Goto, Ended, TypeOK
  <2>4. CASE RunsEnded
    <3>1. runs = {}
      BY <2>4 DEF RunsEnded, IInv, DigestsInOrder
    <3> QED
      BY <1>2, <2>4, <3>1 DEF RunsEnded, Goto, digests, IInv, DigestsInOrder, TypeOK
  <2>5. CASE ListenersEnded
    BY <1>2, <2>5 DEF ListenersEnded, Goto, digests, IInv, DigestsInOrder, Ended, ListenersInOrder, TypeOK
  <2>6. CASE ReloadAborted
    BY <1>2, <2>6 DEF ReloadAborted, Goto, digests, IInv, DigestsInOrder, Ended, ListenersInOrder, TypeOK
  <2> QED
    BY <2>2, <2>3, <2>4, <2>5, <2>6
<1>5. DigestsInOrder'
  BY <1>1, <1>4 DEF IInv, DigestsInOrder, Ended, RecipientsOf
<1>6. PressStartsItsDigest'
  BY <1>1 DEF IInv, PressStartsItsDigest, RecipientsOf, Matches
<1> QED
  BY <1>1, <1>2, <1>3, <1>4, <1>5, <1>6, ServiceStep DEF TypeOK

-----------------------------------------------------------------------------
(* The steps of a listener                                                 *)

\* The listeners of the other bots do nothing.
OthersStay(l) ==
    \A k \in Listeners \ {l} :
        poll'[k] = poll[k] /\ upto'[k] = upto[k] /\ work'[k] = work[k] /\ serving'[k] = serving[k]

\* The queues and the clients of the other bots stay as they are.
ElsewhereStays(t) ==
    \A u \in Tokens \ {t} :
        /\ offset'[u] = offset[u] /\ channel'[u] = channel[u]
        /\ handlers'[u] = handlers[u] /\ fate'[u] = fate[u]

\* What the main loop and the digests rest on.
ServiceStays == UNCHANGED <<presses, main, cur, settings, cancelled, shutdown, stopping>>

\* The same, once a listener has moved.
LEMMA HandingBecomes ==
    ASSUME IInv, NEW l \in Listeners, Alive(l), OthersStay(l), UNCHANGED settings
    PROVE  /\ Handing(TokenOf(l))' = IF poll'[l] = "handing" THEN {l} ELSE {}
           /\ \A u \in Tokens \ {TokenOf(l)} : Handing(u)' = Handing(u)
           /\ \A k \in Listeners : TokenOf(k)' = TokenOf(k)
<1>1. \A k \in Listeners : TokenOf(k)' = TokenOf(k)
  BY DEF TokenOf, RecipientsOf
<1>2. \A k \in Listeners \ {l} : poll'[k] = "handing" => TokenOf(k) # TokenOf(l)
  BY OneAlive DEF OthersStay, Alive
<1>3. Handing(TokenOf(l))' = IF poll'[l] = "handing" THEN {l} ELSE {}
  BY <1>1, <1>2 DEF Handing
<1>4. \A u \in Tokens \ {TokenOf(l)} : Handing(u)' = Handing(u)
  BY <1>1 DEF Handing, OthersStay
<1> QED
  BY <1>1, <1>3, <1>4

\* A step of one listener, with its bot's client, is right when it is right
\* for the two.
LEMMA ListenerStep ==
    ASSUME IInv, NEW l \in Listeners, Alive(l), NEW t \in Tokens, TokenOf(l) = t,
           ServiceStays, OthersStay(l), ElsewhereStays(t), TypeOK',
           work'[l] = "off" <=> poll'[l] \in {"off", "starting"},
           Len(handlers'[t]) <= 1,
           \A k \in ToSet(handlers'[t]) : k = l /\ poll'[l] \notin {"off", "starting"},
           QueueInOrder(t)', BusyInOrder(l)', DigestsInOrder', PressStartsItsDigest'
    PROVE  IInv'
<1>1. /\ main \notin {"preparing", "exited"}
      /\ Handing(t)' = IF poll'[l] = "handing" THEN {l} ELSE {}
      /\ \A u \in Tokens \ {t} : Handing(u)' = Handing(u)
      /\ \A k \in Listeners : TokenOf(k)' = TokenOf(k)
  BY AliveIsCurrent, HandingBecomes DEF ServiceStays
<1>2. ListenersInOrder'
  <2>1. l \in Started(cur, settings[cur])
    BY DEF IInv, ListenersInOrder
  <2>2. ASSUME NEW k \in Listeners \ {l}
        PROVE  /\ Alive(k)' => k \in Started(cur, settings[cur])'
               /\ work'[k] = "off" <=> poll'[k] \in {"off", "starting"}
    BY DEF IInv, ListenersInOrder, OthersStay, ServiceStays, Alive, Started
  <2> QED
    BY <1>1, <2>1, <2>2 DEF ListenersInOrder, ServiceStays, Started
<1>3. HandlersInOrder'
  <2>1. ASSUME NEW u \in Tokens \ {t}, NEW k \in ToSet(handlers[u])
        PROVE  TokenOf(k)' = u /\ poll'[k] \notin {"off", "starting"}
    <3>1. k \in Listeners /\ TokenOf(k) = u /\ poll[k] \notin {"off", "starting"}
      BY HandlersOf DEF IInv, HandlersInOrder
    <3>2. k # l
      BY <3>1
    <3> QED
      BY <1>1, <3>1, <3>2 DEF OthersStay
  <2>2. \A u \in Tokens \ {t} : handlers'[u] = handlers[u] /\ Len(handlers[u]) <= 1
    BY DEF IInv, HandlersInOrder, ElsewhereStays
  <2>3. TokenOf(l)' = t
    BY <1>1
  <2>4. ASSUME NEW u \in Tokens
        PROVE  /\ Len(handlers'[u]) <= 1
               /\ \A k \in ToSet(handlers'[u]) : TokenOf(k)' = u /\ poll'[k] \notin {"off", "starting"}
    <3>1. CASE u = t
      BY <2>3, <3>1
    <3>2. CASE u # t
      BY <2>1, <2>2, <3>2
    <3> QED
      BY <3>1, <3>2
  <2> QED
    BY <2>4 DEF HandlersInOrder
<1>4. \A u \in Tokens \ {t} : Queued(u)' = Queued(u)
  BY <1>1 DEF Queued, ElsewhereStays
<1>5. ASSUME NEW u \in Tokens PROVE QueueInOrder(u)'
  <2>1. CASE u # t
    <3>1. /\ offset'[u] = offset[u] /\ channel'[u] = channel[u] /\ fate'[u] = fate[u]
          /\ presses' = presses /\ Queued(u)' = Queued(u) /\ QueueInOrder(u)
      BY <1>4, <2>1 DEF ElsewhereStays, ServiceStays, IInv
    <3>2. ASSUME NEW k \in Listeners, TokenOf(k) = u
          PROVE  /\ TokenOf(k)' = u /\ work'[k] = work[k] /\ serving'[k] = serving[k]
      BY <1>1, <2>1, <3>2 DEF OthersStay
    <3> QED
      BY <3>1, <3>2 DEF QueueInOrder, ChannelInOrder, FatesInOrder
  <2>2. CASE u = t
    BY <2>2
  <2> QED
    BY <2>1, <2>2
<1>6. ASSUME NEW k \in Listeners PROVE BusyInOrder(k)'
  <2>1. CASE k = l
    BY <2>1
  <2>2. CASE k # l /\ Alive(k)
    <3>1. TokenOf(k) \in Tokens \ {t}
      BY <2>2, OneAlive, AliveIsCurrent
    <3> QED
      BY <1>1, <1>4, <2>2, <3>1 DEF IInv, BusyInOrder, OthersStay, ElsewhereStays, ServiceStays
  <2>3. CASE k # l /\ ~Alive(k)
    <3>1. poll'[k] = "off" /\ work'[k] = "off"
      BY <2>3 DEF IInv, ListenersInOrder, OthersStay, Alive
    <3> QED
      BY <3>1 DEF BusyInOrder
  <2> QED
    BY <2>1, <2>2, <2>3
<1> QED
  BY <1>2, <1>3, <1>5, <1>6 DEF IInv

\* What a listener that runs knows of its bot.
LEMMA BotOf ==
    ASSUME IInv, NEW l \in Listeners, Alive(l), NEW t \in Tokens, TokenOf(l) = t
    PROVE  /\ TypeOK /\ MaxPresses \in Nat
           /\ offset[t] \in Nat /\ offset[t] <= Len(presses[t])
           /\ Len(presses[t]) \in Nat /\ Len(presses[t]) <= MaxPresses
           /\ Queued(t) = IF poll[l] = "handing" THEN offset[t] - 1 ELSE offset[t]
           /\ channel[t] \in Seq(1..MaxPresses)
           /\ DOMAIN channel[t] = 1..Len(channel[t]) /\ Len(channel[t]) \in Nat
           /\ \A i \in DOMAIN channel[t] : channel[t][i] \in 1..MaxPresses /\ channel[t][i] <= Queued(t)
           /\ \A i, j \in DOMAIN channel[t] : i < j => channel[t][i] < channel[t][j]
           /\ \A i \in 1..MaxPresses :
                 /\ fate[t][i] = "unmade" <=> i > Len(presses[t])
                 /\ fate[t][i] = "answering" <=> work[l] = "answering" /\ serving[l].press = i
           /\ BusyInOrder(l)
<1>1. TypeOK /\ QueueInOrder(t) /\ BusyInOrder(l) /\ MaxPresses \in Nat
  BY PollingAssumption DEF IInv
<1>2. Len(presses[t]) \in Nat /\ presses[t] \in Seq(Buttons)
  BY <1>1, LenProperties DEF TypeOK
<1>3. /\ offset[t] \in Nat /\ offset[t] <= Len(presses[t])
      /\ Len(presses[t]) \in Nat /\ Len(presses[t]) <= MaxPresses
  BY <1>1, <1>2 DEF TypeOK, QueueInOrder, ChannelInOrder
<1>4. Queued(t) = IF poll[l] = "handing" THEN offset[t] - 1 ELSE offset[t]
  BY HandingIs DEF Queued
<1>5. channel[t] \in Seq(1..MaxPresses)
  BY <1>1 DEF TypeOK
<1>6. /\ DOMAIN channel[t] = 1..Len(channel[t]) /\ Len(channel[t]) \in Nat
      /\ \A i \in 1..Len(channel[t]) : channel[t][i] \in 1..MaxPresses
  BY <1>5, LenProperties, ElementOfSeq
<1>7. ASSUME NEW i \in 1..MaxPresses, fate[t][i] = "answering"
      PROVE  work[l] = "answering" /\ serving[l].press = i
  <2>1. PICK k \in Listeners : work[k] = "answering" /\ TokenOf(k) = t /\ serving[k].press = i
    BY <1>1, <1>7 DEF QueueInOrder, FatesInOrder
  <2>2. Alive(k)
    BY <2>1 DEF IInv, ListenersInOrder, Alive
  <2>3. k = l
    BY <2>1, <2>2, OneAlive
  <2> QED
    BY <2>1, <2>3
<1>8. ASSUME work[l] = "answering" PROVE fate[t][serving[l].press] = "answering"
  BY <1>1, <1>8 DEF BusyInOrder
<1> QED
  BY <1>1, <1>3, <1>4, <1>5, <1>6, <1>7, <1>8 DEF QueueInOrder, ChannelInOrder, FatesInOrder

\* A worker that serves nothing has a value of its type.
LEMMA NoPressIsTyped == NoPress \in [handler : Listeners, press : 0..MaxPresses]
<1>1. 1 \in Generations /\ 0 \in 0..MaxPresses
  BY PollingAssumption DEF Generations
<1>2. 1 \in Slots
  <2>1. Recipients[Initial] # <<>> /\ Initial \in Snapshots
    BY PollingAssumption
  <2>2. Recipients[Initial] \in Seq([expected : ExpectedIds, token : Tokens])
    BY <2>1, PollingAssumption
  <2>3. 1 \in DOMAIN Recipients[Initial]
    BY <2>1, <2>2, EmptySeq, LenProperties
  <2> QED
    BY <2>1, <2>3 DEF Slots
<1> QED
  BY <1>1, <1>2 DEF NoPress, Listeners

\* Only the listener's own poller changes what its bot's client has queued.
LEMMA QueuedBecomes ==
    ASSUME IInv, NEW l \in Listeners, Alive(l), NEW t \in Tokens, TokenOf(l) = t,
           ServiceStays, OthersStay(l)
    PROVE  Queued(t)' = IF poll'[l] = "handing" THEN offset'[t] - 1 ELSE offset'[t]
<1>1. Handing(t)' = IF poll'[l] = "handing" THEN {l} ELSE {}
  BY HandingBecomes DEF ServiceStays
<1> QED
  BY <1>1 DEF Queued

\* A listener's step, said of its bot's client and of its two goroutines.
LEMMA ClientStep ==
    ASSUME IInv, NEW l \in Listeners, Alive(l), NEW t \in Tokens, TokenOf(l) = t,
           ServiceStays, OthersStay(l), ElsewhereStays(t), TypeOK',
           work'[l] = "off" <=> poll'[l] \in {"off", "starting"},
           Len(handlers'[t]) <= 1,
           \A k \in ToSet(handlers'[t]) : k = l /\ poll'[l] \notin {"off", "starting"},
           DigestsInOrder', PressStartsItsDigest',
           offset'[t] <= Len(presses[t]),
           \A i \in DOMAIN channel'[t] : channel'[t][i] <= Queued(t)',
           \A i, j \in DOMAIN channel'[t] : i < j => channel'[t][i] < channel'[t][j],
           \A i \in 1..MaxPresses :
              /\ fate'[t][i] = "unmade" <=> i > Len(presses[t])
              /\ fate'[t][i] = "answering" => work'[l] = "answering" /\ serving'[l].press = i,
           poll'[l] = "handing" =>
              offset'[t] >= 1 /\ offset'[t] <= upto'[l] /\ upto'[l] <= Len(presses[t]),
           work'[l] = "answering" =>
              /\ serving'[l].press \in 1..Queued(t)'
              /\ \A i \in DOMAIN channel'[t] : serving'[l].press < channel'[t][i]
              /\ fate'[t][serving'[l].press] = "answering"
    PROVE  IInv'
<1>1. TokenOf(l)' = t
  BY HandingBecomes DEF ServiceStays
<1>2. presses' = presses /\ Len(presses[t]) <= MaxPresses
  BY BotOf DEF ServiceStays
<1>3. QueueInOrder(t)'
  BY <1>1, <1>2 DEF QueueInOrder, ChannelInOrder, FatesInOrder
<1>4. BusyInOrder(l)'
  BY <1>1, <1>2 DEF BusyInOrder
<1> QED
  BY <1>3, <1>4, ListenerStep

\* What a step that leaves the digests alone leaves in order.
LEMMA RunsStay ==
    ASSUME IInv, ServiceStays, runs' = runs
    PROVE  DigestsInOrder' /\ PressStartsItsDigest'
BY DigestsStay DEF ServiceStays

\* Removing its only handler leaves a client none.
LEMMA RemoveOnly ==
    ASSUME NEW S, NEW s \in Seq(S), Len(s) \in {0, 1}, NEW e, \A x \in ToSet(s) : x = e
    PROVE  RemoveFirst(s, e) = <<>>
<1>1. CASE Len(s) = 0
  <2>1. s = <<>> /\ ~\E i \in 1..Len(s) : s[i] = e
    BY <1>1, EmptySeq
  <2> QED
    BY <2>1 DEF RemoveFirst
<1>2. CASE Len(s) = 1
  <2>1. DOMAIN s = 1..1 /\ s[1] = e
    BY <1>2, LenProperties DEF ToSet
  <2>2. { i \in 1..Len(s) : s[i] = e } = {1}
    BY <1>2, <2>1
  <2>3. Min({1}) = 1
    BY DEF Min
  <2>4. SelectInSeq(s, LAMBDA v : v = e) = 1
    BY <2>2, <2>3 DEF SelectInSeq
  <2>5. RemoveFirst(s, e) = RemoveAt(s, 1)
    BY <1>2, <2>1, <2>4 DEF RemoveFirst
  <2>6. RemoveAt(s, 1) = SubSeq(s, 1, 0) \o SubSeq(s, 2, 1)
    BY <1>2 DEF RemoveAt
  <2>7. SubSeq(s, 1, 0) = <<>> /\ SubSeq(s, 2, 1) = <<>>
    BY SubSeqEmpty
  <2> QED
    BY <2>5, <2>6, <2>7
<1> QED
  BY <1>1, <1>2

\* A listener registers its handler or removes it.
LEMMA ListenSteps ==
    ASSUME IInv, NEW l \in Listeners, Listen(l) \/ Unlisten(l)
    PROVE  IInv'
<1>1. /\ ServiceStays /\ runs' = runs
      /\ UNCHANGED <<offset, channel, fate, upto, serving>>
      /\ poll[l] \in {"starting", "ended"} /\ poll'[l] \in {"polling", "off"}
      /\ work'[l] = IF poll'[l] = "off" THEN "off" ELSE "waiting"
      /\ poll' \in [Listeners -> {"off", "starting", "polling", "handing", "ended"}]
      /\ work' \in [Listeners -> {"off", "waiting", "answering", "ended"}]
      /\ work[l] # "answering"
      /\ OthersStay(l)
  BY DEF Listen, Unlisten, service, digests, ServiceStays, OthersStay, IInv, TypeOK, ListenersInOrder
<1>2. Alive(l) /\ TypeOK
  BY <1>1 DEF Alive, IInv
<1>3. PICK t \in Tokens : TokenOf(l) = t
  BY <1>2, AliveIsCurrent
<1>4. /\ handlers[t] \in Seq(Listeners) /\ ToSet(handlers[t]) \subseteq Listeners
      /\ DOMAIN handlers[t] = 1..Len(handlers[t]) /\ Len(handlers[t]) \in {0, 1}
      /\ \A k \in ToSet(handlers[t]) : k = l /\ poll[l] # "starting"
  <2>1. \A k \in ToSet(handlers[t]) : TokenOf(k) = t /\ Alive(k) /\ poll[k] # "starting"
    BY <1>3 DEF IInv, HandlersInOrder, Alive
  <2> QED
    BY <1>2, <1>3, <2>1, HandlersOf, OneAlive
<1>5. /\ handlers' \in [Tokens -> Seq(Listeners)] /\ \A u \in Tokens \ {t} : handlers'[u] = handlers[u]
      /\ handlers'[t] = IF poll'[l] = "off" THEN <<>> ELSE <<l>>
  <2>1. CASE Listen(l)
    <3>1. handlers' = [handlers EXCEPT ![t] = Append(handlers[t], l)] /\ poll[l] = "starting"
          /\ poll'[l] = "polling"
      BY <1>2, <1>3, <2>1 DEF Listen, TypeOK
    <3>2. ToSet(handlers[t]) = {}
      BY <1>4, <3>1
    <3>3. ASSUME Len(handlers[t]) = 1 PROVE FALSE
      <4>1. 1 \in DOMAIN handlers[t]
        BY <1>4, <3>3
      <4> QED
        BY <3>2, <4>1 DEF ToSet
    <3>4. handlers[t] = <<>>
      BY <1>4, <3>3, EmptySeq
    <3>5. Append(handlers[t], l) = <<l>> /\ <<l>> \in Seq(Listeners)
      BY <3>4
    <3> QED
      BY <1>2, <1>3, <3>1, <3>5 DEF TypeOK
  <2>2. CASE Unlisten(l)
    <3>1. handlers' = [handlers EXCEPT ![t] = RemoveFirst(handlers[t], l)] /\ poll'[l] = "off"
      BY <1>2, <1>3, <2>2 DEF Unlisten, TypeOK
    <3>2. RemoveFirst(handlers[t], l) = <<>>
      BY <1>4, RemoveOnly
    <3> QED
      BY <1>2, <1>3, <3>1, <3>2 DEF TypeOK
  <2> QED
    BY <2>1, <2>2
<1>6. TypeOK'
  BY <1>1, <1>2, <1>5 DEF TypeOK, ServiceStays
<1>7. Len(handlers'[t]) <= 1 /\ \A k \in ToSet(handlers'[t]) : k = l /\ poll'[l] \notin {"off", "starting"}
  BY <1>1, <1>5 DEF ToSet
<1>8. DigestsInOrder' /\ PressStartsItsDigest'
  BY <1>1, RunsStay
<1>9. ElsewhereStays(t)
  BY <1>1, <1>5 DEF ElsewhereStays
<1>10. /\ offset'[t] <= Len(presses[t])
       /\ \A i \in DOMAIN channel'[t] : channel'[t][i] <= Queued(t)'
       /\ \A i, j \in DOMAIN channel'[t] : i < j => channel'[t][i] < channel'[t][j]
       /\ \A i \in 1..MaxPresses :
             (fate'[t][i] = "unmade" <=> i > Len(presses[t])) /\ fate'[t][i] # "answering"
  BY <1>1, <1>2, <1>3, BotOf, QueuedBecomes, SMTT(30)
<1>11. work'[l] # "answering" /\ poll'[l] # "handing" /\ (work'[l] = "off" <=> poll'[l] \in {"off", "starting"})
  BY <1>1
<1> QED
  BY <1>1, <1>2, <1>3, <1>6, <1>7, <1>8, <1>9, <1>10, <1>11, ClientStep

\* A bot's client and the listener that uses it, in order and in numbers.
Client(l, t, o, made, p, c, n) ==
    /\ o = offset[t] /\ made = Len(presses[t]) /\ p = serving[l].press
    /\ c = channel[t] /\ n = Len(c)
    /\ o <= made /\ made <= MaxPresses
    /\ DOMAIN c = 1..n
    /\ \A i \in 1..n : c[i] \in Nat /\ c[i] >= 1 /\ c[i] <= o
    /\ \A i, j \in 1..n : i < j => c[i] < c[j]
    /\ \A i \in 1..MaxPresses :
          /\ fate[t][i] = "unmade" <=> i > made
          /\ fate[t][i] = "answering" => work[l] = "answering" /\ i = p
    /\ poll[l] = "handing" =>
          /\ o >= 1 /\ o <= upto[l] /\ upto[l] <= made
          /\ \A i \in 1..n : c[i] < o
    /\ work[l] = "answering" =>
          /\ p >= 1 /\ p <= o /\ (poll[l] = "handing" => p < o)
          /\ \A i \in 1..n : p < c[i]
          /\ fate[t][p] = "answering"

\* The state of a listener's bot, its counters named, as the steps below use it.
LEMMA ClientOf ==
    ASSUME IInv, NEW l \in Listeners, Alive(l), NEW t \in Tokens, TokenOf(l) = t
    PROVE  \E o, made, p, n \in Nat, c \in Seq(1..MaxPresses) : Client(l, t, o, made, p, c, n)
<1>1. /\ TypeOK /\ BusyInOrder(l) /\ MaxPresses \in Nat
      /\ offset[t] <= Len(presses[t]) /\ Len(presses[t]) <= MaxPresses
      /\ Queued(t) = IF poll[l] = "handing" THEN offset[t] - 1 ELSE offset[t]
      /\ DOMAIN channel[t] = 1..Len(channel[t])
      /\ \A i \in DOMAIN channel[t] : channel[t][i] \in 1..MaxPresses /\ channel[t][i] <= Queued(t)
      /\ \A i, j \in DOMAIN channel[t] : i < j => channel[t][i] < channel[t][j]
      /\ \A i \in 1..MaxPresses :
            /\ fate[t][i] = "unmade" <=> i > Len(presses[t])
            /\ fate[t][i] = "answering" <=> work[l] = "answering" /\ serving[l].press = i
  BY BotOf
<1>2. PICK o \in Nat : o = offset[t]
  BY BotOf
<1>3. PICK made \in Nat : made = Len(presses[t])
  BY BotOf
<1>4. PICK p \in Nat : p = serving[l].press
  BY <1>1 DEF TypeOK
<1>5. PICK c \in Seq(1..MaxPresses) : c = channel[t]
  BY BotOf
<1>6. PICK n \in Nat : n = Len(c)
  BY <1>5, BotOf
<1>7. PICK q \in Int : q = Queued(t) /\ q = IF poll[l] = "handing" THEN o - 1 ELSE o
  BY <1>1, <1>2
<1>8. o <= made /\ made <= MaxPresses /\ DOMAIN c = 1..n
  BY <1>1, <1>2, <1>3, <1>5, <1>6
<1>9. ASSUME NEW i \in 1..n
      PROVE  c[i] \in Nat /\ c[i] >= 1 /\ c[i] <= o /\ (poll[l] = "handing" => c[i] < o)
  <2>1. c[i] \in 1..MaxPresses /\ c[i] <= q
    BY <1>1, <1>5, <1>7, <1>8
  <2> QED
    BY <1>1, <1>7, <2>1
<1>10. \A i, j \in 1..n : i < j => c[i] < c[j]
  BY <1>1, <1>5, <1>8
<1>11. \A i \in 1..MaxPresses :
          /\ fate[t][i] = "unmade" <=> i > made
          /\ fate[t][i] = "answering" => work[l] = "answering" /\ i = p
  BY <1>1, <1>3, <1>4
<1>12. poll[l] = "handing" => o >= 1 /\ o <= upto[l] /\ upto[l] <= made
  BY <1>1, <1>2, <1>3 DEF BusyInOrder
<1>13. work[l] = "answering" =>
          /\ p >= 1 /\ p <= o /\ (poll[l] = "handing" => p < o)
          /\ \A i \in 1..n : p < c[i]
          /\ fate[t][p] = "answering"
  <2>1. work[l] = "answering" =>
          /\ p \in 1..q /\ \A i \in DOMAIN c : p < c[i]
          /\ fate[t][p] = "answering"
    BY <1>1, <1>4, <1>5, <1>7 DEF BusyInOrder
  <2> QED
    BY <1>7, <1>8, <2>1
<1>14. Client(l, t, o, made, p, c, n)
  BY <1>2, <1>3, <1>4, <1>5, <1>6, <1>8, <1>9, <1>10, <1>11, <1>12, <1>13 DEF Client
<1> QED
  BY <1>14

\* A step that leaves a bot's client in order again, and no other's.
LEMMA ClientMoves ==
    ASSUME IInv, NEW l \in Listeners, Alive(l), NEW t \in Tokens, TokenOf(l) = t,
           ServiceStays, OthersStay(l), ElsewhereStays(t), TypeOK', handlers' = handlers,
           poll'[l] \notin {"off", "starting"}, work'[l] # "off",
           DigestsInOrder', PressStartsItsDigest',
           NEW o \in Nat, NEW made \in Nat, NEW p \in Nat, NEW n \in Nat, NEW c,
           Client(l, t, o, made, p, c, n)'
    PROVE  IInv'
<1>1. /\ o = offset'[t] /\ made = Len(presses[t]) /\ p = serving'[l].press
      /\ c = channel'[t] /\ o <= made
      /\ DOMAIN c = 1..n
      /\ \A i \in 1..n : c[i] \in Nat /\ c[i] <= o
      /\ \A i, j \in 1..n : i < j => c[i] < c[j]
      /\ poll'[l] = "handing" =>
            /\ o >= 1 /\ o <= upto'[l] /\ upto'[l] <= made
            /\ \A i \in 1..n : c[i] < o
      /\ work'[l] = "answering" =>
            /\ p >= 1 /\ p <= o /\ (poll'[l] = "handing" => p < o)
            /\ \A i \in 1..n : p < c[i]
            /\ fate'[t][p] = "answering"
  BY DEF Client, ServiceStays
<1>2. \A i \in 1..MaxPresses :
         /\ fate'[t][i] = "unmade" <=> i > Len(presses[t])
         /\ fate'[t][i] = "answering" => work'[l] = "answering" /\ serving'[l].press = i
  BY DEF Client, ServiceStays
<1>3. Len(handlers'[t]) <= 1
  BY DEF IInv, HandlersInOrder
<1>4. \A k \in ToSet(handlers'[t]) : k = l
  <2>1. \A k \in ToSet(handlers[t]) : TokenOf(k) = t /\ Alive(k)
    BY DEF IInv, HandlersInOrder, Alive
  <2> QED
    BY <2>1, HandlersOf, OneAlive
<1>5. PICK q \in Int : q = Queued(t)' /\ q = IF poll'[l] = "handing" THEN o - 1 ELSE o
  BY <1>1, QueuedBecomes
<1>6. \A i \in DOMAIN channel'[t] : channel'[t][i] <= Queued(t)'
  <2>1. ASSUME NEW i \in 1..n PROVE c[i] <= q
    <3>1. c[i] \in Nat /\ c[i] <= o /\ (poll'[l] = "handing" => c[i] < o)
      BY <1>1
    <3> QED
      BY <1>5, <3>1
  <2> QED
    BY <1>1, <1>5, <2>1
<1>7. \A i, j \in DOMAIN channel'[t] : i < j => channel'[t][i] < channel'[t][j]
  BY <1>1
<1>8. work'[l] = "answering" =>
         /\ serving'[l].press \in 1..Queued(t)'
         /\ \A i \in DOMAIN channel'[t] : serving'[l].press < channel'[t][i]
         /\ fate'[t][serving'[l].press] = "answering"
  <2>1. work'[l] = "answering" => p \in 1..q
    BY <1>1, <1>5
  <2> QED
    BY <1>1, <1>5, <2>1
<1>9. poll'[l] = "handing" =>
         offset'[t] >= 1 /\ offset'[t] <= upto'[l] /\ upto'[l] <= Len(presses[t])
  BY <1>1
<1>10. offset'[t] <= Len(presses[t])
  BY <1>1
<1> QED
  BY <1>2, <1>3, <1>4, <1>6, <1>7, <1>8, <1>9, <1>10, ClientStep

-----------------------------------------------------------------------------
(* The queue of a bot: of its k updates the first n are queued by its      *)
(* client, and those after the one numbered q are not.                     *)

\* That queue.
Line(c, n, q, k) == [i \in 1..k |-> IF i <= n THEN c[i] ELSE q + (i - n)]

\* It is a sequence of k updates.
LEMMA LineIsSequence ==
    ASSUME NEW n \in Nat, NEW q \in Nat, NEW k \in Nat, n <= k,
           NEW c, \A i \in 1..n : c[i] \in Nat
    PROVE  /\ Line(c, n, q, k) \in Seq(Nat) /\ Len(Line(c, n, q, k)) = k /\ DOMAIN Line(c, n, q, k) = 1..k
           /\ \A i \in 1..n : Line(c, n, q, k)[i] = c[i]
           /\ \A i \in 1..k : i > n => Line(c, n, q, k)[i] = q + (i - n)
           /\ \A i \in 1..k : Line(c, n, q, k)[i] \in Nat
<1>1. PICK s : s = [i \in 1..k |-> IF i <= n THEN c[i] ELSE q + (i - n)]
  OBVIOUS
<1>3. \A i \in 1..k : s[i] = IF i <= n THEN c[i] ELSE q + (i - n)
  BY <1>1
<1>4. ASSUME NEW i \in 1..n PROVE s[i] = c[i]
  <2>1. i \in 1..k /\ i <= n
    OBVIOUS
  <2> QED
    BY <1>3, <2>1
<1>5. ASSUME NEW i \in 1..k, i > n PROVE s[i] = q + (i - n)
  <2>1. ~(i <= n)
    BY <1>5
  <2> QED
    BY <1>3, <2>1
<1>6. ASSUME NEW i \in 1..k PROVE s[i] \in Nat
  <2>1. CASE i <= n
    <3>1. i \in 1..n
      BY <2>1
    <3> QED
      BY <1>4, <3>1
  <2>2. CASE i > n
    BY <1>5, <2>2
  <2> QED
    BY <2>1, <2>2
<1>7. s \in [1..k -> Nat] /\ DOMAIN s = 1..k
  BY <1>1, <1>6
<1>8. s \in Seq(Nat) /\ Len(s) = k
  BY <1>7
<1>9. Line(c, n, q, k) = s
  BY <1>1 DEF Line
<1> QED
  BY <1>4, <1>5, <1>6, <1>7, <1>8, <1>9

\* A sequence has the elements of that queue.
IsLine(r, c, n, q, k) ==
    /\ n <= k /\ \A i \in 1..n : c[i] \in Nat
    /\ r \in Seq(Nat) /\ Len(r) = k
    /\ \A i \in 1..n : r[i] = c[i]
    /\ \A i \in 1..k : i > n => r[i] = q + (i - n)

\* Such a sequence is that queue.
LEMMA LineIs ==
    ASSUME NEW n \in Nat, NEW q \in Nat, NEW k \in Nat, NEW c, NEW r, IsLine(r, c, n, q, k)
    PROVE  r = Line(c, n, q, k)
<1>0. /\ n <= k /\ \A i \in 1..n : c[i] \in Nat
      /\ r \in Seq(Nat) /\ Len(r) = k
      /\ \A i \in 1..n : r[i] = c[i]
      /\ \A i \in 1..k : i > n => r[i] = q + (i - n)
  BY DEF IsLine
<1>1. PICK s : s = Line(c, n, q, k)
  OBVIOUS
<1>2. /\ s \in Seq(Nat) /\ Len(s) = k
      /\ \A i \in 1..n : s[i] = c[i]
      /\ \A i \in 1..k : i > n => s[i] = q + (i - n)
  BY <1>0, <1>1, LineIsSequence, SMTT(30)
<1>3. ASSUME NEW i \in 1..k PROVE r[i] = s[i]
  <2>1. CASE i <= n
    <3>1. i \in 1..n
      BY <2>1
    <3> QED
      BY <1>0, <1>2, <3>1
  <2>2. CASE i > n
    BY <1>0, <1>2, <2>2
  <2> QED
    BY <2>1, <2>2
<1>4. r = s
  BY <1>0, <1>2, <1>3, SeqEqual
<1> QED
  BY <1>1, <1>4

\* What waits in the client, the update the poller hands on and what Telegram
\* has, one after the other.
Joined(c, mid, rest) == c \o mid \o rest

\* Three sequences that follow one another: what the client queued, then the g and the k updates after q.
Parts(c, n, mid, g, rest, k, q) ==
    /\ c \in Seq(Nat) /\ n = Len(c)
    /\ mid \in Seq(Nat) /\ g = Len(mid) /\ \A i \in 1..g : mid[i] = q + i
    /\ rest \in Seq(Nat) /\ k = Len(rest) /\ \A i \in 1..k : rest[i] = q + g + i

\* Joined, they are one queue.
LEMMA LineOf ==
    ASSUME NEW c, NEW n \in Nat, NEW mid, NEW g \in Nat, NEW rest, NEW k \in Nat,
           NEW q \in Nat, Parts(c, n, mid, g, rest, k, q)
    PROVE  Joined(c, mid, rest) = Line(c, n, q, n + g + k)
<1>0. /\ c \in Seq(Nat) /\ n = Len(c)
      /\ mid \in Seq(Nat) /\ g = Len(mid) /\ \A i \in 1..g : mid[i] = q + i
  BY DEF Parts
<1>2. rest \in Seq(Nat) /\ Len(rest) = k /\ \A i \in 1..k : rest[i] = q + g + i
  BY DEF Parts
<1>3. PICK d \in Seq(Nat) : d = c \o mid
  BY <1>0, ConcatProperties
<1>4. PICK h \in Nat : h = n + g
  OBVIOUS
<1>5. Len(d) = h /\ \A i \in 1..h : d[i] = IF i <= n THEN c[i] ELSE mid[i - n]
  BY <1>0, <1>3, <1>4, ConcatProperties
<1>6. PICK whole \in Seq(Nat) : whole = d \o rest
  BY <1>2, ConcatProperties
<1>7. Len(whole) = h + k /\ \A i \in 1..h + k : whole[i] = IF i <= h THEN d[i] ELSE rest[i - h]
  <2>1. /\ Len(d \o rest) = Len(d) + Len(rest)
        /\ \A i \in 1..Len(d) + Len(rest) :
              (d \o rest)[i] = IF i <= Len(d) THEN d[i] ELSE rest[i - Len(d)]
    BY <1>2, ConcatProperties
  <2>2. Len(d) = h /\ Len(rest) = k
    BY <1>2, <1>5
  <2> QED
    BY <1>6, <2>1, <2>2
<1>8. PICK m \in Nat : m = h + k
  OBVIOUS
<1>9. \A i \in 1..m : /\ i <= n => whole[i] = d[i] /\ d[i] = c[i]
                      /\ i > n /\ i <= h => whole[i] = mid[i - n]
                      /\ i > h => whole[i] = rest[i - h]
  <2>1. ASSUME NEW i \in 1..m, i <= n PROVE whole[i] = d[i] /\ d[i] = c[i]
    <3>1. i \in 1..h /\ i \in 1..h + k /\ i <= h
      BY <1>4, <1>8, <2>1
    <3> QED
      BY <1>5, <1>7, <2>1, <3>1
  <2>2. ASSUME NEW i \in 1..m, i > n, i <= h PROVE whole[i] = mid[i - n]
    <3>1. i \in 1..h /\ i \in 1..h + k /\ ~(i <= n)
      BY <1>4, <1>8, <2>2
    <3>2. whole[i] = d[i]
      BY <1>7, <2>2, <3>1
    <3>3. d[i] = mid[i - n]
      BY <1>5, <3>1
    <3> QED
      BY <3>2, <3>3
  <2>3. ASSUME NEW i \in 1..m, i > h PROVE whole[i] = rest[i - h]
    <3>1. i \in 1..h + k /\ ~(i <= h)
      BY <1>8, <2>3
    <3> QED
      BY <1>7, <3>1
  <2> QED
    BY <2>1, <2>2, <2>3
<1>10. ASSUME NEW i \in 1..n PROVE whole[i] = c[i]
  <2>1. i \in 1..m /\ i <= n
    BY <1>4, <1>8
  <2> QED
    BY <1>9, <2>1
<1>11. ASSUME NEW i \in 1..m, i > n PROVE whole[i] = q + (i - n)
  <2>1. CASE i <= h
    <3>0. i - n \in 1..g
      BY <1>4, <1>11, <2>1
    <3>1. PICK j \in 1..g : j = i - n
      BY <3>0
    <3>2. whole[i] = mid[j]
      BY <1>9, <1>11, <2>1, <3>1
    <3> QED
      BY <1>0, <3>1, <3>2
  <2>2. CASE i > h
    <3>0. i - h \in 1..k
      BY <1>8, <2>2
    <3>1. PICK j \in 1..k : j = i - h
      BY <3>0
    <3>2. whole[i] = rest[j]
      BY <1>9, <2>2, <3>1
    <3>3. whole[i] = q + g + j
      BY <1>2, <3>2
    <3>4. q + g + j = q + (i - n)
      BY <1>4, <3>1
    <3> QED
      BY <3>3, <3>4
  <2> QED
    BY <2>1, <2>2
<1>12. \A i \in 1..n : c[i] \in Nat
  BY <1>0, ElementOfSeq
<1>13. Len(whole) = m /\ n <= m
  BY <1>4, <1>7, <1>8
<1>14. whole = Line(c, n, q, m)
  <2>1. IsLine(whole, c, n, q, m)
    BY <1>10, <1>11, <1>12, <1>13 DEF IsLine
  <2> QED
    BY <2>1, LineIs
<1> QED
  BY <1>3, <1>4, <1>6, <1>8, <1>14 DEF Joined

\* What a client has fetched are numbers.
Numbers(c, n) == \A i \in 1..n : c[i] \in Nat

\* A list without its first element.
Follows(d, c, n) == \A i \in 1..n : d[i] = c[i + 1]

\* A list, with m at its end.
Grows(s, m, w) == w = Append(s, m)

\* A press that is made joins the end.
LEMMA LineGrows ==
    ASSUME NEW n \in Nat, NEW q \in Nat, NEW k \in Nat, n <= k, NEW c, Numbers(c, n),
           NEW l \in Nat, l = k + 1, NEW m \in Nat, m = q + (l - n)
    PROVE  Grows(Line(c, n, q, k), m, Line(c, n, q, l))
<1>0. \A i \in 1..n : c[i] \in Nat
  BY DEF Numbers
<1>1. PICK s : s = Line(c, n, q, k)
  OBVIOUS
<1>2. /\ s \in Seq(Nat) /\ Len(s) = k
      /\ \A i \in 1..n : s[i] = c[i]
      /\ \A i \in 1..k : i > n => s[i] = q + (i - n)
  BY <1>0, <1>1, LineIsSequence
<1>3. l = k + 1
  OBVIOUS
<1>4. m = q + (l - n)
  OBVIOUS
<1>5. PICK a : a = Append(s, m)
  OBVIOUS
<1>6. a \in Seq(Nat) /\ Len(a) = l /\ (\A i \in 1..k : a[i] = s[i]) /\ a[l] = m
  BY <1>2, <1>3, <1>5, AppendProperties
<1>7. ASSUME NEW i \in 1..n PROVE a[i] = c[i]
  <2>1. i \in 1..k
    OBVIOUS
  <2> QED
    BY <1>2, <1>6, <2>1
<1>8. ASSUME NEW i \in 1..l, i > n PROVE a[i] = q + (i - n)
  <2>1. CASE i \in 1..k
    BY <1>2, <1>6, <1>8, <2>1
  <2>2. CASE i = l
    BY <1>4, <1>6, <2>2
  <2> QED
    BY <1>3, <2>1, <2>2
<1>9. n <= l
  BY <1>3
<1>10. a = Line(c, n, q, l)
  <2>1. IsLine(a, c, n, q, l)
    BY <1>0, <1>6, <1>7, <1>8, <1>9 DEF IsLine
  <2> QED
    BY <2>1, LineIs
<1> QED
  BY <1>1, <1>5, <1>10 DEF Grows

\* An update that is queued keeps its place.
LEMMA LineStays ==
    ASSUME NEW n \in Nat, NEW q \in Nat, NEW k \in Nat,
           NEW c, NEW d, \A i \in 1..n : d[i] = c[i], d[n + 1] = q + 1
    PROVE  Line(d, n + 1, q + 1, k) = Line(c, n, q, k)
<1>1. ASSUME NEW i \in 1..k
      PROVE  (IF i <= n + 1 THEN d[i] ELSE q + 1 + (i - (n + 1)))
             = (IF i <= n THEN c[i] ELSE q + (i - n))
  <2>1. CASE i <= n
    BY <2>1
  <2>2. CASE i = n + 1
    BY <2>2
  <2>3. CASE i > n + 1
    BY <2>3
  <2> QED
    BY <2>1, <2>2, <2>3
<1> QED
  BY <1>1 DEF Line

\* A list, without the element o that is its l-th.
Loses(s, l, o, w) == w = RemoveAt(s, l) /\ l \in DOMAIN s /\ s[l] = o

\* The one that is lost leaves its place.
LEMMA LineLoses ==
    ASSUME NEW n \in Nat, NEW q \in Nat, NEW k \in Nat, n <= k, NEW c, Numbers(c, n),
           NEW m \in Nat, m = k + 1, NEW l \in Nat, l = n + 1, NEW o \in Nat, o = q + 1
    PROVE  Loses(Line(c, n, q, m), l, o, Line(c, n, o, k))
<1>0. \A i \in 1..n : c[i] \in Nat
  BY DEF Numbers
<1>1. m = k + 1
  OBVIOUS
<1>2. l = n + 1
  OBVIOUS
<1>3. o = q + 1
  OBVIOUS
<1>4. n <= m /\ l \in 1..m /\ l > n /\ q + (l - n) = o
  BY <1>1, <1>2, <1>3
<1>5. PICK s : s = Line(c, n, q, m)
  OBVIOUS
<1>6. /\ s \in Seq(Nat) /\ Len(s) = m /\ DOMAIN s = 1..m
      /\ \A i \in 1..n : s[i] = c[i]
      /\ \A i \in 1..m : i > n => s[i] = q + (i - n)
      /\ \A i \in 1..m : s[i] \in Nat
  BY <1>0, <1>4, <1>5, LineIsSequence
<1>7. l \in DOMAIN s /\ s[l] = o
  BY <1>4, <1>6
<1>8. PICK a : a = SubSeq(s, 1, n)
  OBVIOUS
<1>9. a \in Seq(Nat) /\ Len(a) = n /\ \A i \in 1..n : a[i] = c[i]
  <2>1. \A i \in 1..n : s[i] \in Nat
    BY <1>4, <1>6
  <2>2. /\ a \in Seq(Nat) /\ Len(a) = (IF 1 <= n THEN n - 1 + 1 ELSE 0)
        /\ \A i \in 1..n - 1 + 1 : a[i] = s[1 + i - 1]
    BY <1>8, <2>1, SubSeqProperties
  <2>3. n - 1 + 1 = n /\ \A i \in 1..n : 1 + i - 1 = i
    OBVIOUS
  <2>4. Len(a) = n
    BY <2>2
  <2>5. \A i \in 1..n : a[i] = s[i]
    BY <2>2, <2>3
  <2> QED
    BY <1>6, <2>2, <2>4, <2>5
<1>10. PICK x \in Nat : x = n + 2
  OBVIOUS
<1>11. PICK b : b = SubSeq(s, x, m)
  OBVIOUS
<1>12. PICK g \in Nat : g = k - n
  OBVIOUS
<1>13. b \in Seq(Nat) /\ Len(b) = g /\ \A i \in 1..g : b[i] = o + i
  <2>1. \A i \in x..m : s[i] \in Nat
    <3>1. \A i \in x..m : i \in 1..m
      BY <1>10
    <3> QED
      BY <1>6, <3>1
  <2>2. /\ b \in Seq(Nat) /\ Len(b) = (IF x <= m THEN m - x + 1 ELSE 0)
        /\ \A i \in 1..m - x + 1 : b[i] = s[x + i - 1]
    BY <1>11, <2>1, SubSeqProperties
  <2>3. m - x + 1 = g /\ (~(x <= m) => g = 0)
    BY <1>1, <1>10, <1>12
  <2>4. ASSUME NEW i \in 1..g PROVE b[i] = o + i
    <3>1. PICK j \in Nat : j = x + i - 1
      BY <1>10
    <3>2. j \in 1..m /\ j > n /\ q + (j - n) = o + i
      BY <1>1, <1>3, <1>10, <1>12, <3>1
    <3>3. b[i] = s[j]
      BY <2>2, <2>3, <3>1
    <3> QED
      BY <1>6, <3>2, <3>3
  <2> QED
    BY <2>2, <2>3, <2>4
<1>14. PICK w : w = a \o b
  OBVIOUS
<1>15. /\ w \in Seq(Nat) /\ Len(w) = n + g
       /\ \A i \in 1..n + g : w[i] = IF i <= n THEN a[i] ELSE b[i - n]
  BY <1>9, <1>13, <1>14, ConcatProperties, ZenonT(40)
<1>16. n + g = k
  BY <1>12
<1>17. ASSUME NEW i \in 1..n PROVE w[i] = c[i]
  <2>1. i \in 1..n + g /\ i <= n
    OBVIOUS
  <2> QED
    BY <1>9, <1>15, <2>1
<1>18. ASSUME NEW i \in 1..k, i > n PROVE w[i] = o + (i - n)
  <2>1. i \in 1..n + g /\ ~(i <= n) /\ i - n \in 1..g
    BY <1>16, <1>18
  <2>2. w[i] = b[i - n]
    BY <1>15, <2>1
  <2> QED
    BY <1>13, <2>1, <2>2
<1>19. Len(w) = k
  BY <1>15, <1>16
<1>20. w = Line(c, n, o, k)
  <2>1. IsLine(w, c, n, o, k)
    BY <1>0, <1>15, <1>17, <1>18, <1>19 DEF IsLine
  <2> QED
    BY <2>1, LineIs
<1>21. RemoveAt(s, l) = w
  <2>1. l - 1 = n /\ l + 1 = x
    BY <1>2, <1>10
  <2>2. RemoveAt(s, l) = SubSeq(s, 1, l - 1) \o SubSeq(s, l + 1, Len(s))
    BY DEF RemoveAt
  <2>3. SubSeq(s, 1, l - 1) = a
    BY <1>8, <2>1
  <2>4. SubSeq(s, l + 1, Len(s)) = b
    BY <1>6, <1>11, <2>1
  <2> QED
    BY <1>14, <2>2, <2>3, <2>4
<1> QED
  BY <1>5, <1>7, <1>20, <1>21 DEF Loses

\* A list, without the first element of c that heads it.
Advances(s, c, w) == s # <<>> /\ Head(s) = c[1] /\ w = Tail(s)

\* The first is taken.
LEMMA LineAdvances ==
    ASSUME NEW n \in Nat, NEW q \in Nat, NEW k \in Nat, n <= k,
           NEW m \in Nat, m = n + 1, NEW l \in Nat, l = k + 1,
           NEW c, Numbers(c, m), NEW d, Follows(d, c, n)
    PROVE  Advances(Line(c, m, q, l), c, Line(d, n, q, k))
<1>1. m = n + 1
  OBVIOUS
<1>2. l = k + 1
  OBVIOUS
<1>3. m <= l /\ \A i \in 1..m : c[i] \in Nat
  BY <1>1, <1>2 DEF Numbers
<1>0. \A i \in 1..n : d[i] = c[i + 1]
  BY DEF Follows
<1>4. PICK s : s = Line(c, m, q, l)
  OBVIOUS
<1>5. /\ s \in Seq(Nat) /\ Len(s) = l
      /\ \A i \in 1..m : s[i] = c[i]
      /\ \A i \in 1..l : i > m => s[i] = q + (i - m)
  BY <1>3, <1>4, LineIsSequence, SMTT(30)
<1>6. s # <<>>
  <2>1. Len(s) # 0
    BY <1>2, <1>5
  <2> QED
    BY <2>1, EmptySeq
<1>7. PICK w : w = Tail(s)
  OBVIOUS
<1>8. w \in Seq(Nat) /\ Len(w) = k /\ \A i \in 1..k : w[i] = s[i + 1]
  <2>1. /\ w \in Seq(Nat) /\ Len(w) = Len(s) - 1
        /\ \A i \in 1..Len(w) : w[i] = s[i + 1]
    BY <1>5, <1>6, <1>7, HeadTailProperties
  <2>2. Len(w) = k
    BY <1>2, <1>5, <2>1
  <2> QED
    BY <2>1, <2>2
<1>9. ASSUME NEW i \in 1..n PROVE w[i] = d[i] /\ d[i] \in Nat
  <2>1. i \in 1..k /\ i + 1 \in 1..m
    BY <1>1
  <2>2. w[i] = s[i + 1] /\ s[i + 1] = c[i + 1] /\ c[i + 1] \in Nat
    BY <1>3, <1>5, <1>8, <2>1
  <2> QED
    BY <1>0, <2>2
<1>10. ASSUME NEW i \in 1..k, i > n PROVE w[i] = q + (i - n)
  <2>1. PICK j \in Nat : j = i + 1
    OBVIOUS
  <2>2. j \in 1..l /\ j > m /\ q + (j - m) = q + (i - n)
    BY <1>1, <1>2, <1>10, <2>1
  <2>3. w[i] = s[j]
    BY <1>8, <2>1
  <2>4. s[j] = q + (j - m)
    BY <1>5, <2>2
  <2> QED
    BY <2>2, <2>3, <2>4
<1>11. w = Line(d, n, q, k)
  <2>1. IsLine(w, d, n, q, k)
    BY <1>8, <1>9, <1>10 DEF IsLine
  <2> QED
    BY <2>1, LineIs
<1>12. Head(s) = c[1]
  <2>1. 1 \in 1..m
    BY <1>1
  <2>2. Head(s) = s[1]
    OBVIOUS
  <2> QED
    BY <1>5, <2>1, <2>2
<1> QED
  BY <1>4, <1>6, <1>7, <1>11, <1>12 DEF Advances

\* The queue of a bot, from the parts it is made of.
Rest(o, made) == [i \in 1..made - o |-> o + i]

\* What the client queued ends at q; H is the set of pollers that hand the next update on.
Stand(c, n, q, o, made, H) ==
    /\ c \in Seq(Nat) /\ n = Len(c) /\ o <= made
    /\ IF H = {} THEN q = o ELSE o >= 1 /\ q = o - 1

\* What waits is the queue of what the client has and what it has not.
LEMMA WaitingIs ==
    ASSUME NEW c, NEW n \in Nat, NEW q \in Nat, NEW o \in Nat, NEW made \in Nat, NEW H,
           Stand(c, n, q, o, made, H)
    PROVE  Joined(c, IF H = {} THEN <<>> ELSE <<o>>, Rest(o, made))
           = Line(c, n, q, n + (made - q))
<1>0. /\ c \in Seq(Nat) /\ n = Len(c) /\ o <= made
      /\ IF H = {} THEN q = o ELSE o >= 1 /\ q = o - 1
  BY DEF Stand
<1>1. PICK k \in Nat : k = made - o
  BY <1>0
<1>2. PICK mid : mid = IF H = {} THEN <<>> ELSE <<o>>
  OBVIOUS
<1>3. PICK g \in Nat : g = IF H = {} THEN 0 ELSE 1
  OBVIOUS
<1>4. o = q + g /\ n + (made - q) = n + g + k
  BY <1>0, <1>1, <1>3
<1>5. mid \in Seq(Nat) /\ g = Len(mid) /\ \A i \in 1..g : mid[i] = q + i
  <2>1. CASE H = {}
    BY <1>2, <1>3, <2>1, EmptySeq
  <2>2. CASE H # {}
    <3>1. mid = <<o>> /\ g = 1 /\ o = q + 1
      BY <1>2, <1>3, <1>4, <2>2
    <3>2. Len(mid) = 1 /\ mid[1] = o /\ \A i \in 1..1 : i = 1
      BY <3>1
    <3> QED
      BY <3>1, <3>2
  <2> QED
    BY <2>1, <2>2
<1>6. PICK rest : rest = Rest(o, made)
  OBVIOUS
<1>7. rest \in Seq(Nat) /\ k = Len(rest) /\ \A i \in 1..k : rest[i] = q + g + i
  <2>1. rest = [i \in 1..k |-> o + i]
    BY <1>1, <1>6 DEF Rest
  <2>2. rest \in [1..k -> Nat]
    BY <2>1
  <2> QED
    BY <1>4, <2>1, <2>2
<1>8. Joined(c, mid, rest) = Line(c, n, q, n + g + k)
  <2>1. Parts(c, n, mid, g, rest, k, q)
    BY <1>0, <1>5, <1>7 DEF Parts
  <2> QED
    BY <2>1, LineOf
<1> QED
  BY <1>2, <1>4, <1>6, <1>8

\* Its numbers, for a listener: of the z updates that wait the first n are
\* queued by the client, and those after the one numbered q are not.
Counts(l, o, made, n, q, z) ==
    /\ q = IF poll[l] = "handing" THEN o - 1 ELSE o
    /\ z = n + (made - q)

\* The queue of a bot that has a listener.
LEMMA QueueOf ==
    ASSUME IInv, NEW l \in Listeners, Alive(l), NEW t \in Tokens, TokenOf(l) = t,
           NEW o \in Nat, NEW made \in Nat, NEW p, NEW n \in Nat, NEW c \in Seq(1..MaxPresses),
           Client(l, t, o, made, p, c, n),
           NEW q \in Nat, NEW z \in Nat, Counts(l, o, made, n, q, z)
    PROVE  Waiting(t) = Line(c, n, q, z) /\ q <= made /\ n <= z /\ Numbers(c, n)
<1>1. /\ o = offset[t] /\ made = Len(presses[t]) /\ c = channel[t] /\ n = Len(c) /\ o <= made
      /\ poll[l] = "handing" => o >= 1
      /\ Numbers(c, n)
      /\ q = IF poll[l] = "handing" THEN o - 1 ELSE o
      /\ z = n + (made - q)
  BY DEF Client, Counts, Numbers
<1>2. PICK H : H = Handing(t)
  OBVIOUS
<1>3. (H = {} => q = o) /\ (H # {} => o >= 1 /\ q = o - 1)
  BY <1>1, <1>2, HandingIs
<1>4. c \in Seq(Nat)
  <2>1. 1..MaxPresses \subseteq Nat
    OBVIOUS
  <2> QED
    BY <2>1, SeqMonotonic
<1>5. Joined(c, IF H = {} THEN <<>> ELSE <<o>>, Rest(o, made))
      = Line(c, n, q, n + (made - q))
  <2>1. Stand(c, n, q, o, made, H)
    BY <1>1, <1>3, <1>4 DEF Stand
  <2> QED
    BY <2>1, WaitingIs
<1>6. Waiting(t) = Joined(c, IF H = {} THEN <<>> ELSE <<o>>, Rest(o, made))
  BY <1>1, <1>2 DEF Waiting, Rest, Joined
<1>7. q <= made /\ n <= z
  BY <1>1, SMTT(30)
<1>8. Waiting(t) = Line(c, n, q, n + (made - q))
  BY <1>5, <1>6
<1>9. z = n + (made - q) /\ Numbers(c, n)
  BY <1>1
<1> QED
  BY <1>7, <1>8, <1>9

\* The same, once its listener has moved.
LEMMA QueueBecomes ==
    ASSUME IInv, NEW l \in Listeners, Alive(l), NEW t \in Tokens, TokenOf(l) = t,
           ServiceStays, OthersStay(l),
           NEW o \in Nat, NEW made \in Nat, NEW p, NEW n \in Nat, NEW c \in Seq(1..MaxPresses),
           Client(l, t, o, made, p, c, n)',
           NEW q \in Nat, NEW z \in Nat, Counts(l, o, made, n, q, z)'
    PROVE  Waiting(t)' = Line(c, n, q, z)
<1>1. /\ o = offset'[t] /\ made = Len(presses'[t]) /\ c = channel'[t] /\ n = Len(c) /\ o <= made
      /\ poll'[l] = "handing" => o >= 1
      /\ q = IF poll'[l] = "handing" THEN o - 1 ELSE o
      /\ z = n + (made - q)
  BY DEF Client, Counts
<1>2. PICK H : H = Handing(t)'
  OBVIOUS
<1>3. H = IF poll'[l] = "handing" THEN {l} ELSE {}
  BY <1>2, HandingBecomes DEF ServiceStays
<1>4. (H = {} => q = o) /\ (H # {} => o >= 1 /\ q = o - 1)
  BY <1>1, <1>3
<1>5. c \in Seq(Nat)
  <2>1. 1..MaxPresses \subseteq Nat
    OBVIOUS
  <2> QED
    BY <2>1, SeqMonotonic
<1>6. Joined(c, IF H = {} THEN <<>> ELSE <<o>>, Rest(o, made))
      = Line(c, n, q, n + (made - q))
  <2>1. Stand(c, n, q, o, made, H)
    BY <1>1, <1>4, <1>5 DEF Stand
  <2> QED
    BY <2>1, WaitingIs
<1>7. Waiting(t)' = Joined(c, IF H = {} THEN <<>> ELSE <<o>>, Rest(o, made))
  BY <1>1, <1>2 DEF Waiting, Rest, Joined
<1>8. Waiting(t)' = Line(c, n, q, n + (made - q))
  BY <1>6, <1>7
<1>9. z = n + (made - q)
  BY <1>1
<1> QED
  BY <1>8, <1>9

\* The queues of the other bots stay.
LEMMA OthersWait ==
    ASSUME IInv, NEW l \in Listeners, Alive(l), NEW t \in Tokens, TokenOf(l) = t,
           ServiceStays, OthersStay(l), ElsewhereStays(t)
    PROVE  \A u \in Tokens \ {t} : Waiting(u)' = Waiting(u)
<1>1. \A u \in Tokens \ {t} : Handing(u)' = Handing(u)
  BY HandingBecomes DEF ServiceStays
<1> QED
  BY <1>1 DEF Waiting, ElsewhereStays, ServiceStays

\* What a step may do to the queues: nothing, or what the inbox promises.
QueuesStay == fate' = fate /\ \A t \in Tokens : Waiting(t)' = Waiting(t)

\* A step is one of the inbox, or none of its business.
AsPromised == QueuesStay \/ Inbox!Next

-----------------------------------------------------------------------------
(* The steps of the inbox                                                  *)

\* A step that changes the queue of one bot.
LEMMA OneQueueChanges ==
    ASSUME NEW t \in Tokens, NEW w, Waiting(t)' = w,
           \A u \in Tokens \ {t} : Waiting(u)' = Waiting(u)
    PROVE  [u \in Tokens |-> Waiting(u)]' = [[u \in Tokens |-> Waiting(u)] EXCEPT ![t] = w]
<1>1. \A u \in Tokens : Waiting(u)' = IF u = t THEN w ELSE Waiting(u)
  OBVIOUS
<1> QED
  BY <1>1

\* A step that leaves the queues and the fates alone is no step of the inbox.
LEMMA InboxStutters ==
    ASSUME QueuesStay
    PROVE  UNCHANGED Inbox!vars
BY DEF QueuesStay, Inbox!vars

\* A press joins the end of its bot's queue.
LEMMA InboxMakes ==
    ASSUME NEW t \in Tokens, NEW i \in 1..MaxPresses,
           fate[t][i] = "unmade", \A j \in 1..i - 1 : fate[t][j] # "unmade",
           fate' = [fate EXCEPT ![t][i] = "waiting"],
           Waiting(t)' = Append(Waiting(t), i),
           \A u \in Tokens \ {t} : Waiting(u)' = Waiting(u)
    PROVE  AsPromised
<1>1. PICK w : w = Append(Waiting(t), i)
  OBVIOUS
<1>2. [u \in Tokens |-> Waiting(u)]' = [[u \in Tokens |-> Waiting(u)] EXCEPT ![t] = w]
  BY <1>1, OneQueueChanges
<1>3. Inbox!Make(t, i)
  BY <1>1, <1>2 DEF Inbox!Make, Inbox!Becomes
<1> QED
  BY <1>3 DEF AsPromised, Inbox!Next

\* The first press of a queue is taken, to be answered or to be ignored.
LEMMA InboxTakes ==
    ASSUME NEW t \in Tokens, NEW to \in {"answering", "ignored"},
           Waiting(t) # <<>>, \A i \in 1..MaxPresses : fate[t][i] # "answering",
           fate' = [fate EXCEPT ![t][Head(Waiting(t))] = to],
           Waiting(t)' = Tail(Waiting(t)),
           \A u \in Tokens \ {t} : Waiting(u)' = Waiting(u)
    PROVE  AsPromised
<1>1. PICK w : w = Tail(Waiting(t))
  OBVIOUS
<1>2. [u \in Tokens |-> Waiting(u)]' = [[u \in Tokens |-> Waiting(u)] EXCEPT ![t] = w]
  BY <1>1, OneQueueChanges
<1>3. Inbox!Take(t, to)
  BY <1>1, <1>2 DEF Inbox!Take, Inbox!Becomes
<1> QED
  BY <1>3 DEF AsPromised, Inbox!Next

\* A press that is being answered gets its answer, or none.
LEMMA InboxReplies ==
    ASSUME NEW t \in Tokens, NEW i \in 1..MaxPresses, NEW to \in {"answered", "unanswered"},
           fate[t][i] = "answering", fate' = [fate EXCEPT ![t][i] = to],
           \A u \in Tokens : Waiting(u)' = Waiting(u)
    PROVE  AsPromised
<1>1. Inbox!Reply(t, i, to)
  BY DEF Inbox!Reply, Inbox!Becomes
<1> QED
  BY <1>1 DEF AsPromised, Inbox!Next

\* A press of a bot that is listened to no more is dropped.
LEMMA InboxDrops ==
    ASSUME NEW t \in Tokens, NEW n \in DOMAIN Waiting(t), ControlDone(cur),
           fate' = [fate EXCEPT ![t][Waiting(t)[n]] = "dropped"],
           Waiting(t)' = RemoveAt(Waiting(t), n),
           \A u \in Tokens \ {t} : Waiting(u)' = Waiting(u)
    PROVE  AsPromised
<1>1. PICK w : w = RemoveAt(Waiting(t), n)
  OBVIOUS
<1>2. [u \in Tokens |-> Waiting(u)]' = [[u \in Tokens |-> Waiting(u)] EXCEPT ![t] = w]
  BY <1>1, OneQueueChanges
<1>3. Inbox!RemoveAt(Waiting(t), n) = w
  BY <1>1, Zenon DEF Inbox!RemoveAt, RemoveAt
<1>4. [u \in Tokens |-> Waiting(u)][t] = Waiting(t)
  OBVIOUS
<1>5. Inbox!Drop(t, n)
  BY <1>2, <1>3, <1>4 DEF Inbox!Drop, Inbox!Becomes
<1> QED
  BY <1>5, <1>4 DEF AsPromised, Inbox!Next

\* A step that fetches nothing and hands nothing on leaves the queues alone.
LEMMA QueuesUnmoved ==
    ASSUME UNCHANGED <<presses, offset, channel>>,
           \A t \in Tokens : Handing(t)' = Handing(t)
    PROVE  \A t \in Tokens : Waiting(t)' = Waiting(t)
BY DEF Waiting

\* So does one that is of no poller.
LEMMA PollersStay ==
    ASSUME UNCHANGED <<presses, offset, channel, settings, poll>>
    PROVE  \A t \in Tokens : Waiting(t)' = Waiting(t)
<1>1. \A t \in Tokens : Handing(t)' = Handing(t)
  BY DEF Handing, TokenOf, RecipientsOf
<1> QED
  BY <1>1, QueuesUnmoved


\* What the steps of a poller have in common.
LEMMA PollerFrame ==
    ASSUME IInv, NEW l \in Listeners, Poller(l)
    PROVE  /\ ServiceStays /\ UNCHANGED <<runs, handlers, work, serving>>
           /\ poll[l] \in {"polling", "handing"} /\ poll'[l] \notin {"off", "starting"} /\ work'[l] # "off"
           /\ OthersStay(l) /\ Alive(l) /\ TypeOK /\ TokenOf(l) \in Tokens /\ MaxPresses \in Nat
           /\ poll' \in [Listeners -> {"off", "starting", "polling", "handing", "ended"}]
           /\ DigestsInOrder' /\ PressStartsItsDigest'
<1>1. /\ ServiceStays /\ UNCHANGED <<runs, handlers, work, serving>>
      /\ poll[l] \in {"polling", "handing"}
  BY DEF Poller, PollReturns, HandOn, LoseUpdate, PollEnds, client, service, digests, ServiceStays
<1>2. Alive(l) /\ TypeOK
  BY <1>1 DEF Alive, IInv
<1>3. \/ poll' = poll
      \/ \E pc \in {"polling", "handing", "ended"} : poll' = [poll EXCEPT ![l] = pc]
  BY DEF Poller, PollReturns, HandOn, LoseUpdate, PollEnds, BatchEnds
<1>4. \/ upto' = upto
      \/ \E m : upto' = [upto EXCEPT ![l] = m]
  BY DEF Poller, PollReturns, HandOn, LoseUpdate, PollEnds, BatchEnds
<1>5. /\ poll'[l] \in {"polling", "handing", "ended"}
      /\ poll' \in [Listeners -> {"off", "starting", "polling", "handing", "ended"}]
      /\ \A k \in Listeners \ {l} : poll'[k] = poll[k]
  BY <1>1, <1>2, <1>3 DEF TypeOK
<1>6. \A k \in Listeners \ {l} : upto'[k] = upto[k]
  BY <1>2, <1>4 DEF TypeOK
<1>7. OthersStay(l)
  BY <1>1, <1>5, <1>6 DEF OthersStay
<1>8. work'[l] # "off"
  BY <1>1 DEF IInv, ListenersInOrder
<1>9. DigestsInOrder' /\ PressStartsItsDigest'
  BY <1>1, RunsStay
<1> QED
  BY <1>1, <1>2, <1>5, <1>7, <1>8, <1>9, AliveIsCurrent, PollingAssumption

\* getUpdates returns: the queue and the fates stay.
LEMMA PollReturnsStep ==
    ASSUME IInv, NEW l \in Listeners, PollReturns(l)
    PROVE  IInv' /\ AsPromised
<1>1. Poller(l)
  BY DEF Poller
<1>2. PICK t \in Tokens : TokenOf(l) = t
  BY <1>1, PollerFrame
<1>3. PICK o, made, p, n \in Nat, c \in Seq(1..MaxPresses) : Client(l, t, o, made, p, c, n)
  BY <1>1, <1>2, PollerFrame, ClientOf
<1>4. /\ poll[l] = "polling" /\ made > o
      /\ upto' = [upto EXCEPT ![l] = made] /\ offset' = [offset EXCEPT ![t] = o + 1]
      /\ poll' = [poll EXCEPT ![l] = "handing"]
      /\ UNCHANGED <<channel, fate>>
  BY <1>2, <1>3 DEF PollReturns, Accept, Client
<1>5. PICK o2 \in Nat : o2 = o + 1
  OBVIOUS
<1>6. /\ o2 >= 1 /\ o2 <= made /\ made <= MaxPresses
      /\ o2 \in 0..MaxPresses /\ made \in 0..MaxPresses
  <2>1. made <= MaxPresses /\ MaxPresses \in Nat
    BY <1>3, PollingAssumption DEF Client
  <2> QED
    BY <1>4, <1>5, <2>1
<1>7. /\ offset'[t] = o2 /\ upto'[l] = made /\ poll'[l] = "handing"
      /\ channel'[t] = c /\ fate'[t] = fate[t] /\ ElsewhereStays(t)
      /\ presses' = presses /\ work' = work /\ serving' = serving
  BY <1>1, <1>2, <1>3, <1>4, <1>5, PollerFrame DEF TypeOK, ElsewhereStays, Client, ServiceStays
<1>8. TypeOK'
  BY <1>1, <1>4, <1>5, <1>6, PollerFrame DEF TypeOK, ServiceStays
<1>9. \A i \in 1..n : c[i] \in Nat /\ c[i] >= 1 /\ c[i] <= o2 /\ c[i] < o2
  BY <1>3, <1>5 DEF Client
<1>10. work[l] = "answering" => p >= 1 /\ p <= o2 /\ p < o2
  BY <1>3, <1>5 DEF Client
<1>11. Client(l, t, o2, made, p, c, n)'
  BY <1>3, <1>6, <1>7, <1>9, <1>10 DEF Client
<1>12. IInv'
  BY <1>1, <1>2, <1>7, <1>8, <1>11, PollerFrame, ClientMoves
\* The update that was accepted is where it was in the queue.
<1>13. PICK z \in Nat : z = n + (made - o)
  BY <1>4
<1>14. Waiting(t) = Line(c, n, o, z) /\ Waiting(t)' = Line(c, n, o, z)
  <2>1. Counts(l, o, made, n, o, z)
    BY <1>4, <1>13 DEF Counts
  <2>2. Counts(l, o2, made, n, o, z)'
    BY <1>5, <1>7, <1>13 DEF Counts
  <2>3. Alive(l) /\ ServiceStays /\ OthersStay(l)
    BY <1>1, PollerFrame
  <2>4. Waiting(t) = Line(c, n, o, z)
    BY <1>2, <1>3, <2>1, <2>3, QueueOf
  <2>5. Waiting(t)' = Line(c, n, o, z)
    BY <1>2, <1>11, <2>2, <2>3, QueueBecomes
  <2> QED
    BY <2>4, <2>5
<1>15. QueuesStay
  BY <1>1, <1>2, <1>4, <1>7, <1>14, PollerFrame, OthersWait DEF QueuesStay
<1> QED
  BY <1>12, <1>15 DEF AsPromised

\* The poller hands an update on: the queue stays as it was.
LEMMA HandOnStep ==
    ASSUME IInv, NEW l \in Listeners, HandOn(l)
    PROVE  IInv' /\ AsPromised
<1>1. Poller(l) /\ poll[l] = "handing"
  BY DEF Poller, HandOn
<1>2. PICK t \in Tokens : TokenOf(l) = t
  BY <1>1, PollerFrame
<1>3. PICK o, made, p, n \in Nat, c \in Seq(1..MaxPresses) : Client(l, t, o, made, p, c, n)
  BY <1>1, <1>2, PollerFrame, ClientOf
<1>4. PICK m \in Nat : m = upto[l]
  BY DEF IInv, TypeOK
<1>5. PICK d : d = Append(c, o)
  OBVIOUS
<1>6. PICK k \in Nat : k = n + 1
  OBVIOUS
<1>7. channel' = [channel EXCEPT ![t] = d] /\ fate' = fate
  BY <1>2, <1>3, <1>5 DEF HandOn, Client
<1>8. IF o < m
      THEN offset' = [offset EXCEPT ![t] = o + 1] /\ UNCHANGED <<poll, upto>>
      ELSE /\ poll' = [poll EXCEPT ![l] = "polling"] /\ upto' = [upto EXCEPT ![l] = 0]
           /\ UNCHANGED offset
  BY <1>2, <1>3, <1>4 DEF HandOn, Accept, BatchEnds, Client
<1>9. /\ MaxPresses \in Nat /\ o \in 1..MaxPresses /\ o >= 1 /\ o <= m /\ m <= made /\ o <= made
      /\ made <= MaxPresses
  <2>1. o <= made /\ made <= MaxPresses /\ MaxPresses \in Nat /\ o >= 1 /\ o <= m /\ m <= made
    BY <1>1, <1>3, <1>4, PollingAssumption DEF Client
  <2> QED
    BY <2>1
<1>10. /\ d \in Seq(1..MaxPresses) /\ DOMAIN d = 1..k /\ Len(d) = k
       /\ d[k] = o /\ \A i \in 1..n : d[i] = c[i]
  <2>1. Len(c) = n
    BY <1>3 DEF Client
  <2>2. /\ d \in Seq(1..MaxPresses) /\ Len(d) = k
        /\ d[k] = o /\ \A i \in 1..n : d[i] = c[i]
    BY <1>5, <1>6, <1>9, <2>1, AppendProperties
  <2> QED
    BY <2>2, LenProperties
<1>11. \A i \in 1..k : i = k \/ i \in 1..n
  BY <1>6
<1>12. \A i \in 1..n : d[i] = c[i] /\ c[i] \in Nat /\ c[i] >= 1 /\ c[i] < o
  BY <1>1, <1>3, <1>10 DEF Client
<1>13. ASSUME NEW i \in 1..k PROVE d[i] \in Nat /\ d[i] >= 1 /\ d[i] <= o
  <2>1. CASE i = k
    BY <1>9, <1>10, <2>1
  <2>2. CASE i \in 1..n
    <3>1. d[i] \in Nat /\ d[i] >= 1 /\ d[i] < o
      BY <1>12, <2>2
    <3> QED
      BY <3>1
  <2> QED
    BY <1>11, <2>1, <2>2
<1>14. ASSUME NEW i \in 1..k, NEW j \in 1..k, i < j PROVE d[i] < d[j]
  <2>1. i \in 1..n
    BY <1>6, <1>14
  <2>2. d[i] = c[i] /\ c[i] < o
    BY <1>12, <2>1
  <2>3. CASE j = k
    BY <1>10, <2>2, <2>3
  <2>4. CASE j \in 1..n
    <3>1. c[i] < c[j]
      BY <1>3, <1>14, <2>1, <2>4 DEF Client
    <3> QED
      BY <1>12, <2>2, <2>4, <3>1
  <2> QED
    BY <1>11, <2>3, <2>4
<1>15. work[l] = "answering" => /\ p >= 1 /\ p < o /\ p <= o /\ fate[t][p] = "answering"
                                /\ \A i \in 1..k : p < d[i]
  <2>1. work[l] = "answering" => /\ p >= 1 /\ p < o /\ p <= o /\ fate[t][p] = "answering"
                                 /\ \A i \in 1..n : p < c[i]
    BY <1>1, <1>3 DEF Client
  <2>2. ASSUME work[l] = "answering", NEW i \in 1..k PROVE p < d[i]
    BY <1>10, <1>11, <2>1, <2>2
  <2> QED
    BY <2>1, <2>2
<1>16. /\ channel'[t] = d /\ fate'[t] = fate[t] /\ ElsewhereStays(t)
       /\ made = Len(presses[t]) /\ p = serving[l].press
       /\ presses' = presses /\ work' = work /\ serving' = serving
  BY <1>1, <1>2, <1>3, <1>7, <1>8, PollerFrame DEF TypeOK, ElsewhereStays, Client, ServiceStays
<1>17. channel' \in [Tokens -> Seq(1..MaxPresses)]
  BY <1>1, <1>2, <1>7, <1>10, PollerFrame DEF TypeOK
<1>18. \A i \in 1..MaxPresses :
          /\ fate'[t][i] = "unmade" <=> i > made
          /\ fate'[t][i] = "answering" => work[l] = "answering" /\ i = p
  BY <1>3, <1>16 DEF Client
\* The update that is queued is where it was in the queue.
<1>19. PICK q \in Nat : q = o - 1
  BY <1>9
<1>20. PICK z \in Nat : z = n + (made - q)
  BY <1>9, <1>19
<1>21. Waiting(t) = Line(c, n, q, z)
  <2>1. Counts(l, o, made, n, q, z)
    BY <1>1, <1>19, <1>20 DEF Counts
  <2>2. Alive(l)
    BY <1>1, PollerFrame
  <2> QED
    BY <1>2, <1>3, <2>1, <2>2, QueueOf
<1>22. Line(d, k, o, z) = Line(c, n, q, z)
  <2>1. o = q + 1 /\ d[n + 1] = q + 1
    BY <1>6, <1>9, <1>10, <1>19, <1>20
  <2>2. \A i \in 1..n : d[i] = c[i]
    BY <1>10
  <2>3. Line(d, n + 1, q + 1, z) = Line(c, n, q, z)
    BY <2>1, <2>2, LineStays
  <2> QED
    BY <1>6, <2>1, <2>3
<1>0. k + (made - o) = z
  BY <1>6, <1>9, <1>19, <1>20
<1>23. ASSUME Waiting(t)' = Line(d, k, o, z) PROVE AsPromised
  <2>1. QueuesStay
    BY <1>1, <1>2, <1>7, <1>16, <1>23, <1>21, <1>22, PollerFrame, OthersWait DEF QueuesStay
  <2> QED
    BY <2>1 DEF AsPromised
<1>24. CASE o < m
  <2>1. PICK o2 \in Nat : o2 = o + 1
    OBVIOUS
  <2>2. o2 >= 1 /\ o2 <= m /\ o2 <= made /\ o2 \in 0..MaxPresses
    BY <1>9, <1>24, <2>1
  <2>3. offset'[t] = o2 /\ poll'[l] = "handing" /\ upto'[l] = m
    BY <1>1, <1>2, <1>4, <1>8, <1>24, <2>1, PollerFrame DEF TypeOK
  <2>4. TypeOK'
    <3>1. offset' \in [Tokens -> 0..MaxPresses] /\ upto' = upto /\ poll' = poll
      BY <1>1, <1>8, <1>24, <2>1, <2>2, PollerFrame DEF TypeOK
    <3> QED
      BY <1>1, <1>7, <1>17, <3>1, PollerFrame DEF TypeOK, ServiceStays
  <2>5. \A i \in 1..k : d[i] \in Nat /\ d[i] >= 1 /\ d[i] <= o2 /\ d[i] < o2
    BY <1>9, <1>13, <2>1
  <2>6. work[l] = "answering" => p >= 1 /\ p <= o2 /\ p < o2
    BY <1>15, <2>1
  <2>7. Client(l, t, o2, made, p, d, k)'
    BY <1>9, <1>10, <1>14, <1>15, <1>16, <1>18, <2>2, <2>3, <2>5, <2>6 DEF Client
  <2>8. IInv'
    BY <1>1, <1>2, <1>16, <2>4, <2>7, PollerFrame, ClientMoves
  <2>9. Waiting(t)' = Line(d, k, o, z)
    <3>1. Counts(l, o2, made, k, o, z)'
      BY <1>0, <2>1, <2>3 DEF Counts
    <3>2. Alive(l) /\ ServiceStays /\ OthersStay(l)
      BY <1>1, PollerFrame
    <3> QED
      BY <1>2, <1>10, <2>7, <3>1, <3>2, QueueBecomes
  <2> QED
    BY <1>23, <2>8, <2>9
<1>25. CASE ~(o < m)
  <2>1. offset'[t] = o /\ poll'[l] = "polling"
    BY <1>1, <1>2, <1>3, <1>8, <1>25, PollerFrame DEF TypeOK, Client
  <2>2. 0 \in 0..MaxPresses
    BY <1>9
  <2>3. TypeOK'
    <3>1. offset' \in [Tokens -> 0..MaxPresses] /\ upto' \in [Listeners -> 0..MaxPresses]
      BY <1>1, <1>8, <1>25, <2>2, PollerFrame DEF TypeOK
    <3> QED
      BY <1>1, <1>7, <1>17, <3>1, PollerFrame DEF TypeOK, ServiceStays
  <2>4. Client(l, t, o, made, p, d, k)'
    BY <1>9, <1>10, <1>13, <1>14, <1>15, <1>16, <1>18, <2>1 DEF Client
  <2>5. IInv'
    BY <1>1, <1>2, <1>16, <2>3, <2>4, PollerFrame, ClientMoves
  <2>6. Waiting(t)' = Line(d, k, o, z)
    <3>1. Counts(l, o, made, k, o, z)'
      BY <1>0, <2>1 DEF Counts
    <3>2. Alive(l) /\ ServiceStays /\ OthersStay(l)
      BY <1>1, PollerFrame
    <3> QED
      BY <1>2, <1>10, <2>4, <3>1, <3>2, QueueBecomes
  <2> QED
    BY <1>23, <2>5, <2>6
<1> QED
  BY <1>24, <1>25

\* The poller loses the update it was handing on when its context ends: one press is dropped.
LEMMA LoseUpdateStep ==
    ASSUME IInv, NEW l \in Listeners, LoseUpdate(l)
    PROVE  IInv' /\ AsPromised
<1>1. Poller(l) /\ poll[l] = "handing"
  BY DEF Poller, LoseUpdate
<1>2. PICK t \in Tokens : TokenOf(l) = t
  BY <1>1, PollerFrame
<1>3. PICK o, made, p, n \in Nat, c \in Seq(1..MaxPresses) : Client(l, t, o, made, p, c, n)
  BY <1>1, <1>2, PollerFrame, ClientOf
<1>4. /\ fate' = [fate EXCEPT ![t][o] = "dropped"]
      /\ poll' = [poll EXCEPT ![l] = "ended"] /\ upto' = [upto EXCEPT ![l] = 0]
      /\ UNCHANGED <<offset, channel>>
  BY <1>2, <1>3 DEF LoseUpdate, Becomes, BatchEnds, client, Client
<1>5. o \in 1..MaxPresses /\ 0 \in 0..MaxPresses /\ o <= made /\ made <= MaxPresses /\ MaxPresses \in Nat
  <2>1. o >= 1 /\ o <= made /\ made <= MaxPresses /\ MaxPresses \in Nat
    BY <1>1, <1>3, PollingAssumption DEF Client
  <2> QED
    BY <2>1
<1>6. /\ fate' \in [Tokens -> [1..MaxPresses -> Inbox!Fates]]
      /\ \A i \in 1..MaxPresses : fate'[t][i] = IF i = o THEN "dropped" ELSE fate[t][i]
      /\ \A u \in Tokens \ {t} : fate'[u] = fate[u]
  BY <1>1, <1>2, <1>4, <1>5, PollerFrame DEF TypeOK, Inbox!Fates
<1>7. TypeOK'
  BY <1>1, <1>4, <1>5, <1>6, PollerFrame DEF TypeOK, ServiceStays
<1>8. /\ ElsewhereStays(t) /\ poll'[l] = "ended" /\ offset'[t] = o /\ channel'[t] = c
      /\ presses' = presses /\ work' = work /\ serving' = serving
  BY <1>1, <1>3, <1>4, <1>6, PollerFrame DEF TypeOK, ElsewhereStays, Client, ServiceStays
<1>9. \A i \in 1..MaxPresses :
         /\ fate'[t][i] = "unmade" <=> i > made
         /\ fate'[t][i] = "answering" => work[l] = "answering" /\ i = p
  BY <1>3, <1>5, <1>6 DEF Client
<1>10. work[l] = "answering" => p >= 1 /\ p <= o /\ fate'[t][p] = "answering"
  <2>1. work[l] = "answering" => p >= 1 /\ p < o /\ fate[t][p] = "answering"
    BY <1>1, <1>3 DEF Client
  <2>2. work[l] = "answering" => p \in 1..MaxPresses /\ p # o /\ p <= o
    BY <1>5, <2>1
  <2> QED
    BY <1>6, <2>1, <2>2
<1>11. Client(l, t, o, made, p, c, n)'
  BY <1>3, <1>8, <1>9, <1>10 DEF Client
<1>12. IInv'
  BY <1>1, <1>2, <1>7, <1>8, <1>11, PollerFrame, ClientMoves
\* The update that is lost is dropped from the queue.
<1>13. PICK q \in Nat : q = o - 1
  BY <1>5
<1>14. PICK k \in Nat : k = n + (made - o)
  BY <1>5
<1>15. o = q + 1 /\ n <= k /\ n + (made - q) = k + 1
  BY <1>5, <1>13, <1>14
<1>16. PICK z \in Nat, a \in Nat : z = k + 1 /\ a = n + 1
  OBVIOUS
<1>17. Alive(l) /\ ServiceStays /\ OthersStay(l)
  BY <1>1, PollerFrame
<1>18. Waiting(t) = Line(c, n, q, z) /\ Numbers(c, n)
  <2>1. Counts(l, o, made, n, q, z)
    BY <1>1, <1>13, <1>15, <1>16 DEF Counts
  <2> QED
    BY <1>2, <1>3, <1>17, <2>1, QueueOf
<1>19. /\ Waiting(t)' = RemoveAt(Waiting(t), a) /\ a \in DOMAIN Waiting(t)
       /\ fate' = [fate EXCEPT ![t][Waiting(t)[a]] = "dropped"]
  <2>1. Counts(l, o, made, n, o, k)'
    BY <1>8, <1>14 DEF Counts
  <2>2. Waiting(t)' = Line(c, n, o, k)
    BY <1>2, <1>11, <1>17, <2>1, QueueBecomes
  <2>3. Loses(Line(c, n, q, z), a, o, Line(c, n, o, k))
    BY <1>15, <1>16, <1>18, LineLoses
  <2>4. Loses(Waiting(t), a, o, Waiting(t)')
    BY <1>18, <2>2, <2>3
  <2> QED
    BY <1>4, <2>4 DEF Loses
<1>20. ControlDone(cur)
  BY <1>1, PollerFrame, AliveIsCurrent DEF LoseUpdate
<1>21. \A u \in Tokens \ {t} : Waiting(u)' = Waiting(u)
  BY <1>1, <1>2, <1>8, PollerFrame, OthersWait
<1>22. AsPromised
  BY <1>19, <1>20, <1>21, InboxDrops
<1> QED
  BY <1>12, <1>22

\* The poller returns: the queue stays.
LEMMA PollEndsStep ==
    ASSUME IInv, NEW l \in Listeners, PollEnds(l)
    PROVE  IInv' /\ AsPromised
<1>1. Poller(l)
  BY DEF Poller
<1>2. PICK t \in Tokens : TokenOf(l) = t
  BY <1>1, PollerFrame
<1>3. PICK o, made, p, n \in Nat, c \in Seq(1..MaxPresses) : Client(l, t, o, made, p, c, n)
  BY <1>1, <1>2, PollerFrame, ClientOf
<1>4. /\ poll' = [poll EXCEPT ![l] = "ended"]
      /\ UNCHANGED <<offset, channel, fate, upto>>
  BY DEF PollEnds, client
<1>5. TypeOK'
  BY <1>1, <1>4, PollerFrame DEF TypeOK, ServiceStays
<1>6. /\ ElsewhereStays(t) /\ poll'[l] = "ended"
      /\ presses' = presses /\ work' = work /\ serving' = serving
  BY <1>1, <1>4, PollerFrame DEF TypeOK, ElsewhereStays, ServiceStays
<1>7. Client(l, t, o, made, p, c, n)'
  BY <1>3, <1>4, <1>6 DEF Client
<1>8. IInv'
  BY <1>1, <1>2, <1>5, <1>6, <1>7, PollerFrame, ClientMoves
<1>0. Alive(l) /\ ServiceStays /\ OthersStay(l) /\ poll[l] = "polling"
  BY <1>1, PollerFrame DEF PollEnds
<1>9. PICK z \in Nat : z = n + (made - o) /\ Waiting(t) = Line(c, n, o, z) /\ Waiting(t)' = Line(c, n, o, z)
  <2>1. PICK z \in Nat : z = n + (made - o)
    BY <1>3 DEF Client
  <2>2. Counts(l, o, made, n, o, z) /\ Counts(l, o, made, n, o, z)'
    BY <1>0, <1>6, <2>1 DEF Counts
  <2>3. Waiting(t) = Line(c, n, o, z)
    BY <1>0, <1>2, <1>3, <2>2, QueueOf
  <2>4. Waiting(t)' = Line(c, n, o, z)
    BY <1>0, <1>2, <1>7, <2>2, QueueBecomes
  <2> QED
    BY <2>1, <2>3, <2>4
<1>10. QueuesStay
  BY <1>1, <1>2, <1>4, <1>6, <1>9, PollerFrame, OthersWait DEF QueuesStay
<1> QED
  BY <1>8, <1>10 DEF AsPromised

-----------------------------------------------------------------------------
(* The steps of a worker                                                   *)

\* The digest a worker starts for a press of its bot's is the one meant.
LEMMA PressStarts ==
    ASSUME IInv, NEW l \in Listeners, Alive(l), NEW t \in Tokens, TokenOf(l) = t,
           NEW m \in Nat, m >= 1, m <= Len(presses[t]), presses[t][m].refresh,
           Cardinality(Addressees(l, presses[t][m])) = 1,
           NEW i \in Addressees(l, presses[t][m]), TryStart(l[1], i, t, m),
           UNCHANGED <<presses, main, cur, settings, stopping>>
    PROVE  runs' \subseteq Run /\ DigestsInOrder' /\ PressStartsItsDigest'
<1>1. /\ TypeOK /\ l[1] = cur
      /\ GroupOf(l) = { j \in DOMAIN RecipientsOf(cur) : RecipientsOf(cur)[j].token = t }
  BY AliveIsCurrent DEF IInv
<1> DEFINE A == Addressees(l, presses[t][m])
           Meant == { j \in DOMAIN RecipientsOf(cur) :
                        /\ RecipientsOf(cur)[j].token = t
                        /\ Matches(presses[t][m].chat, RecipientsOf(cur)[j].expected) }
<1>2. A = Meant
  BY <1>1 DEF Addressees
<1>3. IsFiniteSet(A)
  <2>1. settings[cur] \in Snapshots
    BY <1>1 DEF TypeOK
  <2>2. DOMAIN RecipientsOf(cur) = 1..Len(RecipientsOf(cur)) /\ Len(RecipientsOf(cur)) \in Nat
    BY <2>1, RecipientTokens DEF RecipientsOf
  <2>3. IsFiniteSet(1..Len(RecipientsOf(cur)))
    BY <2>2, FS_Interval
  <2>4. A \subseteq DOMAIN RecipientsOf(cur)
    BY <1>2
  <2> QED
    BY <2>2, <2>3, <2>4, FS_Subset
<1>4. Cardinality(A) = 1 /\ i \in A
  OBVIOUS
<1> HIDE DEF A
<1>5. \E x : A = {x}
  BY <1>3, <1>4, FS_Singleton
<1>6. A = {i} /\ Meant = {i}
  BY <1>2, <1>4, <1>5
<1>7. i \in DOMAIN RecipientsOf(cur)
  BY <1>6
<1>8. CASE runs' = runs
  BY <1>1, <1>8, DigestsStay DEF TypeOK
<1>9. CASE runs' # runs
  <2> DEFINE r == [gen |-> cur, recipient |-> i, bot |-> t, press |-> m]
  <2>1. runs' = runs \cup {r} /\ i \notin stopping[cur]
    BY <1>1, <1>9 DEF TryStart
  <2>2. m \in 0..MaxPresses /\ m # 0 /\ Len(presses[t]) \in Nat /\ m \in 0..Len(presses[t])
    <3>1. Len(presses[t]) \in Nat /\ Len(presses[t]) <= MaxPresses /\ MaxPresses \in Nat
      BY BotOf
    <3> QED
      BY <3>1
  <2>3. i \in Slots
    BY <1>1, <1>7 DEF Slots, RecipientsOf, TypeOK
  <2>4. r \in Run
    BY <1>1, <2>2, <2>3 DEF Run, TypeOK
  <2>5. r.gen = cur /\ r.recipient = i /\ r.bot = t /\ r.press = m
    OBVIOUS
  <2> HIDE DEF r
  <2>6. main = "serving"
    BY <1>7, <2>1 DEF IInv, DigestsInOrder
  <2>7. \A q \in runs : /\ q.gen = cur /\ q.recipient \in DOMAIN RecipientsOf(cur)
                        /\ q.press \in 0..Len(presses[q.bot])
    BY DEF IInv, DigestsInOrder
  <2>8. RecipientsOf(cur)' = RecipientsOf(cur)
    BY DEF RecipientsOf
  <2>9. DigestsInOrder'
    BY <1>7, <2>1, <2>2, <2>5, <2>6, <2>7, <2>8 DEF DigestsInOrder, Ended
  <2>10. PressStartsItsDigest'
    <3>1. presses[t][m].refresh /\ Meant = {i}
      BY <1>6
    <3>2. \A q \in runs : q.press # 0 =>
            /\ q.gen = cur
            /\ presses[q.bot][q.press].refresh
            /\ { j \in DOMAIN RecipientsOf(cur) :
                   /\ RecipientsOf(cur)[j].token = q.bot
                   /\ Matches(presses[q.bot][q.press].chat, RecipientsOf(cur)[j].expected) }
               = {q.recipient}
      BY DEF IInv, PressStartsItsDigest
    <3>3. \A q \in runs' : q.press # 0 =>
            /\ q.gen = cur
            /\ presses[q.bot][q.press].refresh
            /\ { j \in DOMAIN RecipientsOf(cur) :
                   /\ RecipientsOf(cur)[j].token = q.bot
                   /\ Matches(presses[q.bot][q.press].chat, RecipientsOf(cur)[j].expected) }
               = {q.recipient}
      BY <2>1, <2>5, <3>1, <3>2
    <3> QED
      BY <2>8, <3>3 DEF PressStartsItsDigest, Matches
  <2> QED
    BY <1>1, <2>1, <2>4, <2>9, <2>10 DEF TypeOK
<1> QED
  BY <1>8, <1>9

\* What the steps of a worker have in common.
LEMMA WorkerFrame ==
    ASSUME IInv, NEW l \in Listeners, Worker(l)
    PROVE  /\ ServiceStays /\ UNCHANGED <<offset, handlers, poll, upto>>
           /\ work[l] \in {"waiting", "answering"} /\ work'[l] \in {"waiting", "answering", "ended"}
           /\ OthersStay(l) /\ Alive(l) /\ TypeOK /\ TokenOf(l) \in Tokens /\ MaxPresses \in Nat
           /\ poll'[l] \notin {"off", "starting"}
           /\ work' \in [Listeners -> {"off", "waiting", "answering", "ended"}]
<1>1. /\ ServiceStays /\ UNCHANGED <<offset, handlers, poll, upto>>
      /\ work[l] \in {"waiting", "answering"}
  BY DEF Worker, TakeUpdate, WorkEnds, AnswerReturns, client, service, digests, ServiceStays
<1>2. TypeOK /\ poll[l] \notin {"off", "starting"} /\ Alive(l)
  BY <1>1 DEF Alive, IInv, ListenersInOrder
<1>3. \/ work' = work
      \/ \E pc \in {"waiting", "answering", "ended"} : work' = [work EXCEPT ![l] = pc]
  BY DEF Worker, TakeUpdate, WorkEnds, AnswerReturns
<1>4. \/ serving' = serving
      \/ \E m : serving' = [serving EXCEPT ![l] = m]
  BY DEF Worker, TakeUpdate, WorkEnds, AnswerReturns
<1>5. /\ work'[l] \in {"waiting", "answering", "ended"}
      /\ work' \in [Listeners -> {"off", "waiting", "answering", "ended"}]
      /\ \A k \in Listeners \ {l} : work'[k] = work[k]
  BY <1>1, <1>2, <1>3 DEF TypeOK
<1>6. \A k \in Listeners \ {l} : serving'[k] = serving[k]
  BY <1>2, <1>4 DEF TypeOK
<1>7. OthersStay(l)
  BY <1>1, <1>5, <1>6 DEF OthersStay
<1> QED
  BY <1>1, <1>2, <1>5, <1>7, AliveIsCurrent, PollingAssumption

\* The worker stops when its context is done.
LEMMA WorkEndsStep ==
    ASSUME IInv, NEW l \in Listeners, WorkEnds(l)
    PROVE  IInv' /\ AsPromised
<1>1. Worker(l)
  BY DEF Worker
<1>2. PICK t \in Tokens : TokenOf(l) = t
  BY <1>1, WorkerFrame
<1>3. PICK o, made, p, n \in Nat, c \in Seq(1..MaxPresses) : Client(l, t, o, made, p, c, n)
  BY <1>1, <1>2, WorkerFrame, ClientOf
<1>4. /\ work[l] = "waiting" /\ work' = [work EXCEPT ![l] = "ended"]
      /\ UNCHANGED <<presses, offset, channel, handlers, fate, poll, upto, serving, runs>>
  BY DEF WorkEnds, client, digests
<1>5. TypeOK'
  BY <1>1, <1>4, WorkerFrame DEF TypeOK, ServiceStays
<1>6. ElsewhereStays(t) /\ work'[l] = "ended"
  BY <1>1, <1>4, WorkerFrame DEF TypeOK, ElsewhereStays
<1>7. Client(l, t, o, made, p, c, n)'
  BY <1>3, <1>4, <1>6 DEF Client
<1>8. DigestsInOrder' /\ PressStartsItsDigest'
  BY <1>1, <1>4, WorkerFrame, RunsStay
<1>9. IInv'
  BY <1>1, <1>2, <1>4, <1>5, <1>6, <1>7, <1>8, WorkerFrame, ClientMoves
<1>10. QueuesStay
  BY <1>1, <1>4, WorkerFrame, PollersStay DEF QueuesStay, ServiceStays
<1> QED
  BY <1>9, <1>10 DEF AsPromised

\* A press that was answered, or could not be, is done with.
LEMMA AnswerReturnsStep ==
    ASSUME IInv, NEW l \in Listeners, NEW to \in {"answered", "unanswered"}, AnswerReturns(l, to)
    PROVE  IInv' /\ AsPromised
<1>1. Worker(l)
  BY DEF Worker
<1>2. PICK t \in Tokens : TokenOf(l) = t
  BY <1>1, WorkerFrame
<1>3. PICK o, made, p, n \in Nat, c \in Seq(1..MaxPresses) : Client(l, t, o, made, p, c, n)
  BY <1>1, <1>2, WorkerFrame, ClientOf
<1>4. /\ work[l] = "answering" /\ work' = [work EXCEPT ![l] = "waiting"]
      /\ fate' = [fate EXCEPT ![t][p] = to]
      /\ serving' = [serving EXCEPT ![l] = NoPress]
      /\ UNCHANGED <<presses, offset, channel, handlers, poll, upto, runs>>
  BY <1>2, <1>3 DEF AnswerReturns, Becomes, Client, client, digests
<1>5. p \in 1..MaxPresses /\ p <= made /\ fate[t][p] = "answering"
  <2>1. p >= 1 /\ p <= o /\ o <= made /\ made <= MaxPresses /\ MaxPresses \in Nat /\ fate[t][p] = "answering"
    BY <1>3, <1>4, PollingAssumption DEF Client
  <2> QED
    BY <2>1
<1>6. /\ fate' \in [Tokens -> [1..MaxPresses -> Inbox!Fates]]
      /\ \A i \in 1..MaxPresses : fate'[t][i] = IF i = p THEN to ELSE fate[t][i]
      /\ \A u \in Tokens \ {t} : fate'[u] = fate[u]
  BY <1>1, <1>2, <1>4, <1>5, WorkerFrame DEF TypeOK, Inbox!Fates
<1>7. TypeOK'
  <2>1. serving' \in [Listeners -> [handler : Listeners, press : 0..MaxPresses]]
    BY <1>1, <1>4, NoPressIsTyped, WorkerFrame DEF TypeOK
  <2> QED
    BY <1>1, <1>4, <1>6, <2>1, WorkerFrame, SMTT(30) DEF TypeOK, ServiceStays
<1>8. ElsewhereStays(t) /\ work'[l] = "waiting" /\ serving'[l].press = 0
  BY <1>1, <1>4, <1>6, WorkerFrame DEF TypeOK, ElsewhereStays, NoPress
<1>9. \A i \in 1..MaxPresses : /\ fate'[t][i] = "unmade" <=> i > made
                               /\ fate'[t][i] # "answering"
  BY <1>3, <1>5, <1>6 DEF Client
<1>10. PICK z \in Nat : Client(l, t, o, made, z, c, n)'
  <2>1. PICK z \in Nat : z = 0
    OBVIOUS
  <2>2. Client(l, t, o, made, z, c, n)'
    BY <1>3, <1>4, <1>8, <1>9, <2>1 DEF Client
  <2> QED
    BY <2>2
<1>11. DigestsInOrder' /\ PressStartsItsDigest'
  BY <1>1, <1>4, WorkerFrame, RunsStay
<1>12. IInv'
  BY <1>1, <1>2, <1>4, <1>7, <1>8, <1>10, <1>11, WorkerFrame, ClientMoves
<1>13. \A u \in Tokens : Waiting(u)' = Waiting(u)
  BY <1>1, <1>4, WorkerFrame, PollersStay DEF ServiceStays
<1>14. AsPromised
  BY <1>4, <1>5, <1>13, InboxReplies
<1> QED
  BY <1>12, <1>14

\* The oldest press of a bot is taken by its worker.
LEMMA TakeUpdateStep ==
    ASSUME IInv, NEW l \in Listeners, TakeUpdate(l)
    PROVE  IInv' /\ AsPromised
<1>1. Worker(l) /\ work[l] = "waiting"
  BY DEF Worker, TakeUpdate
<1>2. PICK t \in Tokens : TokenOf(l) = t
  BY <1>1, WorkerFrame
<1>3. PICK o, made, p, n \in Nat, c \in Seq(1..MaxPresses) : Client(l, t, o, made, p, c, n)
  BY <1>1, <1>2, WorkerFrame, ClientOf
<1>4. PICK m : m = Head(c)
  OBVIOUS
<1>5. PICK d : d = Tail(c)
  OBVIOUS
<1>6. /\ c # <<>> /\ channel' = [channel EXCEPT ![t] = d]
      /\ \/ /\ fate' = [fate EXCEPT ![t][m] = "ignored"]
            /\ UNCHANGED <<work, serving, runs>>
         \/ /\ handlers[t] # <<>> /\ presses[t][m].refresh
            /\ fate' = [fate EXCEPT ![t][m] = "answering"]
            /\ work' = [work EXCEPT ![l] = "answering"]
            /\ serving' = [serving EXCEPT ![l] = [handler |-> Head(handlers[t]), press |-> m]]
            /\ IF Cardinality(Addressees(Head(handlers[t]), presses[t][m])) = 1
               THEN \E i \in Addressees(Head(handlers[t]), presses[t][m]) :
                       TryStart(Head(handlers[t])[1], i, t, m)
               ELSE UNCHANGED runs
      /\ UNCHANGED <<presses, offset, handlers, main, cur, settings, cancelled, shutdown, stopping, poll, upto>>
  BY <1>2, <1>3, <1>4, <1>5 DEF TakeUpdate, Becomes, Client, service
<1>7. /\ n >= 1 /\ Len(c) = n /\ m = c[1] /\ d \in Seq(1..MaxPresses) /\ Len(d) = n - 1
      /\ \A i \in 1..n - 1 : d[i] = c[i + 1]
  <2>1. Len(c) = n /\ DOMAIN c = 1..n
    BY <1>3 DEF Client
  <2>2. n # 0
    BY <1>6, <2>1, EmptySeq
  <2>3. Head(c) = c[1] /\ Tail(c) \in Seq(1..MaxPresses) /\ Len(Tail(c)) = Len(c) - 1
        /\ \A i \in 1..Len(c) - 1 : Tail(c)[i] = c[i + 1]
    BY <1>6, HeadTailProperties
  <2> QED
    BY <1>4, <1>5, <2>1, <2>2, <2>3
<1>8. PICK k \in Nat : k = n - 1
  BY <1>7
<1>9. /\ m \in Nat /\ m >= 1 /\ m <= o /\ (poll[l] = "handing" => m < o)
      /\ m <= made /\ m \in 1..MaxPresses
  <2>1. 1 \in 1..n
    BY <1>7
  <2>2. /\ c[1] \in Nat /\ c[1] >= 1 /\ c[1] <= o /\ (poll[l] = "handing" => c[1] < o)
        /\ o <= made /\ made <= MaxPresses
    BY <1>3, <2>1 DEF Client
  <2>3. m <= made /\ m <= MaxPresses /\ m >= 1 /\ m \in Nat /\ MaxPresses \in Nat
    BY <1>7, <2>2, PollingAssumption
  <2> QED
    BY <1>7, <2>2, <2>3
<1>10. /\ DOMAIN d = 1..k /\ Len(d) = k
       /\ \A i \in 1..k : /\ d[i] \in Nat /\ d[i] >= 1 /\ d[i] <= o /\ m < d[i]
                          /\ poll[l] = "handing" => d[i] < o
       /\ \A i, j \in 1..k : i < j => d[i] < d[j]
  <2>1. DOMAIN d = 1..k /\ Len(d) = k
    BY <1>7, <1>8, LenProperties
  <2>2. ASSUME NEW i \in 1..k
        PROVE  i + 1 \in 1..n /\ 1 \in 1..n /\ 1 < i + 1 /\ d[i] = c[i + 1]
    BY <1>7, <1>8
  <2>3. ASSUME NEW i \in 1..k
        PROVE  /\ d[i] \in Nat /\ d[i] >= 1 /\ d[i] <= o /\ m < d[i]
               /\ poll[l] = "handing" => d[i] < o
    BY <1>3, <1>7, <2>2 DEF Client
  <2>4. ASSUME NEW i \in 1..k, NEW j \in 1..k, i < j PROVE d[i] < d[j]
    <3>1. i + 1 < j + 1
      BY <2>4
    <3>2. c[i + 1] < c[j + 1]
      BY <1>3, <2>2, <3>1 DEF Client
    <3> QED
      BY <2>2, <3>2
  <2> QED
    BY <2>1, <2>3, <2>4
<1>11. /\ channel' \in [Tokens -> Seq(1..MaxPresses)] /\ channel'[t] = d
       /\ \A u \in Tokens \ {t} : channel'[u] = channel[u]
  BY <1>1, <1>2, <1>6, <1>7, WorkerFrame DEF TypeOK
<1>12. ASSUME NEW to \in {"ignored", "answering"}, fate' = [fate EXCEPT ![t][m] = to]
       PROVE  /\ fate' \in [Tokens -> [1..MaxPresses -> Inbox!Fates]]
              /\ \A i \in 1..MaxPresses : fate'[t][i] = IF i = m THEN to ELSE fate[t][i]
              /\ \A u \in Tokens \ {t} : fate'[u] = fate[u]
  BY <1>1, <1>2, <1>9, <1>12, WorkerFrame DEF TypeOK, Inbox!Fates
<1>13. \A i \in 1..MaxPresses : /\ fate[t][i] = "unmade" <=> i > made
                                /\ fate[t][i] # "answering"
  BY <1>1, <1>3 DEF Client
<1>14. o = offset[t] /\ made = Len(presses[t]) /\ p = serving[l].press /\ o <= made /\ made <= MaxPresses
  BY <1>3 DEF Client
\* The update that is taken was the first of the queue.
<1>0. PICK q \in Nat : q = IF poll[l] = "handing" THEN o - 1 ELSE o
  <2>1. poll[l] = "handing" => o >= 1
    BY <1>3 DEF Client
  <2> QED
    BY <2>1
<1>21. q <= made
  BY <1>14, <1>0
<1>22. PICK y \in Nat, z \in Nat : y = k + (made - q) /\ z = y + 1
  BY <1>21
<1>23. k <= y /\ n = k + 1 /\ z = n + (made - q)
  BY <1>7, <1>8, <1>21, <1>22
<1>24. Alive(l) /\ OthersStay(l) /\ ServiceStays /\ poll' = poll
  BY <1>1, WorkerFrame
<1>25. Waiting(t) = Line(c, n, q, z) /\ Numbers(c, n)
  <2>1. Counts(l, o, made, n, q, z)
    BY <1>0, <1>23 DEF Counts
  <2> QED
    BY <1>2, <1>3, <1>24, <2>1, QueueOf
<1>26. Line(c, n, q, z) # <<>> /\ Head(Line(c, n, q, z)) = m /\ Line(d, k, q, y) = Tail(Line(c, n, q, z))
  <2>1. Follows(d, c, k)
    BY <1>7, <1>8 DEF Follows
  <2>2. Advances(Line(c, n, q, z), c, Line(d, k, q, y))
    BY <1>22, <1>23, <1>25, <2>1, LineAdvances
  <2> QED
    BY <1>7, <2>2 DEF Advances
<1>27. ASSUME NEW to \in {"answering", "ignored"}, NEW r, Client(l, t, o, made, r, d, k)',
              fate' = [fate EXCEPT ![t][m] = to], ElsewhereStays(t)
       PROVE  AsPromised
  <2>1. Counts(l, o, made, k, q, y)'
    BY <1>0, <1>22, <1>24 DEF Counts
  <2>2. Waiting(t)' = Line(d, k, q, y)
    BY <1>2, <1>7, <1>24, <1>27, <2>1, QueueBecomes
  <2>3. \A u \in Tokens \ {t} : Waiting(u)' = Waiting(u)
    BY <1>2, <1>24, <1>27, OthersWait
  <2>4. \A i \in 1..MaxPresses : fate[t][i] # "answering"
    BY <1>13
  <2>5. Waiting(t) # <<>> /\ Head(Waiting(t)) = m /\ Waiting(t)' = Tail(Waiting(t))
    BY <1>25, <1>26, <2>2
  <2> QED
    BY <1>27, <2>3, <2>4, <2>5, InboxTakes
<1>15. CASE fate' = [fate EXCEPT ![t][m] = "ignored"] /\ UNCHANGED <<work, serving, runs>>
  <2>1. /\ fate' \in [Tokens -> [1..MaxPresses -> Inbox!Fates]]
        /\ \A i \in 1..MaxPresses : fate'[t][i] = IF i = m THEN "ignored" ELSE fate[t][i]
        /\ \A u \in Tokens \ {t} : fate'[u] = fate[u]
    BY <1>12, <1>15
  <2>2. TypeOK'
    BY <1>1, <1>6, <1>11, <1>15, <2>1, WorkerFrame DEF TypeOK
  <2>3. ElsewhereStays(t)
    BY <1>6, <1>11, <2>1 DEF ElsewhereStays
  <2>4. \A i \in 1..MaxPresses : /\ fate'[t][i] = "unmade" <=> i > made
                                 /\ fate'[t][i] # "answering"
    BY <1>9, <1>13, <2>1
  <2>5. Client(l, t, o, made, p, d, k)'
    <3>1. poll[l] = "handing" => o >= 1 /\ o <= upto[l] /\ upto[l] <= made
      BY <1>3 DEF Client
    <3> QED
      BY <1>1, <1>6, <1>10, <1>11, <1>14, <1>15, <2>4, <3>1 DEF Client
  <2>6. DigestsInOrder' /\ PressStartsItsDigest'
    BY <1>1, <1>15, WorkerFrame, RunsStay
  <2>7. IInv'
    BY <1>1, <1>2, <1>6, <2>2, <2>3, <2>5, <2>6, WorkerFrame, ClientMoves
  <2> QED
    BY <1>15, <1>27, <2>3, <2>5, <2>7
<1>16. CASE /\ handlers[t] # <<>> /\ presses[t][m].refresh
            /\ fate' = [fate EXCEPT ![t][m] = "answering"]
            /\ work' = [work EXCEPT ![l] = "answering"]
            /\ serving' = [serving EXCEPT ![l] = [handler |-> Head(handlers[t]), press |-> m]]
            /\ IF Cardinality(Addressees(Head(handlers[t]), presses[t][m])) = 1
               THEN \E i \in Addressees(Head(handlers[t]), presses[t][m]) :
                       TryStart(Head(handlers[t])[1], i, t, m)
               ELSE UNCHANGED runs
  <2>1. /\ fate' \in [Tokens -> [1..MaxPresses -> Inbox!Fates]]
        /\ \A i \in 1..MaxPresses : fate'[t][i] = IF i = m THEN "answering" ELSE fate[t][i]
        /\ \A u \in Tokens \ {t} : fate'[u] = fate[u]
    BY <1>12, <1>16
  <2>2. Head(handlers[t]) = l
    <3>1. /\ handlers[t] \in Seq(Listeners) /\ DOMAIN handlers[t] = 1..Len(handlers[t])
          /\ Len(handlers[t]) \in {0, 1}
      BY HandlersOf
    <3>2. 1 \in DOMAIN handlers[t]
      BY <1>16, <3>1, EmptySeq
    <3>3. Head(handlers[t]) = handlers[t][1] /\ handlers[t][1] \in ToSet(handlers[t])
      BY <1>16, <3>1, <3>2, HeadTailProperties DEF ToSet
    <3>4. Head(handlers[t]) \in Listeners
      BY <3>3, HandlersOf
    <3>5. TokenOf(Head(handlers[t])) = t /\ Alive(Head(handlers[t]))
      BY <3>3 DEF IInv, HandlersInOrder, Alive
    <3> QED
      BY <1>1, <1>2, <3>4, <3>5, WorkerFrame, OneAlive
  <2>3. runs' \subseteq Run /\ DigestsInOrder' /\ PressStartsItsDigest'
    <3>1. CASE Cardinality(Addressees(l, presses[t][m])) = 1
      <4>1. PICK i \in Addressees(l, presses[t][m]) : TryStart(l[1], i, t, m)
        BY <1>16, <2>2, <3>1
      <4> QED
        BY <1>1, <1>2, <1>6, <1>9, <1>14, <1>16, <3>1, <4>1, WorkerFrame, PressStarts
    <3>2. CASE Cardinality(Addressees(l, presses[t][m])) # 1
      <4>1. runs' = runs
        BY <1>16, <2>2, <3>2
      <4> QED
        BY <1>1, <4>1, WorkerFrame, RunsStay DEF TypeOK
    <3> QED
      BY <3>1, <3>2
  <2>4. /\ work'[l] = "answering" /\ serving'[l].press = m
        /\ serving' \in [Listeners -> [handler : Listeners, press : 0..MaxPresses]]
    <3>1. [handler |-> l, press |-> m] \in [handler : Listeners, press : 0..MaxPresses]
      BY <1>9
    <3> QED
      BY <1>1, <1>16, <2>2, <3>1, WorkerFrame DEF TypeOK
  <2>5. TypeOK'
    BY <1>1, <1>6, <1>11, <2>1, <2>3, <2>4, WorkerFrame DEF TypeOK
  <2>6. ElsewhereStays(t)
    BY <1>6, <1>11, <2>1 DEF ElsewhereStays
  <2>7. \A i \in 1..MaxPresses : /\ fate'[t][i] = "unmade" <=> i > made
                                 /\ fate'[t][i] = "answering" => i = m
    BY <1>9, <1>13, <2>1
  <2>8. fate'[t][m] = "answering"
    BY <1>9, <2>1
  <2>9. Client(l, t, o, made, m, d, k)'
    <3>1. poll[l] = "handing" => o >= 1 /\ o <= upto[l] /\ upto[l] <= made
      BY <1>3 DEF Client
    <3> QED
      BY <1>6, <1>9, <1>10, <1>11, <1>14, <2>4, <2>7, <2>8, <3>1 DEF Client
  <2>10. IInv'
    BY <1>1, <1>2, <1>6, <1>9, <2>3, <2>4, <2>5, <2>6, <2>9, WorkerFrame, ClientMoves
  <2> QED
    BY <1>16, <1>27, <2>6, <2>9, <2>10
<1> QED
  BY <1>6, <1>15, <1>16

-----------------------------------------------------------------------------
(* Presses and reloads                                                     *)

\* The bound of all presses bounds those of each bot.
LEMMA PressesAreBounded ==
    ASSUME TypeOK, NEW t \in Tokens,
           Cardinality(UNION { {b} \X DOMAIN presses[b] : b \in Tokens }) < MaxPresses
    PROVE  Len(presses[t]) \in Nat /\ Len(presses[t]) + 1 <= MaxPresses
<1> DEFINE Of(b) == {b} \X DOMAIN presses[b]
           All == { Of(b) : b \in Tokens }
           D == DOMAIN presses[t]
           n == Len(presses[t])
<1>1. \A b \in Tokens : DOMAIN presses[b] = 1..Len(presses[b]) /\ Len(presses[b]) \in Nat
  <2>1. \A b \in Tokens : presses[b] \in Seq(Buttons)
    BY DEF TypeOK
  <2> QED
    BY <2>1, LenProperties
<1>2. \A b \in Tokens : IsFiniteSet(DOMAIN presses[b])
  BY <1>1, FS_Interval
<1>3. \A b \in Tokens : IsFiniteSet({b} \X DOMAIN presses[b])
  BY <1>2, FS_Singleton, FS_Product
<1>4. IsFiniteSet(All)
  <2>1. PICK f : f = [b \in Tokens |-> Of(b)]
    OBVIOUS
  <2>2. f \in [Tokens -> All] /\ \A S \in All : \E b \in Tokens : f[b] = S
    BY <2>1
  <2> HIDE DEF All
  <2>3. f \in Surjection(Tokens, All)
    BY <2>2 DEF Surjection
  <2> QED
    BY <2>3, PollingAssumption, FS_Surjection
<1>5. \A S \in All : IsFiniteSet(S)
  BY <1>3
<1>6. {t} \X D \in All
  OBVIOUS
<1>7. n \in Nat /\ D = 1..n /\ IsFiniteSet(D) /\ IsFiniteSet({t} \X D)
  BY <1>1, <1>2, <1>3
<1>8. Cardinality(UNION All) < MaxPresses
  OBVIOUS
<1> HIDE DEF All, D, n
<1>9. IsFiniteSet(UNION All)
  BY <1>4, <1>5, FS_UNION
<1>10. {t} \X D \subseteq UNION All
  BY <1>6
<1>11. Cardinality({t} \X D) <= Cardinality(UNION All)
  BY <1>9, <1>10, FS_Subset
<1>12. IsFiniteSet({t}) /\ Cardinality({t}) = 1
  BY FS_Singleton
<1>13. Cardinality(D) = n
  <2>1. Cardinality(1..n) = IF 1 > n THEN 0 ELSE n - 1 + 1
    BY <1>7, FS_Interval
  <2> QED
    BY <1>7, <2>1
<1>14. Cardinality({t} \X D) = Cardinality({t}) * Cardinality(D)
  BY <1>7, <1>12, FS_Product
<1>15. Cardinality({t} \X D) = n
  BY <1>7, <1>12, <1>13, <1>14
<1>16. Cardinality(UNION All) \in Nat
  BY <1>9, FS_CardinalityType
<1>17. n < MaxPresses /\ MaxPresses \in Nat
  BY <1>7, <1>8, <1>11, <1>15, <1>16, PollingAssumption
<1>18. n + 1 <= MaxPresses
  BY <1>7, <1>17
<1> QED
  BY <1>7, <1>18 DEF n

\* Somebody presses a button: the press is the last of its bot's queue.
LEMMA PressStep ==
    ASSUME IInv, NEW t \in Tokens, NEW press \in Buttons, Press(t, press)
    PROVE  IInv'
<1>1. /\ presses' = [presses EXCEPT ![t] = Append(presses[t], press)]
      /\ fate' = [fate EXCEPT ![t][Len(presses[t]) + 1] = "waiting"]
      /\ UNCHANGED <<offset, channel, handlers, main, cur, settings, cancelled, shutdown, stopping, runs,
                     poll, upto, work, serving>>
      /\ TypeOK
  BY DEF Press, Becomes, client, service, digests, listener, IInv, TypeOK
<1>2. Len(presses[t]) \in Nat /\ Len(presses[t]) + 1 <= MaxPresses
  BY <1>1, PressesAreBounded DEF Press
<1>3. PICK n \in Nat : n = Len(presses[t])
  BY <1>2
<1>4. PICK k \in Nat : k = n + 1
  BY <1>3
<1>5. k \in 1..MaxPresses /\ k <= MaxPresses /\ n < k /\ MaxPresses \in Nat
  BY <1>2, <1>3, <1>4, PollingAssumption
<1>6. /\ fate' \in [Tokens -> [1..MaxPresses -> Inbox!Fates]]
      /\ \A i \in 1..MaxPresses : fate'[t][i] = IF i = k THEN "waiting" ELSE fate[t][i]
      /\ \A u \in Tokens \ {t} : fate'[u] = fate[u]
  BY <1>1, <1>3, <1>4, <1>5 DEF TypeOK, Inbox!Fates
<1>7. /\ presses' \in [Tokens -> Seq(Buttons)] /\ Len(presses'[t]) = k
      /\ \A i \in 1..n : presses'[t][i] = presses[t][i]
      /\ \A u \in Tokens \ {t} : presses'[u] = presses[u]
  <2>1. presses[t] \in Seq(Buttons)
    BY <1>1 DEF TypeOK
  <2>2. /\ Append(presses[t], press) \in Seq(Buttons) /\ Len(Append(presses[t], press)) = k
        /\ \A i \in 1..n : Append(presses[t], press)[i] = presses[t][i]
    BY <1>3, <1>4, <2>1, AppendProperties
  <2> QED
    BY <1>1, <2>2 DEF TypeOK
<1>8. TypeOK'
  BY <1>1, <1>6, <1>7 DEF TypeOK
<1>9. \A l \in Listeners : TokenOf(l)' = TokenOf(l) /\ GroupOf(l)' = GroupOf(l)
  BY <1>1 DEF TokenOf, GroupOf, RecipientsOf
<1>10. ListenersInOrder'
  BY <1>1 DEF IInv, ListenersInOrder, Alive, Started
<1>11. HandlersInOrder'
  <2>1. \A u \in Tokens : ToSet(handlers[u]) \subseteq Listeners
    BY HandlersOf
  <2> QED
    BY <1>1, <1>9, <2>1 DEF IInv, HandlersInOrder, ToSet
<1>12. \A u \in Tokens : Queued(u)' = Queued(u)
  BY <1>1, <1>9 DEF Queued, Handing
<1>13. \A u \in Tokens : /\ Len(presses'[u]) \in Nat /\ Len(presses[u]) \in Nat
                         /\ Len(presses[u]) <= Len(presses'[u]) /\ Len(presses'[u]) <= MaxPresses
                         /\ \A i \in 1..Len(presses[u]) : presses'[u][i] = presses[u][i]
  <2>1. \A u \in Tokens : presses[u] \in Seq(Buttons) /\ Len(presses[u]) <= MaxPresses
    BY <1>1 DEF TypeOK, IInv, QueueInOrder, ChannelInOrder
  <2>2. \A u \in Tokens : Len(presses[u]) \in Nat
    BY <2>1, LenProperties
  <2>3. Len(presses'[t]) \in Nat /\ Len(presses[t]) <= Len(presses'[t]) /\ Len(presses'[t]) <= MaxPresses
    BY <1>3, <1>5, <1>7
  <2> QED
    BY <1>3, <1>7, <2>1, <2>2, <2>3, SMTT(30)
<1>14. DigestsInOrder'
  <2>1. \A r \in runs : r.bot \in Tokens /\ r.press \in 0..Len(presses[r.bot])
    BY <1>1 DEF TypeOK, Run, IInv, DigestsInOrder
  <2>2. \A r \in runs : r.press \in 0..Len(presses'[r.bot])
    BY <1>13, <2>1
  <2> QED
    BY <1>1, <2>2 DEF IInv, DigestsInOrder, RecipientsOf, Ended
<1>15. PressStartsItsDigest'
  <2>1. ASSUME NEW r \in runs, r.press # 0
        PROVE  presses'[r.bot][r.press] = presses[r.bot][r.press]
    <3>1. r.bot \in Tokens /\ r.press \in 0..Len(presses[r.bot])
      BY <1>1 DEF TypeOK, Run, IInv, DigestsInOrder
    <3>2. r.press \in 1..Len(presses[r.bot])
      BY <1>13, <2>1, <3>1
    <3> QED
      BY <1>13, <3>1, <3>2
  <2>2. \A r \in runs : r.press # 0 =>
           /\ r.gen = cur
           /\ presses[r.bot][r.press].refresh
           /\ { j \in DOMAIN RecipientsOf(cur) :
                  /\ RecipientsOf(cur)[j].token = r.bot
                  /\ Matches(presses[r.bot][r.press].chat, RecipientsOf(cur)[j].expected) }
              = {r.recipient}
    BY DEF IInv, PressStartsItsDigest
  <2>3. \A r \in runs : r.press # 0 =>
           /\ r.gen = cur
           /\ presses'[r.bot][r.press].refresh
           /\ { j \in DOMAIN RecipientsOf(cur) :
                  /\ RecipientsOf(cur)[j].token = r.bot
                  /\ Matches(presses'[r.bot][r.press].chat, RecipientsOf(cur)[j].expected) }
              = {r.recipient}
    BY <2>1, <2>2
  <2>4. runs' = runs /\ cur' = cur /\ RecipientsOf(cur)' = RecipientsOf(cur)
    BY <1>1 DEF RecipientsOf
  <2> QED
    BY <2>3, <2>4 DEF PressStartsItsDigest, Matches
<1>16. ASSUME NEW u \in Tokens PROVE QueueInOrder(u)'
  <2>1. ChannelInOrder(u)
    BY DEF IInv, QueueInOrder
  <2>2. offset[u] \in Nat
    BY <1>1 DEF TypeOK
  <2>3. offset[u] <= Len(presses'[u])
    BY <1>13, <2>1, <2>2 DEF ChannelInOrder
  <2>4. ChannelInOrder(u)'
    BY <1>1, <1>12, <1>13, <2>1, <2>3 DEF ChannelInOrder
  <2>5. FatesInOrder(u)
    BY DEF IInv, QueueInOrder
  <2>6. CASE u # t
    <3>1. FatesInOrder(u)'
      BY <1>1, <1>6, <1>7, <1>9, <2>5, <2>6 DEF FatesInOrder
    <3> QED
      BY <2>4, <3>1 DEF QueueInOrder
  <2>7. CASE u = t
    <3>1. ASSUME NEW i \in 1..MaxPresses
          PROVE  /\ fate'[t][i] = "unmade" <=> i > k
                 /\ fate'[t][i] = "answering" => fate[t][i] = "answering"
      <4>1. fate[t][i] = "unmade" <=> i > n
        BY <1>3, <2>5, <2>7 DEF FatesInOrder
      <4> QED
        BY <1>4, <1>5, <1>6, <4>1
    <3>2. \A i \in 1..MaxPresses : fate[t][i] = "answering" =>
             \E l \in Listeners : work[l] = "answering" /\ TokenOf(l) = t /\ serving[l].press = i
      BY <2>5, <2>7 DEF FatesInOrder
    <3>3. FatesInOrder(t)'
      BY <1>1, <1>7, <1>9, <3>1, <3>2 DEF FatesInOrder
    <3> QED
      BY <2>4, <2>7, <3>3 DEF QueueInOrder
  <2> QED
    BY <2>6, <2>7
<1>17. ASSUME NEW l \in Listeners PROVE BusyInOrder(l)'
  <2>1. CASE Alive(l)
    <3>1. PICK u \in Tokens : TokenOf(l) = u
      BY <2>1, AliveIsCurrent
    <3>2. /\ TokenOf(l)' = u
          /\ poll[l] = "handing" => offset[u] >= 1 /\ offset[u] <= upto[l] /\ upto[l] <= Len(presses[u])
          /\ work[l] = "answering" =>
              /\ serving[l].press \in 1..Queued(u)
              /\ \A i \in DOMAIN channel[u] : serving[l].press < channel[u][i]
              /\ fate[u][serving[l].press] = "answering"
      BY <1>9, <3>1 DEF IInv, BusyInOrder
    <3>3. upto[l] \in Nat
      BY <1>1 DEF TypeOK
    <3>4. poll[l] = "handing" => upto[l] <= Len(presses'[u])
      BY <1>13, <3>2, <3>3
    <3>5. work[l] = "answering" => fate'[u][serving[l].press] = "answering"
      <4>1. CASE u # t
        BY <1>6, <3>2, <4>1
      <4>2. CASE u = t
        <5>1. PICK p \in 0..MaxPresses : p = serving[l].press
          BY <1>1 DEF TypeOK
        <5>2. fate[t][k] = "unmade"
          BY <1>3, <1>5 DEF IInv, QueueInOrder, FatesInOrder
        <5>3. work[l] = "answering" => p \in 1..MaxPresses /\ p # k
          BY <1>5, <3>2, <4>2, <5>1, <5>2, BotOf, <2>1, <3>1
        <5> QED
          BY <1>6, <3>2, <4>2, <5>1, <5>3
      <4> QED
        BY <4>1, <4>2
    <3> QED
      BY <1>1, <1>12, <3>2, <3>4, <3>5 DEF BusyInOrder
  <2>2. CASE ~Alive(l)
    BY <1>1, <2>2 DEF IInv, ListenersInOrder, Alive, BusyInOrder
  <2> QED
    BY <2>1, <2>2
<1> QED
  BY <1>8, <1>10, <1>11, <1>14, <1>15, <1>16, <1>17 DEF IInv

\* The next generation finds every client without a listener.
LEMMA RestartStep ==
    ASSUME IInv, NEW s \in Snapshots, Restart(s)
    PROVE  IInv'
<1>1. /\ main = "preparing" /\ cur < MaxGenerations /\ main' = "serving" /\ cur' = cur + 1
      /\ settings' = [settings EXCEPT ![cur + 1] = s]
      /\ poll' = [l \in Listeners |-> IF l \in Started(cur + 1, s) THEN "starting" ELSE poll[l]]
      /\ UNCHANGED <<presses, offset, channel, handlers, fate, cancelled, shutdown, stopping, runs,
                     upto, work, serving>>
      /\ TypeOK
  BY DEF Restart, Goto, client, digests, IInv
<1>2. cur + 1 \in Generations
  BY <1>1, PollingAssumption DEF TypeOK, Generations
<1>3. PICK g \in Generations : g = cur + 1
  BY <1>2
<1>4. runs = {} /\ \A l \in Listeners : poll[l] = "off" /\ work[l] = "off"
  BY <1>1 DEF IInv, DigestsInOrder, Ended, ListenersInOrder, Alive
<1>5. /\ cur' = g /\ settings'[g] = s
      /\ \A l \in Listeners : /\ poll'[l] = (IF l \in Started(g, s) THEN "starting" ELSE "off")
                              /\ work'[l] = "off"
  BY <1>1, <1>3, <1>4 DEF TypeOK
<1>6. TypeOK'
  BY <1>1, <1>2 DEF TypeOK
<1>7. ListenersInOrder'
  BY <1>1, <1>5 DEF ListenersInOrder, Alive, Started
<1>8. \A t \in Tokens : ToSet(handlers[t]) = {}
  BY <1>4, HandlersOf DEF IInv, HandlersInOrder
<1>9. HandlersInOrder'
  BY <1>1, <1>8 DEF IInv, HandlersInOrder
<1>10. DigestsInOrder' /\ PressStartsItsDigest'
  BY <1>1, <1>4 DEF DigestsInOrder, PressStartsItsDigest, Ended
<1>11. \A t \in Tokens : Queued(t) = offset[t] /\ Queued(t)' = offset[t]
  <2>1. \A t \in Tokens : Handing(t) = {} /\ Handing(t)' = {}
    BY <1>4, <1>5 DEF Handing
  <2> QED
    BY <1>1, <2>1 DEF Queued
<1>12. ASSUME NEW t \in Tokens PROVE QueueInOrder(t)'
  <2>1. QueueInOrder(t)
    BY DEF IInv
  <2>2. ChannelInOrder(t)'
    BY <1>1, <1>11, <2>1 DEF QueueInOrder, ChannelInOrder
  <2>3. FatesInOrder(t)'
    BY <1>1, <1>4, <2>1 DEF QueueInOrder, FatesInOrder
  <2> QED
    BY <2>2, <2>3 DEF QueueInOrder
<1>13. ASSUME NEW l \in Listeners PROVE BusyInOrder(l)'
  BY <1>5 DEF BusyInOrder
<1> QED
  BY <1>6, <1>7, <1>9, <1>10, <1>12, <1>13 DEF IInv

-----------------------------------------------------------------------------

\* The service starts with empty queues and without listeners.
LEMMA Initially == Init => IInv
<1> SUFFICES ASSUME Init PROVE IInv
  OBVIOUS
<1>1. MaxPresses \in Nat /\ 1 \in Generations /\ Initial \in Snapshots
  BY PollingAssumption DEF Generations
<1>2. /\ \A t \in Tokens : /\ presses[t] = <<>> /\ offset[t] = 0 /\ channel[t] = <<>> /\ handlers[t] = <<>>
                           /\ fate[t] = [i \in 1..MaxPresses |-> "unmade"]
      /\ settings[cur] = Initial /\ cur = 1 /\ main = "serving" /\ runs = {}
      /\ \A l \in Listeners : /\ poll[l] = (IF l \in Started(1, Initial) THEN "starting" ELSE "off")
                              /\ work[l] = "off"
  BY <1>1 DEF Init
<1>3. TypeOK
  <2>1. /\ presses \in [Tokens -> Seq(Buttons)] /\ handlers \in [Tokens -> Seq(Listeners)]
        /\ channel \in [Tokens -> Seq(1..MaxPresses)]
    BY DEF Init
  <2>2. offset \in [Tokens -> 0..MaxPresses] /\ upto \in [Listeners -> 0..MaxPresses]
    BY <1>1 DEF Init
  <2>3. fate \in [Tokens -> [1..MaxPresses -> Inbox!Fates]]
    BY DEF Init, Inbox!Fates
  <2>4. serving \in [Listeners -> [handler : Listeners, press : 0..MaxPresses]]
    BY NoPressIsTyped DEF Init
  <2> QED
    BY <1>1, <2>1, <2>2, <2>3, <2>4 DEF Init, TypeOK
<1>4. ListenersInOrder
  BY <1>2 DEF ListenersInOrder, Alive
<1>5. HandlersInOrder
  BY <1>2 DEF HandlersInOrder, ToSet
<1>6. DigestsInOrder /\ PressStartsItsDigest
  BY <1>2 DEF DigestsInOrder, PressStartsItsDigest, Ended
<1>7. ASSUME NEW t \in Tokens PROVE QueueInOrder(t)
  <2>1. Handing(t) = {}
    BY <1>2 DEF Handing
  <2>2. ChannelInOrder(t)
    BY <1>1, <1>2 DEF ChannelInOrder
  <2>3. FatesInOrder(t)
    BY <1>1, <1>2 DEF FatesInOrder
  <2> QED
    BY <2>2, <2>3 DEF QueueInOrder
<1>8. ASSUME NEW l \in Listeners PROVE BusyInOrder(l)
  BY <1>2 DEF BusyInOrder
<1> QED
  BY <1>3, <1>4, <1>5, <1>6, <1>7, <1>8 DEF IInv

\* A step that changes nothing.
LEMMA StutterStep ==
    ASSUME IInv, UNCHANGED vars
    PROVE  IInv'
<1>1. UNCHANGED <<presses, offset, channel, handlers, fate, main, cur, settings, cancelled, shutdown,
                  stopping, runs, poll, upto, work, serving>>
  BY DEF vars, client, service, digests, listener
<1>2. DigestsInOrder' /\ PressStartsItsDigest'
  BY <1>1, DigestsStay
<1> QED
  BY <1>1, <1>2, ServiceStep DEF IInv, TypeOK, ListenersInOrder

\* Every step of the service preserves the invariant.
LEMMA NextStep ==
    ASSUME IInv, Next
    PROVE  IInv'
<1>1. CASE \E t \in Tokens, press \in Buttons : Press(t, press)
  BY <1>1, PressStep
<1>2. CASE \E l \in Listeners : Listen(l) \/ Poller(l) \/ Worker(l) \/ Unlisten(l)
  <2>1. PICK l \in Listeners : Listen(l) \/ Poller(l) \/ Worker(l) \/ Unlisten(l)
    BY <1>2
  <2>2. CASE Listen(l) \/ Unlisten(l)
    BY <2>2, ListenSteps
  <2>3. CASE Poller(l)
    BY <2>3, PollReturnsStep, HandOnStep, LoseUpdateStep, PollEndsStep DEF Poller
  <2>4. CASE Worker(l)
    BY <2>4, TakeUpdateStep, WorkEndsStep, AnswerReturnsStep DEF Worker
  <2> QED
    BY <2>1, <2>2, <2>3, <2>4
<1>3. CASE \E g \in Generations, i \in Slots : StartOther(g, i)
  BY <1>3, StartOtherStep
<1>4. CASE \E r \in runs : Finish(r)
  BY <1>4, FinishStep
<1>5. CASE Shutdown \/ Main
  BY <1>5, StopStep, RestartStep DEF Main
<1>6. CASE Exited
  BY <1>6, StutterStep DEF Exited
<1> QED
  BY <1>1, <1>2, <1>3, <1>4, <1>5, <1>6 DEF Next

\* However it is reloaded, the service keeps its listeners, the queues of its
\* bots and its digests in order.
THEOREM Invariant == Spec => []IInv
<1>1. IInv /\ [Next]_vars => IInv'
  BY NextStep, StutterStep
<1> QED
  BY Initially, <1>1, PTL DEF Spec

\* Every variable has its type (TypeOK).
THEOREM TypeCorrect == Spec => []TypeOK
<1>1. IInv => TypeOK
  BY DEF IInv
<1> QED
  BY Invariant, <1>1, PTL

\* A bot's client is used by one listener at a time, one of the generation
\* that runs, and by nobody while the next generation is prepared
\* (OneListenerPerBot).
THEOREM ClientsAreNotShared == Spec => []OneListenerPerBot
<1>1. ASSUME IInv PROVE OneListenerPerBot
  <2>1. \A k, l \in Listeners : Alive(k) /\ Alive(l) /\ TokenOf(k) = TokenOf(l) => k = l
    BY <1>1, OneAlive
  <2>2. ASSUME NEW t \in Tokens, NEW l \in ToSet(handlers[t])
        PROVE  Alive(l) /\ l[1] = cur
    <3>1. l \in Listeners /\ Alive(l)
      BY <1>1, HandlersOf DEF IInv, HandlersInOrder, Alive
    <3> QED
      BY <1>1, <3>1, AliveIsCurrent
  <2>3. main = "preparing" => runs = {} /\ \A l \in Listeners : ~Alive(l)
    BY <1>1 DEF IInv, DigestsInOrder, Ended, ListenersInOrder
  <2> QED
    BY <2>1, <2>2, <2>3 DEF OneListenerPerBot
<1> QED
  BY Invariant, <1>1, PTL

\* A press starts the digest its chat stands for, under the settings in force
\* (PressStartsItsDigest).
THEOREM TheDigestMeantIsStarted == Spec => []PressStartsItsDigest
<1>1. IInv => PressStartsItsDigest
  BY DEF IInv
<1> QED
  BY Invariant, <1>1, PTL

-----------------------------------------------------------------------------
(* The queues of the bots, as PressInbox promises                          *)

\* A press that is made waits behind those made before.
LEMMA PressIsPromised ==
    ASSUME IInv, NEW t \in Tokens, NEW press \in Buttons, Press(t, press)
    PROVE  AsPromised
<1>1. /\ presses' = [presses EXCEPT ![t] = Append(presses[t], press)]
      /\ fate' = [fate EXCEPT ![t][Len(presses[t]) + 1] = "waiting"]
      /\ UNCHANGED <<offset, channel, settings, poll>>
      /\ TypeOK /\ QueueInOrder(t)
  BY DEF Press, Becomes, client, service, digests, listener, IInv, TypeOK
<1>2. PICK made \in Nat : made = Len(presses[t])
  BY <1>1, PressesAreBounded DEF Press
<1>3. PICK k \in Nat : k = made + 1
  OBVIOUS
<1>4. k \in 1..MaxPresses /\ MaxPresses \in Nat
  <2>1. made + 1 <= MaxPresses /\ MaxPresses \in Nat
    BY <1>1, <1>2, PressesAreBounded, PollingAssumption DEF Press
  <2> QED
    BY <1>3, <2>1
<1>5. PICK o \in Nat : o = offset[t]
  BY <1>1 DEF TypeOK
<1>6. PICK c : c = channel[t]
  OBVIOUS
<1>7. c \in Seq(1..MaxPresses) /\ c \in Seq(Nat)
  <2>1. 1..MaxPresses \subseteq Nat
    OBVIOUS
  <2>2. c \in Seq(1..MaxPresses)
    BY <1>1, <1>6 DEF TypeOK
  <2> QED
    BY <2>1, <2>2, SeqMonotonic
<1>8. PICK n \in Nat : n = Len(c)
  BY <1>7, LenProperties
<1>9. PICK H : H = Handing(t)
  OBVIOUS
<1>10. o <= made /\ (H # {} => o >= 1)
  <2>1. ASSUME NEW l \in H PROVE o >= 1
    <3>1. l \in Listeners /\ poll[l] = "handing" /\ TokenOf(l) = t
      BY <1>9 DEF Handing
    <3> QED
      BY <1>5, <3>1 DEF IInv, BusyInOrder
  <2> QED
    BY <1>1, <1>2, <1>5, <2>1 DEF QueueInOrder, ChannelInOrder
<1>11. PICK q \in Nat : q = IF H = {} THEN o ELSE o - 1
  BY <1>10
<1>12. PICK z \in Nat, l \in Nat : z = n + (made - q) /\ l = z + 1
  <2>1. q <= made
    BY <1>10, <1>11
  <2> QED
    BY <2>1
<1>13. n <= z /\ l = n + (k - q) /\ k = q + (l - n)
  BY <1>3, <1>10, <1>11, <1>12
<1>14. Waiting(t) = Line(c, n, q, z)
  <2>1. Stand(c, n, q, o, made, H)
    BY <1>7, <1>8, <1>10, <1>11 DEF Stand
  <2>2. Joined(c, IF H = {} THEN <<>> ELSE <<o>>, Rest(o, made)) = Line(c, n, q, n + (made - q))
    BY <2>1, WaitingIs
  <2>3. Waiting(t) = Joined(c, IF H = {} THEN <<>> ELSE <<o>>, Rest(o, made))
    BY <1>2, <1>5, <1>6, <1>9 DEF Waiting, Rest, Joined
  <2> QED
    BY <1>12, <2>2, <2>3
<1>15. \A u \in Tokens : Handing(u)' = Handing(u)
  BY <1>1 DEF Handing, TokenOf, RecipientsOf
<1>16. presses[t] \in Seq(Buttons) /\ Len(presses'[t]) = k
  <2>1. presses[t] \in Seq(Buttons)
    BY <1>1 DEF TypeOK
  <2>2. Len(Append(presses[t], press)) = k
    BY <1>2, <1>3, <2>1, AppendProperties
  <2> QED
    BY <1>1, <2>1, <2>2 DEF TypeOK
<1>17. Waiting(t)' = Line(c, n, q, l)
  <2>1. Stand(c, n, q, o, k, H)
    BY <1>3, <1>7, <1>8, <1>10, <1>11 DEF Stand
  <2>2. Joined(c, IF H = {} THEN <<>> ELSE <<o>>, Rest(o, k)) = Line(c, n, q, n + (k - q))
    BY <2>1, WaitingIs
  <2>3. k = Len(presses'[t]) /\ o = offset'[t] /\ c = channel'[t] /\ H = Handing(t)'
    BY <1>1, <1>5, <1>6, <1>9, <1>15, <1>16
  <2>4. Waiting(t)' = Joined(c, IF H = {} THEN <<>> ELSE <<o>>, Rest(o, k))
    BY <2>3 DEF Waiting, Rest, Joined
  <2> QED
    BY <1>13, <2>2, <2>4
<1>18. Waiting(t)' = Append(Waiting(t), k)
  <2>1. Numbers(c, n)
    BY <1>7, <1>8, ElementOfSeq DEF Numbers
  <2>2. Grows(Line(c, n, q, z), k, Line(c, n, q, l))
    BY <1>12, <1>13, <2>1, LineGrows
  <2>3. Grows(Waiting(t), k, Waiting(t)')
    BY <1>14, <1>17, <2>2
  <2> QED
    BY <2>3 DEF Grows
<1>19. \A u \in Tokens \ {t} : Waiting(u)' = Waiting(u)
  <2>1. \A u \in Tokens \ {t} : presses'[u] = presses[u]
    BY <1>1 DEF TypeOK
  <2> QED
    BY <1>1, <1>15, <2>1 DEF Waiting
<1>20. fate[t][k] = "unmade" /\ \A j \in 1..k - 1 : fate[t][j] # "unmade"
  <2>1. \A i \in 1..MaxPresses : fate[t][i] = "unmade" <=> i > made
    BY <1>1, <1>2 DEF QueueInOrder, FatesInOrder
  <2>2. \A j \in 1..k - 1 : j \in 1..MaxPresses /\ ~(j > made)
    BY <1>3, <1>4
  <2> QED
    BY <1>3, <1>4, <2>1, <2>2
<1>21. fate' = [fate EXCEPT ![t][k] = "waiting"]
  BY <1>1, <1>2, <1>3
<1> QED
  BY <1>4, <1>18, <1>19, <1>20, <1>21, InboxMakes

\* A listener that starts or has ended leaves the queues alone.
LEMMA ListenIsPromised ==
    ASSUME NEW l \in Listeners, Listen(l) \/ Unlisten(l), TypeOK
    PROVE  AsPromised
<1>1. /\ UNCHANGED <<presses, offset, channel, fate, settings>>
      /\ poll[l] \in {"starting", "ended"} /\ poll'[l] \in {"polling", "off"}
      /\ \A k \in Listeners \ {l} : poll'[k] = poll[k]
  BY DEF Listen, Unlisten, service, digests, TypeOK
<1>2. \A t \in Tokens : Handing(t)' = Handing(t)
  BY <1>1 DEF Handing, TokenOf, RecipientsOf
<1> QED
  BY <1>1, <1>2, QueuesUnmoved DEF AsPromised, QueuesStay

\* So do the service and its digests.
LEMMA ServiceIsPromised ==
    ASSUME \/ Shutdown \/ RequestStop \/ RunsEnded \/ ListenersEnded \/ ReloadAborted
           \/ \E g \in Generations, i \in Slots : StartOther(g, i)
           \/ \E r \in runs : Finish(r)
           \/ UNCHANGED vars
    PROVE  AsPromised
<1>1. UNCHANGED <<presses, offset, channel, fate, settings, poll>>
  BY DEF Shutdown, RequestStop, RunsEnded, ListenersEnded, ReloadAborted, StartOther, Finish,
         vars, client, service, digests, listener
<1> QED
  BY <1>1, PollersStay DEF AsPromised, QueuesStay

\* The next generation takes over the queues as the last one left them.
LEMMA RestartIsPromised ==
    ASSUME IInv, NEW s \in Snapshots, Restart(s)
    PROVE  AsPromised
<1>1. UNCHANGED <<presses, offset, channel, fate>> /\ main = "preparing"
  BY DEF Restart, client
<1>2. \A l \in Listeners : poll[l] # "handing" /\ poll'[l] # "handing"
  BY <1>1 DEF Restart, IInv, ListenersInOrder, Alive
<1>3. \A t \in Tokens : Handing(t) = {} /\ Handing(t)' = {}
  BY <1>2 DEF Handing
<1> QED
  BY <1>1, <1>3, QueuesUnmoved DEF AsPromised, QueuesStay

\* No step does to the queues what the inbox does not promise.
LEMMA NextIsPromised ==
    ASSUME IInv, [Next]_vars
    PROVE  AsPromised
<1>1. CASE \E t \in Tokens, press \in Buttons : Press(t, press)
  BY <1>1, PressIsPromised
<1>2. CASE \E l \in Listeners : Listen(l) \/ Poller(l) \/ Worker(l) \/ Unlisten(l)
  <2>1. PICK l \in Listeners : Listen(l) \/ Poller(l) \/ Worker(l) \/ Unlisten(l)
    BY <1>2
  <2>2. CASE Listen(l) \/ Unlisten(l)
    BY <2>2, ListenIsPromised DEF IInv
  <2>3. CASE Poller(l)
    BY <2>3, PollReturnsStep, HandOnStep, LoseUpdateStep, PollEndsStep DEF Poller
  <2>4. CASE Worker(l)
    BY <2>4, TakeUpdateStep, WorkEndsStep, AnswerReturnsStep DEF Worker
  <2> QED
    BY <2>1, <2>2, <2>3, <2>4
<1>3. CASE \E s \in Snapshots : Restart(s)
  BY <1>3, RestartIsPromised
<1>4. CASE \/ Shutdown \/ RequestStop \/ RunsEnded \/ ListenersEnded \/ ReloadAborted
           \/ \E g \in Generations, i \in Slots : StartOther(g, i)
           \/ \E r \in runs : Finish(r)
           \/ UNCHANGED vars
  BY <1>4, ServiceIsPromised
<1>5. CASE Exited
  BY <1>5, ServiceIsPromised DEF Exited
<1> QED
  BY <1>1, <1>2, <1>3, <1>4, <1>5 DEF Next, Main

\* Nothing waits when the process starts.
LEMMA InboxStarts == Init => Inbox!Init
<1> SUFFICES ASSUME Init PROVE Inbox!Init
  OBVIOUS
<1>1. ASSUME NEW t \in Tokens PROVE Waiting(t) = <<>>
  <2>1. Handing(t) = {}
    BY DEF Init, Handing
  <2>2. presses[t] = <<>> /\ offset[t] = 0 /\ channel[t] = <<>>
    BY DEF Init
  <2>3. Stand(<<>>, 0, 0, 0, 0, {})
    BY EmptySeq DEF Stand
  <2>4. PICK n \in Nat : n = 0
    OBVIOUS
  <2>5. Joined(<<>>, IF {} = {} THEN <<>> ELSE <<n>>, Rest(n, n)) = Line(<<>>, n, n, n + (n - n))
    <3>1. Stand(<<>>, n, n, n, n, {})
      BY <2>3, <2>4
    <3> QED
      BY <3>1, WaitingIs
  <2>6. Line(<<>>, n, n, n + (n - n)) = <<>>
    BY <2>4 DEF Line
  <2>7. Waiting(t) = Joined(<<>>, IF {} = {} THEN <<>> ELSE <<n>>, Rest(n, n))
    BY <2>1, <2>2, <2>4 DEF Waiting, Joined, Rest
  <2> QED
    BY <2>5, <2>6, <2>7
<1>2. fate = [t \in Tokens |-> [i \in 1..MaxPresses |-> "unmade"]]
  BY DEF Init
<1> QED
  BY <1>1, <1>2 DEF Inbox!Init

\* Across reloads the presses of a bot are a queue: each is taken from it once
\* and in the order they were made, none is answered twice, and one is dropped
\* only while polling is being stopped (ImplementsInbox).
THEOREM InboxImplemented == Spec => ImplementsInbox
<1>1. IInv /\ [Next]_vars => [Inbox!Next]_(Inbox!vars)
  <2> SUFFICES ASSUME IInv, [Next]_vars PROVE [Inbox!Next]_(Inbox!vars)
    OBVIOUS
  <2>1. AsPromised
    BY NextIsPromised
  <2> QED
    BY <2>1, InboxStutters DEF AsPromised
<1> QED
  BY Invariant, InboxStarts, <1>1, PTL DEF Spec, ImplementsInbox, Inbox!Spec
=============================================================================
