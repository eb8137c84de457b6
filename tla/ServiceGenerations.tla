------------------------- MODULE ServiceGenerations -------------------------
(***************************************************************************)
(* The service process of internal/process: digest runners (runner.go),    *)
(* the service generation that owns them (reload.go), the cron scheduler   *)
(* and the callback poller that start their digests, and the main loop     *)
(* that replaces the generation when the configuration file changes.       *)
(*                                                                         *)
(* Every goroutine is a process of its own.  The critical sections of a    *)
(* runner's lifecycle mutex do not block, so each is one step.  What a     *)
(* digest does while it holds the runner's lock is DigestCycle's subject.  *)
(***************************************************************************)
EXTENDS Naturals, FiniteSets

CONSTANTS
    Chats,          \* chat ids
    Snapshots,      \* valid configurations
    Invalid,        \* the file is missing, unreadable or rejected
    Recipients,     \* the chats of each configuration
    RunOnStartup,   \* whether a configuration wants startup digests
    Unpreparable,   \* configurations whose Prepare hook fails
    Initial,        \* the configuration the process starts with
    Tasks,          \* goroutines that run digests
    Free,           \* nobody holds a runner's lock
    MaxGenerations, \* bound of the generations, for model checking
    MaxEdits        \* bound of the changes of the file, for model checking

ASSUME ServiceAssumption ==
    /\ Invalid \notin Snapshots /\ Initial \in Snapshots /\ Unpreparable \subseteq Snapshots
    /\ Recipients \in [Snapshots -> SUBSET Chats] /\ RunOnStartup \in [Snapshots -> BOOLEAN]
    /\ \A s \in Snapshots : Recipients[s] # {}
    /\ Free \notin Tasks
    /\ MaxGenerations \in Nat \ {0} /\ MaxEdits \in Nat

Generations == 1..MaxGenerations

VARIABLES
    file,       \* what the configuration file holds
    edits,      \* how often it was changed
    shutdown,   \* the process was told to stop
    main,       \* where the main loop is
    exiting,    \* the main loop is stopping the generation for good
    cur,        \* the latest generation
    snapshot,   \* the configuration of each generation
    startup,    \* chats whose startup digest a generation has still to launch
    phase,      \* where a generation's own goroutine is
    cancelled,  \* its control context was cancelled by stop
    stopping,   \* the runners of a generation that refuse new digests
    lock,       \* the task that holds a runner's lock
    poller,     \* where a generation's callback worker is
    task,       \* what each task is doing
    greeted     \* startup digests a chat got since it was added

config   == <<file, edits, shutdown>>
loop     == <<main, exiting, cur>>
service  == <<snapshot, startup, phase, cancelled>>
runners  == <<stopping, lock, poller>>
vars     == <<config, loop, service, runners, task, greeted>>

NoTask == [pc |-> "free", kind |-> "startup", gen |-> 1, chat |-> CHOOSE c \in Chats : TRUE]

ChatsOf(g) == Recipients[snapshot[g]]

\* The control context of a generation is a child of the process context.
ControlDone(g) == cancelled[g] \/ shutdown

\* A task that Runs.Wait or refreshRuns.Wait waits for.
Active(t) == task[t].pc \in {"admitted", "running", "unlocked"}

ActiveIn(g) == { t \in Tasks : Active(t) /\ task[t].gen = g }

Init ==
    /\ file = Initial /\ edits = 0 /\ shutdown = FALSE
    /\ main = "serving" /\ exiting = FALSE /\ cur = 1
    /\ snapshot = [g \in Generations |-> Initial]
    /\ startup = [g \in Generations |->
                    IF g = 1 /\ RunOnStartup[Initial] THEN Recipients[Initial] ELSE {}]
    /\ phase = [g \in Generations |-> IF g = 1 THEN "starting" ELSE "unborn"]
    /\ cancelled = [g \in Generations |-> FALSE]
    /\ stopping = [g \in Generations |-> {}]
    /\ lock = [g \in Generations |-> [c \in Chats |-> Free]]
    /\ poller = [g \in Generations |-> IF g = 1 THEN "listening" ELSE "off"]
    /\ task = [t \in Tasks |-> NoTask]
    /\ greeted = [c \in Chats |-> 0]

-----------------------------------------------------------------------------
(* The environment                                                         *)

Edit ==
    /\ edits < MaxEdits
    /\ edits' = edits + 1
    /\ file' \in (Snapshots \cup {Invalid}) \ {file}
    /\ UNCHANGED <<shutdown, loop, service, runners, task, greeted>>

Shutdown ==
    /\ ~shutdown
    /\ shutdown' = TRUE
    /\ UNCHANGED <<file, edits, loop, service, runners, task, greeted>>

-----------------------------------------------------------------------------
(* Digest runners                                                          *)

Launch(t, kind, g, c, pc) ==
    /\ task[t].pc = "free"
    /\ task' = [task EXCEPT ![t] = [pc |-> pc, kind |-> kind, gen |-> g, chat |-> c]]

Become(t, pc) == task' = [task EXCEPT ![t].pc = pc]

Leave(t) == task' = [task EXCEPT ![t] = NoTask]

SetLock(t, holder) == lock' = [lock EXCEPT ![task[t].gen][task[t].chat] = holder]

\* Mistaken: digests are admitted to a runner that is stopping.
BeginRunUnchecked(t) ==
    /\ task[t].pc = "spawned"
    /\ Become(t, "admitted")
    /\ UNCHANGED <<config, loop, service, runners, greeted>>

\* beginRun: under the lifecycle mutex, refused once the runner is stopping.
BeginRun(t) ==
    /\ task[t].pc = "spawned"
    /\ IF task[t].chat \in stopping[task[t].gen] THEN Leave(t) ELSE Become(t, "admitted")
    /\ UNCHANGED <<config, loop, service, runners, greeted>>

\* Mistaken: a startup digest does not wait for the lock.
AcquireHeld(t) ==
    /\ task[t].pc = "admitted"
    /\ task[t].kind = "startup" \/ lock[task[t].gen][task[t].chat] = Free
    /\ SetLock(t, t)
    /\ Become(t, "running")
    /\ greeted' = IF task[t].kind = "startup" THEN [greeted EXCEPT ![task[t].chat] = @ + 1]
                                              ELSE greeted
    /\ UNCHANGED <<config, loop, service, stopping, poller>>

\* A startup digest waits for the lock; a scheduled one only tries it.
Acquire(t) ==
    /\ task[t].pc = "admitted"
    /\ lock[task[t].gen][task[t].chat] = Free
    /\ SetLock(t, t)
    /\ Become(t, "running")
    /\ greeted' = IF task[t].kind = "startup" THEN [greeted EXCEPT ![task[t].chat] = @ + 1]
                                              ELSE greeted
    /\ UNCHANGED <<config, loop, service, stopping, poller>>

SkipBusy(t) ==
    /\ task[t].pc = "admitted" /\ task[t].kind = "scheduled"
    /\ lock[task[t].gen][task[t].chat] # Free
    /\ Leave(t)
    /\ UNCHANGED <<config, loop, service, runners, greeted>>

\* The digest returns and the lock is released, ...
Finish(t) ==
    /\ task[t].pc = "running"
    /\ SetLock(t, Free)
    /\ Become(t, "unlocked")
    /\ UNCHANGED <<config, loop, service, stopping, poller, greeted>>

\* ... then the wait group is told.
Done(t) ==
    /\ task[t].pc = "unlocked"
    /\ Leave(t)
    /\ UNCHANGED <<config, loop, service, runners, greeted>>

-----------------------------------------------------------------------------
(* The poller of a generation                                              *)

\* The worker handles the press of a chat's button: tryStartRefresh, under
\* the lifecycle mutex, refuses when the runner is stopping or busy.
Press(g, c) ==
    /\ poller[g] = "listening" /\ c \in ChatsOf(g)
    /\ poller' = [poller EXCEPT ![g] = "answering"]
    /\ IF c \in stopping[g] \/ lock[g][c] # Free
       THEN UNCHANGED <<task, lock>>
       ELSE \E t \in Tasks :
               /\ Launch(t, "refresh", g, c, "running")
               /\ lock' = [lock EXCEPT ![g][c] = t]
    /\ UNCHANGED <<config, loop, service, stopping, greeted>>

\* AnswerCallback returns, with or without an error.
Answered(g) ==
    /\ poller[g] = "answering"
    /\ poller' = [poller EXCEPT ![g] = "listening"]
    /\ UNCHANGED <<config, loop, service, stopping, lock, task, greeted>>

\* Mistaken: polling ends after the generation that waits for its end.
StopPollingLast(g) ==
    /\ poller[g] = "listening" /\ phase[g] = "done"
    /\ poller' = [poller EXCEPT ![g] = "off"]
    /\ UNCHANGED <<config, loop, service, stopping, lock, task, greeted>>

StopPolling(g) ==
    /\ poller[g] = "listening" /\ ControlDone(g)
    /\ poller' = [poller EXCEPT ![g] = "off"]
    /\ UNCHANGED <<config, loop, service, stopping, lock, task, greeted>>

-----------------------------------------------------------------------------
(* serviceGeneration.run                                                   *)

Enter(g, p) == phase' = [phase EXCEPT ![g] = p]

LaunchStartup(g, c) ==
    /\ phase[g] = "starting" /\ c \in startup[g]
    /\ \E t \in Tasks : Launch(t, "startup", g, c, "spawned")
    /\ startup' = [startup EXCEPT ![g] = @ \ {c}]
    /\ UNCHANGED <<config, loop, snapshot, phase, cancelled, runners, greeted>>

StartScheduler(g) ==
    /\ phase[g] = "starting" /\ startup[g] = {}
    /\ Enter(g, "serving")
    /\ UNCHANGED <<config, loop, snapshot, startup, cancelled, runners, task, greeted>>

\* The scheduler launches a goroutine per chat at every scheduled time.
Fire(g, c) ==
    /\ phase[g] = "serving" /\ c \in ChatsOf(g)
    /\ \E t \in Tasks : Launch(t, "scheduled", g, c, "spawned")
    /\ UNCHANGED <<config, loop, service, runners, greeted>>

StopScheduler(g) ==
    /\ phase[g] = "serving" /\ ControlDone(g)
    /\ Enter(g, "draining")
    /\ UNCHANGED <<config, loop, snapshot, startup, cancelled, runners, task, greeted>>

SchedulerStopped(g) ==
    /\ phase[g] = "draining"
    /\ \A t \in Tasks :
          task[t].kind = "scheduled" /\ task[t].gen = g => task[t].pc = "free"
    /\ Enter(g, "stopping")
    /\ UNCHANGED <<config, loop, snapshot, startup, cancelled, runners, task, greeted>>

\* stopAndWait of every runner.
HaltRunner(g, c) ==
    /\ phase[g] = "stopping" /\ c \in ChatsOf(g) \ stopping[g]
    /\ stopping' = [stopping EXCEPT ![g] = @ \cup {c}]
    /\ UNCHANGED <<config, loop, service, lock, poller, task, greeted>>

RunnersHalted(g) ==
    /\ phase[g] = "stopping" /\ ChatsOf(g) \subseteq stopping[g] /\ ActiveIn(g) = {}
    /\ Enter(g, "joining")
    /\ UNCHANGED <<config, loop, snapshot, startup, cancelled, runners, task, greeted>>

CloseDone(g) ==
    /\ phase[g] = "joining" /\ poller[g] = "off"
    /\ Enter(g, "done")
    /\ UNCHANGED <<config, loop, snapshot, startup, cancelled, runners, task, greeted>>

-----------------------------------------------------------------------------
(* The main loop: RunReloadable, reloadGeneration and generation.stop      *)

\* A tick finds a valid file with other settings than the running ones.  An
\* invalid file, or the same settings, change nothing.
ReloadPending ==
    /\ main = "serving" /\ cur < MaxGenerations
    /\ file \in Snapshots /\ file # snapshot[cur]
    /\ main' = "requesting"
    /\ UNCHANGED <<config, exiting, cur, service, runners, task, greeted>>

ShutdownSeen ==
    /\ main = "serving" /\ shutdown
    /\ main' = "requesting" /\ exiting' = TRUE
    /\ UNCHANGED <<config, cur, service, runners, task, greeted>>

RequestStop(c) ==
    /\ main = "requesting" /\ c \in ChatsOf(cur) \ stopping[cur]
    /\ stopping' = [stopping EXCEPT ![cur] = @ \cup {c}]
    /\ UNCHANGED <<config, loop, service, lock, poller, task, greeted>>

StopRequested ==
    /\ main = "requesting" /\ ChatsOf(cur) \subseteq stopping[cur]
    /\ main' = "waiting"
    /\ UNCHANGED <<config, exiting, cur, service, runners, task, greeted>>

\* Mistaken: wait covers the refreshes only.
RefreshesWaited ==
    /\ main = "waiting" /\ \A t \in ActiveIn(cur) : task[t].kind # "refresh"
    /\ main' = "joining"
    /\ cancelled' = [cancelled EXCEPT ![cur] = TRUE]
    /\ UNCHANGED <<config, exiting, cur, snapshot, startup, phase, runners, task, greeted>>

\* Every runner's wait has returned; stop cancels the control context.
RunnersWaited ==
    /\ main = "waiting" /\ ActiveIn(cur) = {}
    /\ main' = "joining"
    /\ cancelled' = [cancelled EXCEPT ![cur] = TRUE]
    /\ UNCHANGED <<config, exiting, cur, snapshot, startup, phase, runners, task, greeted>>

Joined ==
    /\ main = "joining" /\ phase[cur] = "done"
    /\ main' = IF exiting THEN "exited" ELSE "rechecking"
    /\ UNCHANGED <<config, exiting, cur, service, runners, task, greeted>>

\* startServiceGeneration.  A chat that is not in the configuration any more
\* will be new when it comes back.
StartGeneration(s, chats) ==
    /\ main' = "serving" /\ cur' = cur + 1
    /\ snapshot' = [snapshot EXCEPT ![cur + 1] = s]
    /\ startup' = [startup EXCEPT ![cur + 1] = chats]
    /\ phase' = [phase EXCEPT ![cur + 1] = "starting"]
    /\ poller' = [poller EXCEPT ![cur + 1] = "listening"]
    /\ greeted' = [c \in Chats |-> IF c \in Recipients[s] THEN greeted[c] ELSE 0]
    /\ UNCHANGED <<config, exiting, cancelled, stopping, lock, task>>

\* Mistaken: every chat of the new configuration counts as new.
NewChatsAll(old, new) == IF RunOnStartup[new] THEN Recipients[new] ELSE {}

\* newRecipientStartupChats
NewChats(old, new) == IF RunOnStartup[new] THEN Recipients[new] \ Recipients[old] ELSE {}

\* Mistaken: the previous settings are resumed whatever the file holds.
RestartPrevious ==
    /\ main = "rechecking"
    /\ file = Invalid => ~shutdown
    /\ StartGeneration(snapshot[cur], {})

\* The file is read again: it may have changed while digests finished.
Restart ==
    /\ main = "rechecking"
    /\ file = Invalid => ~shutdown
    /\ IF file \in Snapshots \ ({snapshot[cur]} \cup Unpreparable)
       THEN StartGeneration(file, NewChats(snapshot[cur], file))
       ELSE StartGeneration(snapshot[cur], {})

\* Reading it failed because the process is stopping.
RecheckInterrupted ==
    /\ main = "rechecking" /\ shutdown
    /\ main' = "exited"
    /\ UNCHANGED <<config, exiting, cur, service, runners, task, greeted>>

\* RunReloadable has returned.
Exited == main = "exited" /\ UNCHANGED vars

-----------------------------------------------------------------------------

Task(t) == BeginRun(t) \/ Acquire(t) \/ SkipBusy(t) \/ Finish(t) \/ Done(t)

Generation(g) ==
    \/ \E c \in Chats : LaunchStartup(g, c) \/ HaltRunner(g, c)
    \/ StartScheduler(g) \/ StopScheduler(g) \/ SchedulerStopped(g)
    \/ RunnersHalted(g) \/ CloseDone(g)

Main ==
    \/ ReloadPending \/ ShutdownSeen
    \/ \E c \in Chats : RequestStop(c)
    \/ StopRequested \/ RunnersWaited \/ Joined \/ Restart \/ RecheckInterrupted

Next ==
    \/ Edit \/ Shutdown \/ Main \/ Exited
    \/ \E t \in Tasks : Task(t)
    \/ \E g \in Generations :
          \/ Generation(g) \/ Answered(g) \/ StopPolling(g)
          \/ \E c \in Chats : Press(g, c) \/ Fire(g, c)

Spec == Init /\ [][Next]_vars

\* Goroutines are scheduled, a digest ends, an answer ends.  select chooses at
\* random, so that the main loop sees a shutdown in the end rather than ticks
\* for ever, and a poller whose context is done stops rather than taking
\* presses for ever.  A Go mutex that keeps a waiter waiting is handed over to
\* it, and TryLock fails meanwhile.  A generation is strongly fair as a go
\* statement does not wait for one of the model's Tasks to be free.
Fairness ==
    /\ WF_vars(Main) /\ SF_vars(ShutdownSeen)
    /\ \A t \in Tasks : WF_vars(Task(t)) /\ SF_vars(Acquire(t))
    /\ \A g \in Generations :
          SF_vars(Generation(g)) /\ WF_vars(Answered(g)) /\ SF_vars(StopPolling(g))

FairSpec == Spec /\ Fairness
-----------------------------------------------------------------------------
(* Properties                                                              *)

Phases == {"unborn", "starting", "serving", "draining", "stopping", "joining", "done"}

\* Every variable has its type.
TypeOK ==
    /\ file \in Snapshots \cup {Invalid} /\ edits \in 0..MaxEdits /\ shutdown \in BOOLEAN
    /\ main \in {"serving", "requesting", "waiting", "joining", "rechecking", "exited"}
    /\ exiting \in BOOLEAN /\ cur \in Generations
    /\ snapshot \in [Generations -> Snapshots]
    /\ startup \in [Generations -> SUBSET Chats]
    /\ phase \in [Generations -> Phases]
    /\ cancelled \in [Generations -> BOOLEAN]
    /\ stopping \in [Generations -> SUBSET Chats]
    /\ lock \in [Generations -> [Chats -> Tasks \cup {Free}]]
    /\ poller \in [Generations -> {"off", "listening", "answering"}]
    /\ task \in [Tasks -> [pc : {"free", "spawned", "admitted", "running", "unlocked"},
                           kind : {"startup", "scheduled", "refresh"},
                           gen : Generations, chat : Chats]]
    /\ greeted \in [Chats -> Nat]

\* Two digests of one chat never run at once, whatever starts them and although
\* every generation has runners, and locks, of its own.
OneDigestPerChat ==
    \A t, u \in Tasks :
        t # u /\ task[t].pc = "running" /\ task[u].pc = "running"
        => task[t].chat # task[u].chat

\* A digest that was admitted belongs to the latest generation, and the main
\* loop has not gone past waiting for it: no digest runs with settings that
\* were replaced, and none outlives the process's stop.
OnlyCurrentSettingsRun ==
    \A t \in Tasks : Active(t) =>
        task[t].gen = cur /\ main \in {"serving", "requesting", "waiting"}

\* While the main loop waits for the digests of a generation none is admitted
\* to it: the wait groups only count down, and active digests alone delay the
\* new settings.
NoAdmissionWhileWaiting ==
    [][main = "waiting" =>
          \A t \in Tasks : Active(t)' /\ task'[t].gen = cur => Active(t)]_vars

\* A chat gets one startup digest at most for as long as it stays configured,
\* however often the settings change, are rejected or fail to apply.
GreetedOnce == \A c \in Chats : greeted[c] <= 1

\* A stop that was begun ends: the runners, the scheduler, the poller and the
\* main loop never wait for each other in a circle.
StopEnds == main = "requesting" ~> main \in {"serving", "exited"}

\* The process ends when it is told to.
ShutdownEnds == shutdown ~> main = "exited"

\* When the file holds settings that can be applied and is not changed any
\* more, the service comes to run them.
SettingsConverge ==
    \A s \in Snapshots \ Unpreparable :
        [](file = s) ~> (snapshot[cur] = s \/ shutdown)

\* A chat that a reload adds gets its startup digest, unless it is removed
\* again or the process is stopped.
NewChatIsGreeted ==
    \A c \in Chats :
        (main = "serving" /\ cur > 1 /\ c \in startup[cur])
        ~> (greeted[c] > 0 \/ c \notin ChatsOf(cur) \/ shutdown)
=============================================================================
