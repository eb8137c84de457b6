---------------------- MODULE ServiceGenerationsProofs ----------------------
(***************************************************************************)
(* Whatever configurations, chats and goroutines there are, and however    *)
(* often the file changes: one digest per chat at a time, all of the       *)
(* current settings, none admitted once the main loop waits, and one       *)
(* startup digest per chat.                                                *)
(***************************************************************************)
EXTENDS ServiceGenerations, TLAPS

\* Generations are born in turn, and only the latest may have startup digests
\* left to launch.
GenerationsInTurn ==
    /\ \A g \in Generations : g > cur => phase[g] = "unborn" /\ poller[g] = "off"
    /\ \A g \in Generations :
          /\ startup[g] \subseteq ChatsOf(g)
          /\ startup[g] # {} => g = cur /\ phase[g] = "starting"
    /\ main = "rechecking" => phase[cur] = "done" /\ ~exiting
    /\ main = "serving" => ~exiting
    /\ main # "serving" /\ main # "exited" /\ ~exiting => cur < MaxGenerations

\* The main loop has told every runner of g to refuse digests.
Refusing(g) == ChatsOf(g) \subseteq stopping[g]

\* Every older generation refuses digests, and so does the current one from the
\* moment the main loop waits for it.
ReplacedRefuse ==
    /\ \A g \in Generations : g < cur => Refusing(g)
    /\ main \notin {"serving", "requesting"} => Refusing(cur)

\* A goroutine works for a chat of its generation, which has been born.
TasksBelong ==
    \A t \in Tasks : task[t].pc # "free" =>
        task[t].gen <= cur /\ task[t].chat \in ChatsOf(task[t].gen)

\* A digest that runs holds its runner's lock.
RunningHoldLock ==
    \A t \in Tasks : task[t].pc = "running" => lock[task[t].gen][task[t].chat] = t

\* A startup digest of the current generation that has not begun.
AwaitsStartup(t) ==
    task[t].pc \in {"spawned", "admitted"} /\ task[t].kind = "startup" /\ task[t].gen = cur

\* A chat's startup digest is still to be launched, waits in one goroutine, or
\* was counted: one of these at most; and only configured chats are counted.
GreetingsExclude ==
    /\ \A c \in Chats : greeted[c] # 0 => c \in ChatsOf(cur) /\ c \notin startup[cur]
    /\ \A t \in Tasks : AwaitsStartup(t) =>
          /\ task[t].chat \notin startup[cur]
          /\ greeted[task[t].chat] = 0
          /\ \A u \in Tasks : AwaitsStartup(u) /\ task[u].chat = task[t].chat => u = t

\* The inductive invariant.
IInv ==
    /\ TypeOK
    /\ GenerationsInTurn
    /\ ReplacedRefuse
    /\ TasksBelong
    /\ OnlyCurrentSettingsRun
    /\ RunningHoldLock
    /\ GreetingsExclude
    /\ GreetedOnce

-----------------------------------------------------------------------------
(* What an action does to the goroutines                                   *)

\* Where a goroutine can be.
Pcs == {"free", "spawned", "admitted", "running", "unlocked"}

\* What a goroutine is.
TaskRecords ==
    [pc : Pcs, kind : {"startup", "scheduled", "refresh"}, gen : Generations, chat : Chats]

\* Every other goroutine goes on as before.
OthersStay(t) == \A u \in Tasks \ {t} : task'[u] = task[u]

\* A goroutine that moves on keeps its kind, its generation and its chat.
LEMMA BecomeTask ==
    ASSUME TypeOK, NEW t \in Tasks, NEW pc \in Pcs, Become(t, pc)
    PROVE  /\ task' \in [Tasks -> TaskRecords]
           /\ task'[t].pc = pc /\ task'[t].kind = task[t].kind
           /\ task'[t].gen = task[t].gen /\ task'[t].chat = task[t].chat
           /\ OthersStay(t)
<1>1. task \in [Tasks -> TaskRecords]
  BY DEF TypeOK, TaskRecords, Pcs
<1>2. task[t] \in TaskRecords /\ task' = [task EXCEPT ![t].pc = pc]
  BY <1>1 DEF Become
<1>3. [task[t] EXCEPT !.pc = pc] \in TaskRecords
  BY <1>2 DEF TaskRecords
<1>4. task' = [task EXCEPT ![t] = [task[t] EXCEPT !.pc = pc]]
  BY <1>2
<1> QED
  BY <1>1, <1>2, <1>3, <1>4 DEF TaskRecords, OthersStay

\* A goroutine that ends leaves its place free.
LEMMA LeaveTask ==
    ASSUME TypeOK, NEW t \in Tasks, Leave(t)
    PROVE  /\ task' \in [Tasks -> TaskRecords]
           /\ task'[t].pc = "free"
           /\ OthersStay(t)
<1>1. task \in [Tasks -> TaskRecords]
  BY DEF TypeOK, TaskRecords, Pcs
<1>2. Chats # {}
  BY ServiceAssumption
<1>3. NoTask \in TaskRecords
  BY <1>2, ServiceAssumption DEF NoTask, TaskRecords, Pcs, Generations
<1> QED
  BY <1>1, <1>3 DEF Leave, NoTask, TaskRecords, OthersStay

\* A goroutine is launched in a place that was free.
LEMMA LaunchTask ==
    ASSUME TypeOK, NEW t \in Tasks, NEW kind \in {"startup", "scheduled", "refresh"},
           NEW g \in Generations, NEW c \in Chats, NEW pc \in Pcs, Launch(t, kind, g, c, pc)
    PROVE  /\ task' \in [Tasks -> TaskRecords]
           /\ task[t].pc = "free"
           /\ task'[t].pc = pc /\ task'[t].kind = kind /\ task'[t].gen = g /\ task'[t].chat = c
           /\ OthersStay(t)
<1>1. task \in [Tasks -> TaskRecords]
  BY DEF TypeOK, TaskRecords, Pcs
<1> QED
  BY <1>1 DEF Launch, TaskRecords, OthersStay

\* One runner's lock changes hands, the lock of the task's generation and chat.
LEMMA SetLockType ==
    ASSUME TypeOK, NEW t \in Tasks, NEW holder \in Tasks \cup {Free}, SetLock(t, holder)
    PROVE  /\ lock' \in [Generations -> [Chats -> Tasks \cup {Free}]]
           /\ \A g \in Generations, c \in Chats :
                 lock'[g][c] = IF g = task[t].gen /\ c = task[t].chat THEN holder ELSE lock[g][c]
<1>1. task[t].gen \in Generations /\ task[t].chat \in Chats
  BY DEF TypeOK
<1> QED
  BY <1>1 DEF TypeOK, SetLock
-----------------------------------------------------------------------------
(* The invariant is inductive                                              *)

\* The process starts in a state the invariant allows.
LEMMA Initially == Init => IInv
<1> SUFFICES ASSUME Init PROVE IInv
  OBVIOUS
<1> USE DEF Init, ChatsOf
<1>1. 1 \in Generations
  BY ServiceAssumption DEF Generations
<1>2. NoTask \in TaskRecords /\ NoTask.pc = "free"
  <2>1. Chats # {}
    BY ServiceAssumption
  <2> QED
    BY <1>1, <2>1 DEF NoTask, TaskRecords, Pcs
<1>3. \A t \in Tasks : task[t] = NoTask
  OBVIOUS
<1>4. task \in [Tasks -> TaskRecords]
  BY <1>2
<1>5. TypeOK
  <2>1. file \in Snapshots \cup {Invalid} /\ edits \in 0..MaxEdits
    BY ServiceAssumption
  <2>5. shutdown \in BOOLEAN /\ main = "serving" /\ exiting \in BOOLEAN /\ cur \in Generations
    BY <1>1
  <2>2. snapshot \in [Generations -> Snapshots] /\ Recipients[Initial] \in SUBSET Chats
    BY ServiceAssumption
  <2>3. /\ startup \in [Generations -> SUBSET Chats] /\ phase \in [Generations -> Phases]
        /\ poller \in [Generations -> {"off", "listening", "answering"}]
    BY <2>2 DEF Phases
  <2>4. /\ cancelled \in [Generations -> BOOLEAN] /\ stopping \in [Generations -> SUBSET Chats]
        /\ lock \in [Generations -> [Chats -> Tasks \cup {Free}]] /\ greeted \in [Chats -> Nat]
    OBVIOUS
  <2> QED
    BY <1>4, <2>1, <2>2, <2>3, <2>4, <2>5 DEF TypeOK, TaskRecords, Pcs
<1>6. GenerationsInTurn
  BY <1>1, ServiceAssumption DEF GenerationsInTurn, Generations
<1>7. ReplacedRefuse
  BY <1>1 DEF ReplacedRefuse, Generations
<1>8. TasksBelong /\ OnlyCurrentSettingsRun /\ RunningHoldLock
  BY <1>2, <1>3 DEF TasksBelong, OnlyCurrentSettingsRun, Active, RunningHoldLock
<1>9. GreetingsExclude /\ GreetedOnce
  BY <1>2, <1>3 DEF GreetingsExclude, AwaitsStartup, GreetedOnce
<1> QED
  BY <1>5, <1>6, <1>7, <1>8, <1>9 DEF IInv

\* The steps of a goroutine that runs a digest.
LEMMA TaskSteps ==
    ASSUME IInv, NEW t \in Tasks, Task(t)
    PROVE  IInv'
<1> USE DEF ChatsOf, Active, TaskRecords, Pcs
<1>1. TypeOK /\ task[t].gen \in Generations /\ task[t].chat \in Chats
  BY DEF IInv, TypeOK
<1>2. UNCHANGED <<config, loop, service, stopping, poller>>
  BY DEF Task, BeginRun, Acquire, SkipBusy, Finish, Done, runners
<1>3. UNCHANGED <<file, edits, shutdown, main, exiting, cur, snapshot, startup, phase, cancelled, stopping, poller>>
  BY <1>2 DEF config, loop, service
<1>4. GenerationsInTurn' /\ ReplacedRefuse'
  BY <1>3 DEF IInv, GenerationsInTurn, ReplacedRefuse, Refusing
<1>5. CASE BeginRun(t) /\ task[t].chat \notin stopping[task[t].gen]
  <2>1. Become(t, "admitted") /\ task[t].pc = "spawned" /\ UNCHANGED <<lock, greeted>>
    BY <1>5 DEF BeginRun, runners
  <2>2. /\ task' \in [Tasks -> TaskRecords]
        /\ task'[t].pc = "admitted" /\ task'[t].kind = task[t].kind
        /\ task'[t].gen = task[t].gen /\ task'[t].chat = task[t].chat
        /\ OthersStay(t)
    BY <1>1, <2>1, BecomeTask
  <2>3. TypeOK'
    BY <1>1, <1>3, <2>1, <2>2 DEF TypeOK
  <2>4. TasksBelong'
    BY <1>3, <2>1, <2>2 DEF IInv, TasksBelong, OthersStay
  <2>5. OnlyCurrentSettingsRun'
    <3>1. task[t].gen = cur /\ main \in {"serving", "requesting"}
      BY <1>1, <1>5, <2>1, SMTT(30) DEF IInv, TasksBelong, ReplacedRefuse, Refusing, TypeOK, Generations
    <3> QED
      BY <1>3, <2>2, <3>1 DEF IInv, OnlyCurrentSettingsRun, OthersStay
  <2>6. RunningHoldLock'
    BY <2>1, <2>2 DEF IInv, RunningHoldLock, OthersStay
  <2>7. \A u \in Tasks : AwaitsStartup(u)' <=> AwaitsStartup(u)
    BY <1>3, <2>1, <2>2 DEF AwaitsStartup, OthersStay
  <2>8. GreetingsExclude' /\ GreetedOnce'
    BY <1>3, <2>1, <2>2, <2>7 DEF IInv, GreetingsExclude, GreetedOnce, OthersStay
  <2> QED
    BY <1>4, <2>3, <2>4, <2>5, <2>6, <2>8 DEF IInv
<1>6. CASE Acquire(t)
  <2>1. /\ Become(t, "running") /\ task[t].pc = "admitted"
        /\ lock[task[t].gen][task[t].chat] = Free /\ SetLock(t, t)
    BY <1>6 DEF Acquire
  <2>2. /\ task' \in [Tasks -> TaskRecords]
        /\ task'[t].pc = "running" /\ task'[t].kind = task[t].kind
        /\ task'[t].gen = task[t].gen /\ task'[t].chat = task[t].chat
        /\ OthersStay(t)
    BY <1>1, <2>1, BecomeTask
  <2>3. /\ lock' \in [Generations -> [Chats -> Tasks \cup {Free}]]
        /\ \A g \in Generations, c \in Chats :
              lock'[g][c] = IF g = task[t].gen /\ c = task[t].chat THEN t ELSE lock[g][c]
    BY <1>1, <2>1, SetLockType
  <2>4. task[t].gen = cur
    BY <2>1 DEF IInv, OnlyCurrentSettingsRun
  <2>5. greeted' \in [Chats -> Nat]
    BY <1>1, <1>6 DEF Acquire, TypeOK
  <2>6. TypeOK'
    BY <1>1, <1>3, <2>2, <2>3, <2>5 DEF TypeOK
  <2>7. TasksBelong'
    BY <1>3, <2>1, <2>2 DEF IInv, TasksBelong, OthersStay
  <2>8. OnlyCurrentSettingsRun'
    BY <1>3, <2>1, <2>2 DEF IInv, OnlyCurrentSettingsRun, OthersStay
  <2>9. RunningHoldLock'
    <3>1. ASSUME NEW u \in Tasks \ {t}, task[u].pc = "running"
          PROVE  lock[task[u].gen][task[u].chat] = u /\ u # Free
      BY <3>1, ServiceAssumption DEF IInv, RunningHoldLock
    <3>2. \A u \in Tasks : task[u].gen \in Generations /\ task[u].chat \in Chats
      BY <1>1 DEF TypeOK
    <3> QED
      BY <2>1, <2>2, <2>3, <3>1, <3>2 DEF RunningHoldLock, OthersStay
  <2>10. \A u \in Tasks : AwaitsStartup(u)' <=> AwaitsStartup(u) /\ u # t
    BY <1>3, <2>1, <2>2 DEF AwaitsStartup, OthersStay
  <2>11. CASE task[t].kind = "startup"
    <3>1. AwaitsStartup(t)
      BY <2>1, <2>4, <2>11 DEF AwaitsStartup
    <3>2. /\ task[t].chat \notin startup[cur] /\ greeted[task[t].chat] = 0
          /\ \A u \in Tasks : AwaitsStartup(u) /\ task[u].chat = task[t].chat => u = t
      BY <3>1 DEF IInv, GreetingsExclude
    <3>3. \A c \in Chats : greeted'[c] = IF c = task[t].chat THEN 1 ELSE greeted[c]
      BY <1>1, <1>6, <2>11, <3>2 DEF Acquire, TypeOK
    <3>4. task[t].chat \in ChatsOf(cur)
      BY <2>1, <2>4 DEF IInv, TasksBelong
    <3>5. GreetingsExclude'
      BY <1>1, <1>3, <2>2, <2>10, <3>2, <3>3, <3>4 DEF IInv, GreetingsExclude, OthersStay, TypeOK
    <3>6. GreetedOnce'
      BY <3>3 DEF IInv, GreetedOnce
    <3> QED
      BY <1>4, <2>6, <2>7, <2>8, <2>9, <3>5, <3>6 DEF IInv
  <2>12. CASE task[t].kind # "startup"
    <3>1. greeted' = greeted
      BY <1>6, <2>12 DEF Acquire
    <3>2. GreetingsExclude' /\ GreetedOnce'
      BY <1>3, <2>2, <2>10, <3>1 DEF IInv, GreetingsExclude, GreetedOnce, OthersStay
    <3> QED
      BY <1>4, <2>6, <2>7, <2>8, <2>9, <3>2 DEF IInv
  <2> QED
    BY <2>11, <2>12
<1>7. CASE Finish(t)
  <2>1. Become(t, "unlocked") /\ task[t].pc = "running" /\ SetLock(t, Free) /\ UNCHANGED greeted
    BY <1>7 DEF Finish
  <2>2. /\ task' \in [Tasks -> TaskRecords]
        /\ task'[t].pc = "unlocked" /\ task'[t].kind = task[t].kind
        /\ task'[t].gen = task[t].gen /\ task'[t].chat = task[t].chat
        /\ OthersStay(t)
    BY <1>1, <2>1, BecomeTask
  <2>3. /\ lock' \in [Generations -> [Chats -> Tasks \cup {Free}]]
        /\ \A g \in Generations, c \in Chats :
              lock'[g][c] = IF g = task[t].gen /\ c = task[t].chat THEN Free ELSE lock[g][c]
    BY <1>1, <2>1, SetLockType
  <2>4. TypeOK'
    BY <1>1, <1>3, <2>1, <2>2, <2>3 DEF TypeOK
  <2>5. TasksBelong'
    BY <1>3, <2>1, <2>2 DEF IInv, TasksBelong, OthersStay
  <2>6. OnlyCurrentSettingsRun'
    BY <1>3, <2>1, <2>2 DEF IInv, OnlyCurrentSettingsRun, OthersStay
  <2>7. RunningHoldLock'
    <3>1. lock[task[t].gen][task[t].chat] = t
      BY <2>1 DEF IInv, RunningHoldLock
    <3>2. \A u \in Tasks : task[u].gen \in Generations /\ task[u].chat \in Chats
      BY <1>1 DEF TypeOK
    <3> QED
      BY <2>2, <2>3, <3>1, <3>2 DEF IInv, RunningHoldLock, OthersStay
  <2>8. \A u \in Tasks : AwaitsStartup(u)' <=> AwaitsStartup(u)
    BY <1>3, <2>1, <2>2 DEF AwaitsStartup, OthersStay
  <2>9. GreetingsExclude' /\ GreetedOnce'
    BY <1>3, <2>1, <2>2, <2>8 DEF IInv, GreetingsExclude, GreetedOnce, OthersStay
  <2> QED
    BY <1>4, <2>4, <2>5, <2>6, <2>7, <2>9 DEF IInv
<1>8. CASE Leave(t) /\ UNCHANGED <<lock, greeted>>
  <2>1. task' \in [Tasks -> TaskRecords] /\ task'[t].pc = "free" /\ OthersStay(t)
    BY <1>1, <1>8, LeaveTask
  <2>2. TypeOK'
    BY <1>1, <1>3, <1>8, <2>1 DEF TypeOK
  <2>3. TasksBelong'
    BY <1>3, <2>1 DEF IInv, TasksBelong, OthersStay
  <2>4. OnlyCurrentSettingsRun'
    BY <1>3, <2>1 DEF IInv, OnlyCurrentSettingsRun, OthersStay
  <2>5. RunningHoldLock'
    BY <1>8, <2>1 DEF IInv, RunningHoldLock, OthersStay
  <2>6. \A u \in Tasks : AwaitsStartup(u)' => AwaitsStartup(u) /\ u # t
    BY <1>3, <2>1 DEF AwaitsStartup, OthersStay
  <2>7. GreetingsExclude' /\ GreetedOnce'
    BY <1>3, <1>8, <2>1, <2>6 DEF IInv, GreetingsExclude, GreetedOnce, OthersStay
  <2> QED
    BY <1>4, <2>2, <2>3, <2>4, <2>5, <2>7 DEF IInv
<1> QED
  BY <1>5, <1>6, <1>7, <1>8 DEF Task, BeginRun, SkipBusy, Done, runners

\* A goroutine that is launched for a chat of a generation that was born.
LEMMA SpawnSteps ==
    ASSUME IInv, NEW g \in Generations, NEW c \in Chats, LaunchStartup(g, c) \/ Fire(g, c)
    PROVE  IInv'
<1> USE DEF ChatsOf, Active, TaskRecords, Pcs
<1> DEFINE kind == IF LaunchStartup(g, c) THEN "startup" ELSE "scheduled"
<1>1. TypeOK
  BY DEF IInv
<1>2. PICK t \in Tasks : Launch(t, kind, g, c, "spawned")
  BY DEF LaunchStartup, Fire
<1>3. /\ task' \in [Tasks -> TaskRecords]
      /\ task[t].pc = "free"
      /\ task'[t].pc = "spawned" /\ task'[t].kind = kind /\ task'[t].gen = g /\ task'[t].chat = c
      /\ OthersStay(t)
  BY <1>1, <1>2, LaunchTask
<1>4. /\ UNCHANGED <<file, edits, shutdown, main, exiting, cur, snapshot, phase, cancelled>>
      /\ UNCHANGED <<stopping, lock, poller, greeted>>
  BY DEF LaunchStartup, Fire, config, loop, service, runners
<1>5. /\ startup' \in [Generations -> SUBSET Chats]
      /\ \A h \in Generations : startup'[h] \subseteq startup[h]
  <2>1. CASE LaunchStartup(g, c)
    BY <1>1, <2>1 DEF LaunchStartup, TypeOK
  <2>2. CASE Fire(g, c)
    BY <1>1, <2>2 DEF Fire, service, TypeOK
  <2> QED
    BY <2>1, <2>2
<1>6. phase[g] # "unborn" /\ g <= cur /\ c \in ChatsOf(g)
  BY <1>1 DEF IInv, GenerationsInTurn, LaunchStartup, Fire, TypeOK, Generations
<1>7. TypeOK'
  BY <1>1, <1>3, <1>4, <1>5 DEF TypeOK
<1>8. GenerationsInTurn' /\ ReplacedRefuse'
  BY <1>4, <1>5 DEF IInv, GenerationsInTurn, ReplacedRefuse, Refusing
<1>9. TasksBelong'
  BY <1>3, <1>4, <1>6 DEF IInv, TasksBelong, OthersStay
<1>10. OnlyCurrentSettingsRun' /\ RunningHoldLock'
  BY <1>3, <1>4 DEF IInv, OnlyCurrentSettingsRun, RunningHoldLock, OthersStay
<1>11. \A u \in Tasks : AwaitsStartup(u)' /\ u # t => AwaitsStartup(u)
  BY <1>3, <1>4 DEF AwaitsStartup, OthersStay
<1>12. CASE kind = "startup"
  <2>1. /\ LaunchStartup(g, c) /\ c \in startup[g] /\ g = cur
        /\ startup' = [startup EXCEPT ![g] = @ \ {c}]
    BY <1>12 DEF LaunchStartup, IInv, GenerationsInTurn
  <2>2. greeted[c] = 0 /\ \A u \in Tasks : AwaitsStartup(u) => task[u].chat # c
    BY <2>1 DEF IInv, GreetingsExclude
  <2>3. c \notin startup'[cur]
    BY <1>1, <2>1 DEF TypeOK
  <2>4. \A d \in Chats : greeted[d] # 0 => d \in ChatsOf(cur) /\ d \notin startup'[cur]
    BY <1>1, <1>5 DEF IInv, GreetingsExclude, TypeOK
  <2>5. ASSUME NEW u \in Tasks, AwaitsStartup(u)'
        PROVE  /\ task'[u].chat \notin startup'[cur] /\ greeted[task'[u].chat] = 0
               /\ \A w \in Tasks : AwaitsStartup(w)' /\ task'[w].chat = task'[u].chat => w = u
    <3>1. CASE u = t
      BY <1>3, <1>11, <2>2, <2>3, <3>1 DEF OthersStay
    <3>2. CASE u # t
      <4>1. AwaitsStartup(u) /\ task'[u] = task[u]
        BY <1>3, <1>11, <2>5, <3>2 DEF OthersStay
      <4>2. /\ task[u].chat \notin startup[cur] /\ greeted[task[u].chat] = 0 /\ task[u].chat # c
            /\ \A w \in Tasks : AwaitsStartup(w) /\ task[w].chat = task[u].chat => w = u
        BY <2>2, <4>1 DEF IInv, GreetingsExclude
      <4> QED
        BY <1>1, <1>3, <1>5, <1>11, <4>1, <4>2 DEF OthersStay, TypeOK
    <3> QED
      BY <3>1, <3>2
  <2>6. GreetingsExclude'
    BY <1>4, <2>4, <2>5 DEF GreetingsExclude
  <2> QED
    BY <1>4, <1>7, <1>8, <1>9, <1>10, <2>6 DEF IInv, GreetedOnce
<1>13. CASE kind = "scheduled"
  <2>1. startup' = startup
    BY <1>13 DEF Fire, service
  <2>2. \A u \in Tasks : AwaitsStartup(u)' => AwaitsStartup(u) /\ u # t
    BY <1>3, <1>11, <1>13 DEF AwaitsStartup
  <2>3. GreetingsExclude' /\ GreetedOnce'
    BY <1>3, <1>4, <2>1, <2>2 DEF IInv, GreetingsExclude, GreetedOnce, OthersStay
  <2> QED
    BY <1>7, <1>8, <1>9, <1>10, <2>3 DEF IInv
<1> QED
  BY <1>12, <1>13

\* The press of a button: the runner of an older generation refuses it.
LEMMA PressStep ==
    ASSUME IInv, NEW g \in Generations, NEW c \in Chats, Press(g, c)
    PROVE  IInv'
<1> USE DEF ChatsOf, Active, TaskRecords, Pcs
<1>1. TypeOK
  BY DEF IInv
<1>2. /\ UNCHANGED <<file, edits, shutdown, main, exiting, cur, snapshot, startup, phase, cancelled>>
      /\ UNCHANGED <<stopping, greeted>>
      /\ poller[g] = "listening" /\ poller' = [poller EXCEPT ![g] = "answering"]
      /\ c \in ChatsOf(g)
  BY DEF Press, config, loop, service
<1>3. g <= cur
  BY <1>1, <1>2 DEF IInv, GenerationsInTurn, TypeOK, Generations
<1>4. GenerationsInTurn' /\ ReplacedRefuse'
  BY <1>1, <1>2, <1>3 DEF IInv, GenerationsInTurn, ReplacedRefuse, Refusing, TypeOK, Generations
<1>5. CASE UNCHANGED <<task, lock>>
  <2>1. TypeOK'
    BY <1>1, <1>2, <1>5 DEF TypeOK
  <2>2. TasksBelong' /\ OnlyCurrentSettingsRun' /\ RunningHoldLock'
    BY <1>2, <1>5 DEF IInv, TasksBelong, OnlyCurrentSettingsRun, RunningHoldLock
  <2>3. GreetingsExclude' /\ GreetedOnce'
    BY <1>2, <1>5 DEF IInv, GreetingsExclude, AwaitsStartup, GreetedOnce
  <2> QED
    BY <1>4, <2>1, <2>2, <2>3 DEF IInv
<1>6. ASSUME NEW t \in Tasks, Launch(t, "refresh", g, c, "running"),
             lock' = [lock EXCEPT ![g][c] = t], c \notin stopping[g], lock[g][c] = Free
      PROVE  IInv'
  <2>1. /\ task' \in [Tasks -> TaskRecords]
        /\ task[t].pc = "free"
        /\ task'[t].pc = "running" /\ task'[t].kind = "refresh" /\ task'[t].gen = g /\ task'[t].chat = c
        /\ OthersStay(t)
    BY <1>1, <1>6, LaunchTask
  <2>2. /\ lock' \in [Generations -> [Chats -> Tasks \cup {Free}]]
        /\ \A h \in Generations, d \in Chats :
              lock'[h][d] = IF h = g /\ d = c THEN t ELSE lock[h][d]
    BY <1>1, <1>6 DEF TypeOK
  <2>3. TypeOK'
    BY <1>1, <1>2, <2>1, <2>2 DEF TypeOK
  <2>4. TasksBelong'
    BY <1>2, <1>3, <2>1 DEF IInv, TasksBelong, OthersStay
  <2>5. g = cur /\ main \in {"serving", "requesting"}
    BY <1>1, <1>2, <1>3, <1>6 DEF IInv, ReplacedRefuse, Refusing, TypeOK, Generations
  <2>6. OnlyCurrentSettingsRun'
    BY <1>2, <2>1, <2>5 DEF IInv, OnlyCurrentSettingsRun, OthersStay
  <2>7. RunningHoldLock'
    <3>1. ASSUME NEW u \in Tasks \ {t}, task[u].pc = "running"
          PROVE  lock[task[u].gen][task[u].chat] = u /\ u # Free
      BY <3>1, ServiceAssumption DEF IInv, RunningHoldLock
    <3>2. \A u \in Tasks : task[u].gen \in Generations /\ task[u].chat \in Chats
      BY <1>1 DEF TypeOK
    <3> QED
      BY <1>6, <2>1, <2>2, <3>1, <3>2 DEF RunningHoldLock, OthersStay
  <2>8. \A u \in Tasks : AwaitsStartup(u)' => AwaitsStartup(u) /\ u # t
    BY <1>2, <2>1 DEF AwaitsStartup, OthersStay
  <2>9. GreetingsExclude' /\ GreetedOnce'
    BY <1>2, <2>1, <2>8 DEF IInv, GreetingsExclude, GreetedOnce, OthersStay
  <2> QED
    BY <1>4, <2>3, <2>4, <2>6, <2>7, <2>9 DEF IInv
<1> QED
  BY <1>5, <1>6 DEF Press

\* The steps of a generation's own goroutines that launch nothing.
LEMMA GenerationSteps ==
    ASSUME IInv, NEW g \in Generations,
           \/ StartScheduler(g) \/ StopScheduler(g) \/ SchedulerStopped(g)
           \/ RunnersHalted(g) \/ CloseDone(g) \/ Answered(g) \/ StopPolling(g)
           \/ \E c \in Chats : HaltRunner(g, c)
    PROVE  IInv'
<1> USE DEF ChatsOf, Active
<1>1. TypeOK
  BY DEF IInv
<1>2. UNCHANGED <<file, edits, shutdown, main, exiting, cur, snapshot, startup, cancelled, lock, task, greeted>>
  BY DEF StartScheduler, StopScheduler, SchedulerStopped, RunnersHalted, CloseDone, Answered,
         StopPolling, HaltRunner, config, loop, service, runners
<1>3. /\ phase[g] # "unborn" \/ poller[g] # "off"
      /\ phase' \in [Generations -> Phases] /\ poller' \in [Generations -> {"off", "listening", "answering"}]
      /\ \A h \in Generations \ {g} : phase'[h] = phase[h] /\ poller'[h] = poller[h]
      /\ phase'[g] # phase[g] => phase[g] # "done" /\ startup[g] = {}
  <2>1. CASE UNCHANGED phase
    <3>1. phase[g] # "unborn" \/ poller[g] # "off"
      BY <2>1 DEF StartScheduler, StopScheduler, SchedulerStopped, RunnersHalted, CloseDone,
                  Answered, StopPolling, HaltRunner
    <3>2. poller' = poller \/ \E p \in {"off", "listening"} : poller' = [poller EXCEPT ![g] = p]
      BY DEF StartScheduler, StopScheduler, SchedulerStopped, RunnersHalted, CloseDone,
             Answered, StopPolling, HaltRunner, runners
    <3> QED
      BY <1>1, <2>1, <3>1, <3>2 DEF TypeOK
  <2>2. CASE \/ StartScheduler(g) \/ StopScheduler(g) \/ SchedulerStopped(g)
             \/ RunnersHalted(g) \/ CloseDone(g)
    <3>1. /\ \E p \in Phases : Enter(g, p)
          /\ phase[g] \in {"starting", "serving", "draining", "stopping", "joining"}
          /\ phase[g] = "starting" => startup[g] = {}
          /\ poller' = poller
      BY <2>2 DEF StartScheduler, StopScheduler, SchedulerStopped, RunnersHalted, CloseDone,
                  runners, Phases
    <3>2. startup[g] = {}
      BY <3>1 DEF IInv, GenerationsInTurn
    <3> QED
      BY <1>1, <3>1, <3>2 DEF TypeOK, Enter
  <2> QED
    BY <2>1, <2>2 DEF Answered, StopPolling, HaltRunner, service
<1>4. /\ stopping' \in [Generations -> SUBSET Chats]
      /\ \A h \in Generations : stopping[h] \subseteq stopping'[h]
  <2>1. CASE stopping' = stopping
    BY <1>1, <2>1 DEF TypeOK
  <2>2. CASE \E c \in Chats : HaltRunner(g, c)
    BY <1>1, <2>2 DEF HaltRunner, TypeOK
  <2> QED
    BY <2>1, <2>2 DEF StartScheduler, StopScheduler, SchedulerStopped, RunnersHalted, CloseDone,
                      Answered, StopPolling, runners
<1>5. TypeOK'
  BY <1>1, <1>2, <1>3, <1>4 DEF TypeOK
<1>6. GenerationsInTurn'
  BY <1>1, <1>2, <1>3 DEF IInv, GenerationsInTurn, TypeOK, Generations
<1>7. ReplacedRefuse'
  BY <1>1, <1>2, <1>4 DEF IInv, ReplacedRefuse, Refusing, TypeOK
<1>8. TasksBelong' /\ OnlyCurrentSettingsRun' /\ RunningHoldLock'
  BY <1>2 DEF IInv, TasksBelong, OnlyCurrentSettingsRun, RunningHoldLock
<1>9. GreetingsExclude' /\ GreetedOnce'
  BY <1>2 DEF IInv, GreetingsExclude, AwaitsStartup, GreetedOnce
<1> QED
  BY <1>5, <1>6, <1>7, <1>8, <1>9 DEF IInv

\* The environment's steps, and the main loop's, up to the end of the stop.
LEMMA LoopSteps ==
    ASSUME IInv,
           \/ Edit \/ Shutdown \/ ReloadPending \/ ShutdownSeen \/ StopRequested
           \/ RunnersWaited \/ Joined \/ RecheckInterrupted \/ UNCHANGED vars
           \/ \E c \in Chats : RequestStop(c)
    PROVE  IInv'
<1> USE DEF ChatsOf, Active
<1>1. TypeOK
  BY DEF IInv
<1>2. UNCHANGED <<cur, snapshot, startup, phase, lock, poller, task, greeted>>
  BY DEF Edit, Shutdown, ReloadPending, ShutdownSeen, StopRequested, RunnersWaited, Joined,
         RecheckInterrupted, RequestStop, vars, config, loop, service, runners
<1>3. TypeOK'
  <2>1. CASE UNCHANGED <<cancelled, stopping>>
    <3>1. file' \in Snapshots \cup {Invalid} /\ edits' \in 0..MaxEdits /\ shutdown' \in BOOLEAN
      <4>1. CASE Edit
        BY <1>1, <4>1, ServiceAssumption DEF TypeOK, Edit
      <4>2. CASE Shutdown \/ UNCHANGED config
        BY <1>1, <4>2 DEF TypeOK, Shutdown, config
      <4> QED
        BY <4>1, <4>2 DEF ReloadPending, ShutdownSeen, StopRequested, RunnersWaited, Joined,
           RecheckInterrupted, RequestStop, vars
    <3>2. /\ main' \in {"serving", "requesting", "waiting", "joining", "rechecking", "exited"}
          /\ exiting' \in BOOLEAN
      BY <1>1 DEF TypeOK, Edit, Shutdown, ReloadPending, ShutdownSeen, StopRequested,
         RunnersWaited, Joined, RecheckInterrupted, RequestStop, vars, loop
    <3> QED
      BY <1>1, <1>2, <2>1, <3>1, <3>2 DEF TypeOK
  <2>2. CASE RunnersWaited
    BY <1>1, <1>2, <2>2 DEF TypeOK, RunnersWaited, config, runners
  <2>3. CASE \E c \in Chats : RequestStop(c)
    BY <1>1, <1>2, <2>3 DEF TypeOK, RequestStop, config, loop, service
  <2> QED
    BY <2>1, <2>2, <2>3 DEF Edit, Shutdown, ReloadPending, ShutdownSeen, StopRequested, Joined,
         RecheckInterrupted, vars, service, runners
<1>4. GenerationsInTurn'
  <2>1. /\ main' = "rechecking" => phase[cur] = "done" /\ ~exiting'
        /\ main' = "serving" => ~exiting'
        /\ main' # "serving" /\ main' # "exited" /\ ~exiting' => cur < MaxGenerations
    BY DEF IInv, GenerationsInTurn, Edit, Shutdown, ReloadPending, ShutdownSeen, StopRequested,
           RunnersWaited, Joined, RecheckInterrupted, RequestStop, vars, loop
  <2> QED
    BY <1>2, <2>1 DEF IInv, GenerationsInTurn
<1>5. ReplacedRefuse'
  <2>1. \A g \in Generations : Refusing(g) => Refusing(g)'
    BY <1>1, <1>2 DEF Refusing, TypeOK, Edit, Shutdown, ReloadPending, ShutdownSeen, StopRequested,
       RunnersWaited, Joined, RecheckInterrupted, RequestStop, vars, runners
  <2>2. main' \notin {"serving", "requesting"} => Refusing(cur)
    BY DEF IInv, ReplacedRefuse, Refusing, Edit, Shutdown, ReloadPending, ShutdownSeen,
       StopRequested, RunnersWaited, Joined, RecheckInterrupted, RequestStop, vars, loop
  <2> QED
    BY <1>1, <1>2, <2>1, <2>2 DEF IInv, ReplacedRefuse, TypeOK
<1>6. TasksBelong' /\ RunningHoldLock'
  BY <1>2 DEF IInv, TasksBelong, RunningHoldLock
<1>7. OnlyCurrentSettingsRun'
  <2>1. CASE main' \in {"serving", "requesting", "waiting"}
    BY <1>2, <2>1 DEF IInv, OnlyCurrentSettingsRun
  <2>2. CASE main' \notin {"serving", "requesting", "waiting"}
    <3>1. \A t \in Tasks : ~Active(t)
      BY <2>2 DEF IInv, OnlyCurrentSettingsRun, ActiveIn, Edit, Shutdown, ReloadPending,
         ShutdownSeen, StopRequested, RunnersWaited, Joined, RecheckInterrupted, RequestStop,
         vars, loop
    <3> QED
      BY <1>2, <3>1 DEF OnlyCurrentSettingsRun
  <2> QED
    BY <2>1, <2>2
<1>8. GreetingsExclude' /\ GreetedOnce'
  BY <1>2 DEF IInv, GreetingsExclude, AwaitsStartup, GreetedOnce
<1> QED
  BY <1>3, <1>4, <1>5, <1>6, <1>7, <1>8 DEF IInv

\* The replacement of the generation.  The old one is done and every digest it
\* admitted has ended, so that what is counted and what waits starts afresh.
LEMMA RestartStep ==
    ASSUME IInv, Restart
    PROVE  IInv'
<1> USE DEF ChatsOf, Active
<1> DEFINE new == cur + 1
<1>1. TypeOK /\ cur \in Generations
  BY DEF IInv, TypeOK
<1>2. phase[cur] = "done" /\ ~exiting /\ cur < MaxGenerations /\ startup[cur] = {}
  BY <1>1 DEF Restart, IInv, GenerationsInTurn
<1>3. new \in Generations /\ MaxGenerations \in Nat /\ cur \in Nat
  BY <1>1, <1>2, ServiceAssumption DEF Generations
<1>4. PICK s \in Snapshots, chats \in SUBSET Chats :
         /\ StartGeneration(s, chats)
         /\ chats \subseteq Recipients[s] \ Recipients[snapshot[cur]]
  <2>1. CASE file \in Snapshots \ ({snapshot[cur]} \cup Unpreparable)
    <3>1. /\ StartGeneration(file, NewChats(snapshot[cur], file))
          /\ NewChats(snapshot[cur], file) \subseteq Recipients[file] \ Recipients[snapshot[cur]]
      BY <2>1 DEF Restart, NewChats
    <3>2. Recipients[file] \subseteq Chats
      BY <2>1, ServiceAssumption
    <3> QED
      BY <2>1, <3>1, <3>2
  <2>2. CASE file \notin Snapshots \ ({snapshot[cur]} \cup Unpreparable)
    BY <1>1, <2>2 DEF Restart, TypeOK
  <2> QED
    BY <2>1, <2>2
<1>5. /\ main' = "serving" /\ cur' = new
      /\ snapshot' = [snapshot EXCEPT ![new] = s]
      /\ startup' = [startup EXCEPT ![new] = chats]
      /\ phase' = [phase EXCEPT ![new] = "starting"]
      /\ poller' = [poller EXCEPT ![new] = "listening"]
      /\ greeted' = [c \in Chats |-> IF c \in Recipients[s] THEN greeted[c] ELSE 0]
      /\ UNCHANGED <<file, edits, shutdown, exiting, cancelled, stopping, lock, task>>
  BY <1>4 DEF StartGeneration, config
<1>6. TypeOK'
  <2>1. /\ snapshot' \in [Generations -> Snapshots] /\ startup' \in [Generations -> SUBSET Chats]
        /\ phase' \in [Generations -> Phases] /\ greeted' \in [Chats -> Nat]
        /\ poller' \in [Generations -> {"off", "listening", "answering"}]
    BY <1>1, <1>5 DEF TypeOK, Phases
  <2> QED
    BY <1>1, <1>3, <1>5, <2>1 DEF TypeOK
<1>7. /\ \A g \in Generations \ {new} :
            snapshot'[g] = snapshot[g] /\ startup'[g] = startup[g] /\ phase'[g] = phase[g]
            /\ poller'[g] = poller[g]
      /\ snapshot'[new] = s /\ startup'[new] = chats /\ phase'[new] = "starting"
  BY <1>1, <1>3, <1>5 DEF TypeOK
<1>8. \A g \in Generations : (g < new <=> g <= cur) /\ (g > new => g > cur)
  BY <1>3 DEF Generations
<1>9. GenerationsInTurn'
  BY <1>1, <1>2, <1>3, <1>4, <1>5, <1>7, <1>8 DEF IInv, GenerationsInTurn
<1>10. Refusing(cur) /\ \A t \in Tasks : ~Active(t)
  BY DEF IInv, ReplacedRefuse, Restart, OnlyCurrentSettingsRun
<1>11. ReplacedRefuse'
  <2>1. \A g \in Generations : g < new => Refusing(g)
    BY <1>1, <1>3, <1>10 DEF IInv, ReplacedRefuse, Generations
  <2> QED
    BY <1>3, <1>5, <1>7, <2>1 DEF ReplacedRefuse, Refusing, Generations
<1>12. \A t \in Tasks : task[t].pc # "free" => task[t].gen < new /\ task[t].gen # new
  BY <1>1, <1>3 DEF IInv, TasksBelong, TypeOK, Generations
<1>13. TasksBelong'
  <2>1. \A t \in Tasks : task[t].gen \in Generations
    BY <1>1 DEF TypeOK
  <2> QED
    BY <1>3, <1>5, <1>7, <1>8, <1>12, <2>1 DEF IInv, TasksBelong, Generations
<1>14. OnlyCurrentSettingsRun' /\ RunningHoldLock'
  BY <1>5, <1>10 DEF OnlyCurrentSettingsRun, RunningHoldLock
<1>15. GreetingsExclude'
  <2>1. \A t \in Tasks : ~AwaitsStartup(t)'
    BY <1>5, <1>12 DEF AwaitsStartup
  <2>2. \A c \in Chats : greeted'[c] # 0 => c \in Recipients[s] /\ c \in Recipients[snapshot[cur]]
    BY <1>5 DEF IInv, GreetingsExclude
  <2> QED
    BY <1>3, <1>4, <1>5, <1>7, <2>1, <2>2 DEF GreetingsExclude
<1>16. GreetedOnce'
  BY <1>1, <1>5 DEF IInv, GreetedOnce, TypeOK
<1> QED
  BY <1>6, <1>9, <1>11, <1>13, <1>14, <1>15, <1>16 DEF IInv

-----------------------------------------------------------------------------
(* The theorems                                                            *)

\* Every step of the process preserves the invariant, whichever goroutine it is
\* of (internal/process/runner.go, reload.go).
THEOREM Invariant == Spec => []IInv
<1>1. ASSUME IInv, [Next]_vars PROVE IInv'
  <2>1. CASE Edit \/ Shutdown \/ UNCHANGED vars
    BY <1>1, <2>1, LoopSteps
  <2>2. CASE Main \/ Exited
    BY <1>1, <2>2, LoopSteps, RestartStep DEF Main, Exited
  <2>3. CASE \E t \in Tasks : Task(t)
    BY <1>1, <2>3, TaskSteps
  <2>4. ASSUME NEW g \in Generations,
               \/ Generation(g) \/ Answered(g) \/ StopPolling(g)
               \/ \E c \in Chats : Press(g, c) \/ Fire(g, c)
        PROVE  IInv'
    BY <1>1, <2>4, SpawnSteps, PressStep, GenerationSteps DEF Generation
  <2> QED
    BY <1>1, <2>1, <2>2, <2>3, <2>4 DEF Next
<1> QED
  BY <1>1, Initially, PTL DEF Spec

\* The variables of the service process keep their types.
THEOREM TypeCorrect == Spec => []TypeOK
<1>1. IInv => TypeOK
  BY DEF IInv
<1> QED
  BY <1>1, Invariant, PTL

\* No digest runs with settings that were replaced, and none after the main
\* loop has waited for the digests of the process (generation.stop).
THEOREM CurrentSettingsRun == Spec => []OnlyCurrentSettingsRun
<1>1. IInv => OnlyCurrentSettingsRun
  BY DEF IInv
<1> QED
  BY <1>1, Invariant, PTL

\* Two digests of one chat never run at once, whichever generations, triggers
\* and goroutines start them: both would belong to the current generation and
\* hold the lock of the same runner (runLocked, tryStartRefresh).
THEOREM OneDigestAtATime == Spec => []OneDigestPerChat
<1>1. IInv => OneDigestPerChat
  BY DEF IInv, OneDigestPerChat, OnlyCurrentSettingsRun, RunningHoldLock, Active
<1> QED
  BY <1>1, Invariant, PTL

\* A chat is greeted once at most while it stays configured, over any number of
\* reloads (newRecipientStartupChats).
THEOREM GreetedAtMostOnce == Spec => []GreetedOnce
<1>1. IInv => GreetedOnce
  BY DEF IInv
<1> QED
  BY <1>1, Invariant, PTL

\* While the main loop waits for the digests of a generation, none is admitted
\* to it: every runner of it refuses (beginRun, tryStartRefresh).
THEOREM NoneAdmitted == Spec => NoAdmissionWhileWaiting
<1> DEFINE Admits(t) == Active(t)' /\ task'[t].gen = cur /\ ~Active(t)
<1>1. ASSUME IInv, [Next]_vars, main = "waiting", NEW t \in Tasks
      PROVE  ~Admits(t)
  <2>1. Refusing(cur) /\ TypeOK /\ TasksBelong
    BY <1>1 DEF IInv, ReplacedRefuse
  <2>2. ASSUME NEW u \in Tasks, Task(u) PROVE ~Admits(t)
    <3>1. CASE BeginRun(u) /\ task[u].chat \notin stopping[task[u].gen]
      <4>1. task[u].gen # cur /\ task'[u].gen = task[u].gen /\ OthersStay(u)
        BY <2>1, <3>1, BecomeTask DEF BeginRun, TasksBelong, Refusing, Pcs
      <4> QED
        BY <4>1 DEF OthersStay, Active
    <3>2. CASE Acquire(u) \/ Finish(u)
      <4>1. Active(u) /\ OthersStay(u)
        BY <2>1, <3>2, BecomeTask DEF Acquire, Finish, Active, Pcs
      <4> QED
        BY <4>1 DEF OthersStay, Active
    <3>3. CASE Leave(u)
      BY <2>1, <3>3, LeaveTask DEF OthersStay, Active
    <3> QED
      BY <2>2, <3>1, <3>2, <3>3 DEF Task, BeginRun, SkipBusy, Done
  <2>3. ASSUME NEW g \in Generations, NEW c \in Chats, LaunchStartup(g, c) \/ Fire(g, c)
        PROVE  ~Admits(t)
    <3>1. PICK u \in Tasks, kind \in {"startup", "scheduled"} : Launch(u, kind, g, c, "spawned")
      BY <2>3 DEF LaunchStartup, Fire
    <3>2. task'[u].pc = "spawned" /\ OthersStay(u)
      BY <2>1, <3>1, LaunchTask DEF Pcs
    <3> QED
      BY <3>2 DEF OthersStay, Active
  <2>4. ASSUME NEW g \in Generations, NEW c \in Chats, Press(g, c)
        PROVE  ~Admits(t)
    <3>1. CASE UNCHANGED task
      BY <3>1 DEF Active
    <3>2. ASSUME NEW u \in Tasks, Launch(u, "refresh", g, c, "running"), c \notin stopping[g]
          PROVE  ~Admits(t)
      <4>1. g # cur
        BY <2>1, <2>4, <3>2 DEF Press, Refusing
      <4>2. task'[u].gen = g /\ OthersStay(u)
        BY <2>1, <3>2, LaunchTask DEF Pcs
      <4> QED
        BY <4>1, <4>2 DEF OthersStay, Active
    <3> QED
      BY <2>4, <3>1, <3>2 DEF Press
  <2>5. CASE UNCHANGED task
    BY <2>5 DEF Active
  <2> QED
    BY <1>1, <2>2, <2>3, <2>4, <2>5 DEF Next, Edit, Shutdown, Main, Exited, Generation, Answered,
       StopPolling, StartScheduler, StopScheduler, SchedulerStopped, RunnersHalted, CloseDone,
       HaltRunner, ReloadPending, ShutdownSeen, RequestStop, StopRequested, RunnersWaited, Joined,
       Restart, StartGeneration, RecheckInterrupted, vars
<1>2. IInv /\ [Next]_vars
      => [main = "waiting" =>
             \A t \in Tasks : Active(t)' /\ task'[t].gen = cur => Active(t)]_vars
  BY <1>1
<1> QED
  BY <1>2, Invariant, PTL DEF Spec, NoAdmissionWhileWaiting
=============================================================================
