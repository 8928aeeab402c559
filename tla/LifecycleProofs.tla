-------------------------- MODULE LifecycleProofs --------------------------
(***************************************************************************)
(* Theorems about the instance lifecycle beyond InstanceProofs: the rows   *)
(* and the containers they describe, the containers launches have in hand, *)
(* and the service the lifecycle implements.                               *)
(***************************************************************************)
EXTENDS InstanceProofs

-----------------------------------------------------------------------------
(* Rows, with or without advisory locks, and with every fault.             *)

Used(c) == docker[c] # "unused"
Stopped(c) == docker[c] \in {"dead", "removed"}

\* A launch that has started its container.
StartedPCs == {"health", "port", "record", "discard"}

\* What a handler has learned of containers, and still holds of them.
TaskInv(x) ==
  /\ \A c \in task[x].todo : Used(c)
  /\ task[x].target \in Containers => Used(task[x].target)
  /\ \A c \in task[x].stale : Stopped(c)
  /\ task[x].pc = "cleanup" => Stopped(task[x].target)
  /\ task[x].pc = "signal" => task[x].target \notin Foreign
  /\ task[x].pc \in StartedPCs =>
       slotOf[task[x].target] = task[x].slot /\ task[x].target \notin Foreign
  /\ task[x].pc \in {"port", "record"} => task[x].target \in everHealthy

StoreInv ==
  /\ \A c \in rows \cup Foreign : Used(c)
  /\ \A c \in Containers : docker[c] = "healthy" => c \in everHealthy
  /\ OneInstancePerSlot
  /\ RecordedWasHealthy

RowInv == StoreInv /\ \A x \in Actors : TaskInv(x)

\* No step takes a container back to where it was.
Grows ==
  /\ \A c \in Containers :
       /\ Used(c) => Used(c)' /\ slotOf'[c] = slotOf[c]
       /\ Stopped(c) => Stopped(c)'
  /\ everHealthy \subseteq everHealthy'

\* Rows may go, but only of stopped containers.
OnlyStoppedGo == rows' \subseteq rows /\ \A c \in rows \ rows' : Stopped(c)

\* The two promises about a step.
Forgets == \A c \in rows \ rows' : ~Running(c)
Foreigners == \A c \in Foreign : Running(c) /\ ~Running(c)' => ExitContainer(c)

Good == RowInv' /\ Grows /\ Forgets /\ Foreigners

-----------------------------------------------------------------------------
LEMMA TaskKept ==
  ASSUME TypeInv, Grows, NEW x \in Actors, TaskInv(x), task'[x] = task[x]
  PROVE  TaskInv(x)'
<1>1. /\ task[x] \in Tasks
      /\ task[x].pc \in TargetPCs => task[x].target \in Containers
  BY TaskFacts
<1>. QED
  BY <1>1 DEF Grows, TaskInv, Tasks, StartedPCs, TargetPCs

\* A step of x that leaves the store to itself, or lets it grow.
LEMMA TasksKept ==
  ASSUME TypeInv, RowInv, Grows, StoreInv', NEW x \in Actors,
         task' = [task EXCEPT ![x] = task'[x]], TaskInv(x)'
  PROVE  RowInv'
<1>. SUFFICES ASSUME NEW y \in Actors, y # x PROVE TaskInv(y)'
  BY DEF RowInv
<1>1. task'[y] = task[y]
  BY DEF TypeInv, TaskOK
<1>. QED
  BY <1>1, TaskKept DEF RowInv

LEMMA IdleKeeps ==
  ASSUME NEW x \in Actors, task'[x] = Idle
  PROVE  TaskInv(x)'
  BY StoreAssumption DEF TaskInv, Idle, NewTask, StartedPCs

\* A task that only moves on, to where nothing more is needed of it.
LEMMA MoveKeeps ==
  ASSUME TypeInv, Grows, NEW x \in Actors, TaskInv(x),
         NEW p \in PCs \ (StartedPCs \cup {"cleanup", "signal"}), Goto(x, p)
  PROVE  TaskInv(x)'
<1>1. /\ task'[x].pc = p /\ task'[x].todo = task[x].todo
      /\ task'[x].target = task[x].target /\ task'[x].stale = task[x].stale
      /\ task[x] \in Tasks
  BY TaskFacts DEF Goto, TypeInv, TaskOK, Tasks
<1>. QED
  BY <1>1 DEF TaskInv, Grows, Tasks, StartedPCs

LEMMA RefusedKeeps ==
  ASSUME TypeInv, Grows, NEW x \in Actors, TaskInv(x), KillRefused(x)
  PROVE  TaskInv(x)'
<1>1. CASE Batch(x)
  <2>1. /\ task'[x].pc = "next" /\ task'[x].todo = task[x].todo
        /\ task'[x].target = NoContainer /\ task'[x].stale = task[x].stale
        /\ task[x] \in Tasks
    BY <1>1, TaskFacts DEF KillRefused, TypeInv, TaskOK, Tasks
  <2>. QED
    BY <2>1, StoreAssumption DEF TaskInv, Grows, Tasks, StartedPCs
<1>2. CASE ~Batch(x)
  BY <1>2, IdleKeeps DEF KillRefused, Return, Begin, TypeInv, TaskOK
<1>. QED
  BY <1>1, <1>2

\* Only the task changes.
LEMMA QuietStore ==
  ASSUME RowInv, UNCHANGED <<dockerVars, rows>>
  PROVE  Grows /\ StoreInv' /\ Forgets /\ Foreigners
  BY DEF RowInv, Grows, StoreInv, Used, Stopped, OneInstancePerSlot, RecordedWasHealthy,
     Forgets, Foreigners, Running, dockerVars

LEMMA ForgottenStore ==
  ASSUME TypeInv, RowInv, UNCHANGED dockerVars, OnlyStoppedGo
  PROVE  Grows /\ StoreInv' /\ Forgets /\ Foreigners
<1>1. docker' = docker /\ slotOf' = slotOf /\ everHealthy' = everHealthy
  BY DEF dockerVars
<1>2. Grows /\ Foreigners
  BY <1>1 DEF Grows, Used, Stopped, Foreigners, Running
<1>3. Forgets
  BY DEF Forgets, Running, Stopped, OnlyStoppedGo
<1>4. StoreInv'
  BY <1>1 DEF RowInv, StoreInv, Used, OneInstancePerSlot, RecordedWasHealthy,
     OnlyStoppedGo
<1>. QED
  BY <1>2, <1>3, <1>4

\* The account's slot was free, and its new container once healthy.
LEMMA RecordedStore ==
  ASSUME TypeInv, RowInv, UNCHANGED dockerVars, NEW r \in Requests,
         ~SlotTaken(task[r].slot), rows' = rows \cup {task[r].target},
         task[r].target \in everHealthy, Used(task[r].target),
         slotOf[task[r].target] = task[r].slot
  PROVE  Grows /\ StoreInv' /\ Forgets /\ Foreigners
<1>1. docker' = docker /\ slotOf' = slotOf /\ everHealthy' = everHealthy
  BY DEF dockerVars
<1>2. Grows /\ Foreigners
  BY <1>1 DEF Grows, Used, Stopped, Foreigners, Running
<1>3. Forgets
  BY DEF Forgets
<1>4. OneInstancePerSlot'
  BY <1>1 DEF RowInv, StoreInv, OneInstancePerSlot, SlotTaken, RowsAt
<1>5. StoreInv'
  BY <1>1, <1>4 DEF RowInv, StoreInv, Used, RecordedWasHealthy
<1>. QED
  BY <1>2, <1>3, <1>5

\* A container of this event is killed.
LEMMA KilledStore ==
  ASSUME TypeInv, RowInv, NEW c \in Containers \ Foreign, Running(c), Kill(c),
         UNCHANGED <<slotOf, everHealthy, rows>>
  PROVE  Grows /\ StoreInv' /\ Forgets /\ Foreigners /\ Stopped(c)'
<1>1. docker' = [docker EXCEPT ![c] = "dead"] /\ docker \in [Containers -> DockerStates]
  BY DEF Kill, TypeInv, TypeOK
<1>2. rows \subseteq Containers /\ Foreign \subseteq Containers
  BY StoreAssumption DEF TypeInv, TypeOK
<1>. QED
  BY <1>1, <1>2 DEF RowInv, Grows, StoreInv, Used, Stopped, OneInstancePerSlot,
     RecordedWasHealthy, Forgets, Foreigners, Running

LEMMA StartedStore ==
  ASSUME TypeInv, RowInv, NEW r \in Requests, NEW c \in Containers,
         StartContainer(r, c), UNCHANGED rows
  PROVE  /\ Grows /\ StoreInv' /\ Forgets /\ Foreigners
         /\ c \notin Foreign /\ Used(c)' /\ slotOf'[c] = task[r].slot
<1>1. /\ docker[c] = "unused" /\ UNCHANGED everHealthy
      /\ docker' = [docker EXCEPT ![c] = "starting"]
      /\ slotOf' = [slotOf EXCEPT ![c] = task[r].slot]
  BY DEF StartContainer
<1>2. /\ docker \in [Containers -> DockerStates]
      /\ slotOf \in [Containers -> Slots \cup {NoSlot}]
      /\ rows \subseteq Containers /\ Foreign \subseteq Containers
  BY StoreAssumption DEF TypeInv, TypeOK
<1>3. c \notin rows /\ c \notin Foreign
  BY <1>1 DEF RowInv, StoreInv, Used
<1>4. Grows
  BY <1>1, <1>2 DEF Grows, Used, Stopped
<1>. QED
  BY <1>1, <1>2, <1>3, <1>4 DEF RowInv, StoreInv, Used, OneInstancePerSlot, RecordedWasHealthy,
     Forgets, Foreigners, Running

-----------------------------------------------------------------------------
LEMMA LaunchGood ==
  ASSUME TypeInv, RowInv, NEW r \in Requests, LaunchStep(r) \/ LaunchFault(r)
  PROVE  Good
<1>0. /\ r \in Actors /\ TaskInv(r) /\ task[r] \in Tasks
      /\ task[r].pc \in StartedPCs => task[r].target \in Containers
      /\ task \in [Actors -> Tasks]
  BY TaskFacts DEF Actors, RowInv, StartedPCs, TargetPCs, TypeInv, TaskOK
<1> USE <1>0 DEF At
<1>1. ASSUME UNCHANGED <<dockerVars, rows>>,
             NEW p \in PCs \ (StartedPCs \cup {"cleanup", "signal"}), Goto(r, p)
      PROVE  Good
  BY <1>1, QuietStore, MoveKeeps, TasksKept DEF Goto, Good
<1>2. ASSUME UNCHANGED <<dockerVars, rows>>, Return(r)
      PROVE  Good
  BY <1>2, QuietStore, IdleKeeps, TasksKept DEF Return, Begin, Good
<1>3. CASE AcquireLaunchLock(r)
  BY <1>3, <1>1 DEF AcquireLaunchLock, dbVars, PCs, StartedPCs
<1>4. CASE LaunchLockTimeout(r) \/ ReleaseLaunchLock(r)
  BY <1>4, <1>2 DEF LaunchLockTimeout, ReleaseLaunchLock, dbVars
<1>5. CASE ReadAccount(r)
  <2>1. CASE task[r].slot \in solved
    BY <1>5, <2>1, <1>1 DEF ReadAccount, dbVars, PCs, StartedPCs
  <2>2. CASE task[r].slot \notin solved
    <3>1. /\ task' = [task EXCEPT ![r] = task'[r]]
          /\ task'[r].pc = "prune" /\ task'[r].todo \subseteq rows
          /\ task'[r].target = task[r].target /\ task'[r].stale = task[r].stale
      BY <1>5, <2>2 DEF ReadAccount, RowsOf, Tasks
    <3>2. Grows /\ StoreInv' /\ Forgets /\ Foreigners
      BY <1>5, QuietStore DEF ReadAccount, dbVars
    <3>3. TaskInv(r)'
      BY <3>1, <3>2 DEF TaskInv, Grows, RowInv, StoreInv, StartedPCs, Tasks, TypeInv, TypeOK
    <3>. QED
      BY <3>1, <3>2, <3>3, TasksKept DEF Good
  <2>. QED BY <2>1, <2>2
<1>6. CASE \E c \in Containers : PruneCheck(r, c)
  <2>1. PICK c \in Containers : PruneCheck(r, c)
    BY <1>6
  <2>2. Grows /\ StoreInv' /\ Forgets /\ Foreigners
    BY <2>1, QuietStore DEF PruneCheck, dbVars
  <2>3. CASE Goto(r, "unlock")
    BY <2>1, <2>3, <1>1 DEF PruneCheck, dbVars, PCs, StartedPCs
  <2>4. CASE ~Goto(r, "unlock")
    <3>1. /\ task' = [task EXCEPT ![r] = task'[r]]
          /\ task'[r].pc = "prune" /\ task'[r].todo \subseteq task[r].todo
          /\ task'[r].target = task[r].target
          /\ \/ task'[r].stale = task[r].stale
             \/ task'[r].stale = task[r].stale \cup {c} /\ ~Running(c)
      BY <2>1, <2>4 DEF PruneCheck, Tasks
    <3>2. ~Running(c) => Stopped(c)
      BY <2>1 DEF PruneCheck, TaskInv, Used, Running, Stopped, TypeInv, TypeOK, DockerStates
    <3>3. TaskInv(r)'
      BY <2>2, <3>1, <3>2 DEF TaskInv, Grows, StartedPCs, Tasks
    <3>. QED
      BY <2>2, <3>1, <3>3, TasksKept DEF Good
  <2>. QED BY <2>3, <2>4
<1>7. CASE CommitPrune(r)
  <2>0. UNCHANGED dockerVars /\ OnlyStoppedGo
    BY <1>7 DEF CommitPrune, DeleteRows, TaskInv, OnlyStoppedGo
  <2>1. Grows /\ StoreInv' /\ Forgets /\ Foreigners
    BY <2>0, ForgottenStore
  <2>2. TaskInv(r)'
    BY <1>7, <2>1, MoveKeeps DEF CommitPrune, PCs, StartedPCs
  <2>. QED
    BY <1>7, <2>1, <2>2, TasksKept DEF CommitPrune, Goto, Good
<1>8. CASE Decide(r) \/ ReloadFails(r) \/ RefuseLaunch(r)
  BY <1>8, <1>1 DEF Decide, ReloadFails, RefuseLaunch, dbVars, PCs, StartedPCs
<1>9. CASE \E c \in Containers : RunContainer(r, c)
  <2>1. PICK c \in Containers : RunContainer(r, c)
    BY <1>9
  <2>2. /\ Grows /\ StoreInv' /\ Forgets /\ Foreigners
        /\ c \notin Foreign /\ Used(c)' /\ slotOf'[c] = task[r].slot
    BY <2>1, StartedStore DEF RunContainer, dbVars
  <2>3. /\ task' = [task EXCEPT ![r] = task'[r]]
        /\ task'[r].pc = "health" /\ task'[r].target = c
        /\ task'[r].todo = task[r].todo /\ task'[r].stale = task[r].stale
        /\ task'[r].slot = task[r].slot
    BY <2>1 DEF RunContainer, Tasks
  <2>4. TaskInv(r)'
    BY <2>2, <2>3 DEF TaskInv, Grows, StartedPCs, Tasks
  <2>. QED
    BY <2>2, <2>3, <2>4, TasksKept DEF Good
<1>10. CASE HealthPassed(r) \/ HealthFailed(r) \/ ReadPort(r)
              \/ (LaunchConnectionLost(r) /\ Goto(r, "discard"))
  <2>1. Grows /\ StoreInv' /\ Forgets /\ Foreigners
    BY <1>10, QuietStore DEF HealthPassed, HealthFailed, ReadPort, LaunchConnectionLost, dbVars
  <2>2. /\ task' = [task EXCEPT ![r] = task'[r]]
        /\ task[r].pc \in StartedPCs \cup {"prune"} /\ task'[r].pc \in {"port", "record", "discard"}
        /\ task'[r].target = task[r].target /\ task'[r].slot = task[r].slot
        /\ task'[r].todo = task[r].todo /\ task'[r].stale = task[r].stale
    BY <1>10 DEF HealthPassed, HealthFailed, ReadPort, LaunchConnectionLost, Goto, Tasks,
       StartedPCs
  <2>3. task[r].pc # "prune"
    BY <1>10 DEF HealthPassed, HealthFailed, ReadPort, LaunchConnectionLost, Goto, Tasks
  <2>4. task'[r].pc \in {"port", "record"} => task[r].target \in everHealthy
    BY <1>10 DEF HealthPassed, HealthFailed, ReadPort, LaunchConnectionLost, Goto, Tasks,
       RowInv, StoreInv, TaskInv, StartedPCs
  <2>5. TaskInv(r)'
    BY <2>1, <2>2, <2>3, <2>4 DEF TaskInv, Grows, StartedPCs, Tasks
  <2>. QED
    BY <2>1, <2>2, <2>5, TasksKept DEF Good
<1>11. CASE RecordInstance(r) \/ LaunchCommitLost(r)
  <2>1. UNCHANGED dockerVars /\ (Goto(r, "discard") \/ Goto(r, "unlock"))
    BY <1>11 DEF RecordInstance, LaunchCommitLost
  <2>2. CASE UNCHANGED rows
    <3>1. Grows /\ StoreInv' /\ Forgets /\ Foreigners
      BY <2>1, <2>2, QuietStore
    <3>2. CASE Goto(r, "unlock")
      BY <2>1, <2>2, <3>2, <1>1 DEF PCs, StartedPCs
    <3>3. CASE Goto(r, "discard") /\ ~Goto(r, "unlock")
      <4>1. /\ task' = [task EXCEPT ![r] = task'[r]]
            /\ task[r].pc = "record" /\ task'[r].pc = "discard"
            /\ task'[r].target = task[r].target /\ task'[r].slot = task[r].slot
            /\ task'[r].todo = task[r].todo /\ task'[r].stale = task[r].stale
        BY <1>11, <3>3 DEF RecordInstance, LaunchCommitLost, Goto, Tasks
      <4>2. TaskInv(r)'
        BY <3>1, <4>1 DEF TaskInv, Grows, StartedPCs, Tasks
      <4>. QED
        BY <3>1, <4>1, <4>2, TasksKept DEF Good
    <3>. QED BY <2>1, <3>2, <3>3
  <2>3. CASE ~(UNCHANGED rows)
    <3>1. /\ Goto(r, "unlock")
          /\ \/ /\ task[r].pc = "record" /\ ~SlotTaken(task[r].slot)
                /\ rows' = rows \cup {task[r].target}
             \/ rows' = rows \ task[r].stale
      BY <1>11, <2>3 DEF RecordInstance, LaunchCommitLost, DeleteRows
    <3>2. Grows /\ StoreInv' /\ Forgets /\ Foreigners
      <4>1. CASE rows' = rows \ task[r].stale
        <5>1. OnlyStoppedGo
          BY <4>1 DEF TaskInv, OnlyStoppedGo
        <5>. QED BY <2>1, <5>1, ForgottenStore
      <4>2. CASE task[r].pc = "record" /\ ~SlotTaken(task[r].slot)
                   /\ rows' = rows \cup {task[r].target}
        <5>1. /\ task[r].target \in everHealthy /\ Used(task[r].target)
              /\ slotOf[task[r].target] = task[r].slot
          BY <4>2 DEF TaskInv, StartedPCs
        <5>. QED
          BY <2>1, <4>2, <5>1, RecordedStore
      <4>. QED BY <3>1, <4>1, <4>2
    <3>3. TaskInv(r)'
      BY <3>1, <3>2, MoveKeeps DEF PCs, StartedPCs
    <3>. QED
      BY <3>1, <3>2, <3>3, TasksKept DEF Goto, Good
  <2>. QED BY <2>2, <2>3
<1>12. CASE DiscardContainer(r)
  <2>1. /\ task[r].pc = "discard" /\ Goto(r, "unlock")
        /\ task[r].target \in Containers \ Foreign
    BY <1>12 DEF DiscardContainer, TaskInv, StartedPCs
  <2>2. Grows /\ StoreInv' /\ Forgets /\ Foreigners
    BY <1>12, <2>1, KilledStore, QuietStore DEF DiscardContainer, dbVars, dockerVars
  <2>3. TaskInv(r)'
    BY <2>1, <2>2, MoveKeeps DEF PCs, StartedPCs
  <2>. QED
    BY <2>1, <2>2, <2>3, TasksKept DEF Goto, Good
<1>13. CASE \E c \in Containers : RunReplyLost(r, c)
  <2>1. PICK c \in Containers : RunReplyLost(r, c)
    BY <1>13
  <2>2. Grows /\ StoreInv' /\ Forgets /\ Foreigners
    BY <2>1, StartedStore DEF RunReplyLost, dbVars
  <2>3. TaskInv(r)'
    BY <2>1, <2>2, MoveKeeps DEF RunReplyLost, PCs, StartedPCs
  <2>. QED
    BY <2>1, <2>2, <2>3, TasksKept DEF RunReplyLost, Goto, Good
<1>14. CASE LaunchConnectionLost(r) /\ Goto(r, "unlock")
  BY <1>14, <1>1 DEF LaunchConnectionLost, dbVars, PCs, StartedPCs
<1>. QED
  BY <1>3, <1>4, <1>5, <1>6, <1>7, <1>8, <1>9, <1>10, <1>11, <1>12, <1>13, <1>14
     DEF LaunchStep, LaunchFault, LaunchConnectionLost

-----------------------------------------------------------------------------
LEMMA LeaveReturns ==
  ASSUME NEW x \in Actors, Leave(x)
  PROVE  Return(x)
  BY DEF Leave

\* Whoever was refused, the containers are as they were, or one was killed.
LEMMA RefusedGood ==
  ASSUME TypeInv, RowInv, NEW x \in Actors, KillRefused(x),
         Grows /\ StoreInv' /\ Forgets /\ Foreigners
  PROVE  Good
<1>1. task' = [task EXCEPT ![x] = task'[x]]
  BY DEF KillRefused, Return, Begin, TypeInv, TaskOK
<1>2. TaskInv(x)'
  BY RefusedKeeps DEF RowInv
<1>. QED
  BY <1>1, <1>2, TasksKept DEF Good

LEMMA ReturnGood ==
  ASSUME TypeInv, RowInv, NEW x \in Actors, Return(x),
         Grows /\ StoreInv' /\ Forgets /\ Foreigners
  PROVE  Good
  BY IdleKeeps, TasksKept DEF Return, Begin, Good, TypeInv, TaskOK

LEMMA TeardownGood ==
  ASSUME TypeInv, RowInv, NEW x \in Actors, TeardownStep(x) \/ TeardownFault(x)
  PROVE  Good
<1>0. /\ TaskInv(x) /\ task[x] \in Tasks
      /\ task[x].pc \in TargetPCs => task[x].target \in Containers
      /\ task \in [Actors -> Tasks]
  BY TaskFacts DEF RowInv, TypeInv, TaskOK
<1>a. \A c \in Containers : /\ ~Running(c) /\ Used(c) => Stopped(c)
                            /\ ~Present(c) => ~Running(c)
                            /\ Running(c) => Present(c)
  BY DEF TypeInv, TypeOK, DockerStates, Running, Present, Used, Stopped
<1> USE <1>0 DEF At
<1>1. ASSUME UNCHANGED <<dockerVars, rows>>,
             NEW p \in PCs \ (StartedPCs \cup {"cleanup", "signal"}), Goto(x, p)
      PROVE  Good
  BY <1>1, QuietStore, MoveKeeps, TasksKept DEF Goto, Good
<1>2. ASSUME UNCHANGED <<dockerVars, rows>>, Return(x)
      PROVE  Good
  BY <1>2, QuietStore, ReturnGood
\* The handler keeps the container in hand, as the new place requires.
<1>3. ASSUME UNCHANGED <<dockerVars, rows>>, Goto(x, "signal") \/ Goto(x, "cleanup"),
             task[x].target \in Containers,
             Goto(x, "cleanup") => Stopped(task[x].target),
             Goto(x, "signal") => task[x].target \notin Foreign
      PROVE  Good
  <2>1. Grows /\ StoreInv' /\ Forgets /\ Foreigners
    BY <1>3, QuietStore
  <2>2. /\ task' = [task EXCEPT ![x] = task'[x]]
        /\ task'[x].target = task[x].target
        /\ task'[x].todo = task[x].todo /\ task'[x].stale = task[x].stale
        /\ \/ task'[x].pc = "signal" /\ Goto(x, "signal")
           \/ task'[x].pc = "cleanup" /\ Goto(x, "cleanup")
    BY <1>3 DEF Goto, Tasks
  <2>3. TaskInv(x)'
    BY <1>3, <2>1, <2>2 DEF TaskInv, Grows, StartedPCs, Tasks
  <2>. QED
    BY <2>1, <2>2, <2>3, TasksKept DEF Good
<1>4. CASE Inspect(x)
  <2>1. /\ UNCHANGED <<dockerVars, rows>> /\ task[x].target \in Containers
        /\ Used(task[x].target)
    BY <1>4 DEF Inspect, dbVars, TaskInv, TargetPCs
  <2>2. CASE KillRefused(x)
    BY <2>1, <2>2, QuietStore, RefusedGood
  <2>3. CASE ~KillRefused(x)
    <3>1. \/ Goto(x, "cleanup") /\ ~Present(task[x].target)
          \/ Goto(x, "signal") /\ task[x].target \notin Foreign /\ Present(task[x].target)
      BY <1>4, <2>3 DEF Inspect
    <3>2. ~(Goto(x, "cleanup") /\ Goto(x, "signal"))
      BY DEF Goto, Tasks
    <3>. QED
      BY <1>a, <1>3, <2>1, <3>1, <3>2
  <2>. QED BY <2>2, <2>3
<1>5. CASE Signal(x)
  <2>0. /\ task[x].target \in Containers \ Foreign
        /\ UNCHANGED <<slotOf, everHealthy, rows>>
    BY <1>5 DEF Signal, dbVars, TaskInv, TargetPCs
  <2>1. CASE Running(task[x].target)
    <3>1. Kill(task[x].target) /\ Goto(x, "cleanup")
      BY <1>5, <2>1 DEF Signal
    <3>2. /\ Grows /\ StoreInv' /\ Forgets /\ Foreigners
          /\ docker'[task[x].target] \in {"dead", "removed"}
      <4>1. PICK c \in Containers : c = task[x].target
        BY <2>0
      <4>2. (Stopped(c)') => docker'[task[x].target] \in {"dead", "removed"}
        BY <4>1 DEF Stopped
      <4>. QED BY <2>0, <2>1, <3>1, <4>1, <4>2, KilledStore
    <3>3. /\ task' = [task EXCEPT ![x] = task'[x]]
          /\ task'[x].target = task[x].target /\ task'[x].pc = "cleanup"
          /\ task'[x].todo = task[x].todo /\ task'[x].stale = task[x].stale
      BY <3>1 DEF Goto, Tasks
    <3>4. TaskInv(x)'
      BY <3>2, <3>3 DEF TaskInv, Grows, StartedPCs, Tasks, Stopped, Used
    <3>. QED
      BY <3>2, <3>3, <3>4, TasksKept DEF Good
  <2>2. CASE ~Running(task[x].target)
    BY <1>5, <2>0, <2>2, QuietStore, RefusedGood DEF Signal, dockerVars
  <2>. QED BY <2>1, <2>2
<1>6. CASE Cleanup(x)
  <2>1. Grows /\ StoreInv' /\ Forgets /\ Foreigners
    <3>1. UNCHANGED dockerVars /\ OnlyStoppedGo
      BY <1>6 DEF Cleanup, DeleteRows, TaskInv, OnlyStoppedGo
    <3>. QED BY <3>1, ForgottenStore
  <2>2. CASE Return(x)
    BY <2>1, <2>2, ReturnGood
  <2>3. CASE Goto(x, "score")
    BY <2>1, <2>3, MoveKeeps, TasksKept DEF Goto, Good, PCs, StartedPCs
  <2>4. CASE ~Return(x) /\ ~Goto(x, "score")
    <3>1. /\ task' = [task EXCEPT ![x] = task'[x]]
          /\ task'[x].target = NoContainer /\ task'[x].pc = "next"
          /\ task'[x].todo = task[x].todo /\ task'[x].stale = task[x].stale
      BY <1>6, <2>4 DEF Cleanup, AfterCleanup, Tasks
    <3>2. TaskInv(x)'
      BY <2>1, <3>1, StoreAssumption DEF TaskInv, Grows, StartedPCs, Tasks
    <3>. QED
      BY <2>1, <3>1, <3>2, TasksKept DEF Good
  <2>. QED BY <2>2, <2>3, <2>4
<1>7. CASE \E c \in Containers : TakeNext(x, c)
  <2>1. PICK c \in Containers : TakeNext(x, c)
    BY <1>7
  <2>2. Grows /\ StoreInv' /\ Forgets /\ Foreigners
    BY <2>1, QuietStore DEF TakeNext, dbVars
  <2>3. /\ task' = [task EXCEPT ![x] = task'[x]] /\ c \in task[x].todo
        /\ task'[x].target = c /\ task'[x].pc = "inspect"
        /\ task'[x].todo = task[x].todo \ {c} /\ task'[x].stale = task[x].stale
    BY <2>1 DEF TakeNext, Tasks
  <2>4. TaskInv(x)'
    BY <2>2, <2>3 DEF TaskInv, Grows, StartedPCs, Tasks
  <2>. QED
    BY <2>2, <2>3, <2>4, TasksKept DEF Good
<1>8. CASE \E c \in Containers : NextIsGone(x, c)
  <2>1. PICK c \in Containers : NextIsGone(x, c)
    BY <1>8
  <2>2. UNCHANGED <<dockerVars, rows>>
    BY <2>1 DEF NextIsGone, dbVars
  <2>3. CASE task[x].op = "purge"
    <3>1. Grows /\ StoreInv' /\ Forgets /\ Foreigners
      BY <2>2, QuietStore
    <3>2. /\ task' = [task EXCEPT ![x] = task'[x]]
          /\ task'[x].target = task[x].target /\ task'[x].pc = "next"
          /\ task'[x].todo \subseteq task[x].todo /\ task'[x].stale = task[x].stale
      BY <2>1, <2>3 DEF NextIsGone, Tasks
    <3>3. TaskInv(x)'
      BY <3>1, <3>2 DEF TaskInv, Grows, StartedPCs, Tasks
    <3>. QED
      BY <3>1, <3>2, <3>3, TasksKept DEF Good
  <2>4. CASE task[x].op # "purge"
    BY <2>1, <2>2, <2>4, <1>2, LeaveReturns DEF NextIsGone
  <2>. QED BY <2>3, <2>4
<1>9. CASE FinishBatch(x) \/ CommitRenew(x) \/ Score(x)
  BY <1>9, <1>2, LeaveReturns DEF FinishBatch, CommitRenew, Score, dbVars
<1>10. CASE CheckRunning(x)
  <2>1. /\ UNCHANGED <<dockerVars, rows>> /\ task[x].target \in Containers
        /\ Used(task[x].target)
    BY <1>10 DEF CheckRunning, dbVars, TaskInv, TargetPCs
  <2>2. CASE ~Running(task[x].target) /\ Goto(x, "cleanup")
    <3>1. ~Goto(x, "signal")
      BY <2>2 DEF Goto, Tasks
    <3>. QED
      BY <1>a, <1>3, <2>1, <2>2, <3>1
  <2>3. CASE Goto(x, "renew")
    BY <1>1, <2>1, <2>3 DEF PCs, StartedPCs
  <2>4. CASE Return(x)
    BY <1>2, <2>1, <2>4
  <2>. QED
    BY <1>10, <2>2, <2>3, <2>4 DEF CheckRunning
<1>11. CASE ReloadForKill(x)
  BY <1>11, <1>1, <1>2 DEF ReloadForKill, dbVars, PCs, StartedPCs
<1>12. CASE TeardownConnectionLost(x)
  <2>1. CASE UNCHANGED docker
    <3>1. UNCHANGED <<dockerVars, rows>>
      BY <1>12, <2>1 DEF TeardownConnectionLost, dockerVars, dbVars
    <3>2. KillRefused(x) \/ Return(x)
      BY <1>12 DEF TeardownConnectionLost
    <3>. QED
      BY <3>1, <3>2, <1>2, QuietStore, RefusedGood
  <2>2. CASE ~(UNCHANGED docker)
    <3>1. /\ KillRefused(x) /\ task[x].pc = "signal"
          /\ Running(task[x].target) /\ Kill(task[x].target)
          /\ UNCHANGED <<slotOf, everHealthy, rows>>
      BY <1>12, <2>2 DEF TeardownConnectionLost, dbVars
    <3>2. task[x].target \in Containers \ Foreign
      BY <3>1 DEF TaskInv, TargetPCs
    <3>. QED
      BY <3>1, <3>2, KilledStore, RefusedGood
  <2>. QED BY <2>1, <2>2
<1>13. CASE TeardownCommitLost(x)
  <2>1. /\ UNCHANGED dockerVars /\ Return(x)
        /\ UNCHANGED rows \/ OnlyStoppedGo
    BY <1>13, LeaveReturns DEF TeardownCommitLost, DeleteRows, TaskInv, OnlyStoppedGo
  <2>2. Grows /\ StoreInv' /\ Forgets /\ Foreigners
    BY <2>1, QuietStore, ForgottenStore
  <2>. QED
    BY <2>1, <2>2, ReturnGood
<1>. QED
  BY <1>4, <1>5, <1>6, <1>7, <1>8, <1>9, <1>10, <1>11, <1>12, <1>13
     DEF TeardownStep, TeardownFault

-----------------------------------------------------------------------------
\* A handler begins with rows it read, and with nothing else in hand.
LEMMA ArriveGood ==
  ASSUME TypeInv, RowInv, NEW x \in Actors, UNCHANGED <<dockerVars, rows>>,
         NEW p \in {"lockwait", "inspect", "next", "check", "score", "attempt"},
         NEW o, NEW s, NEW c \in rows \cup {NoContainer}, NEW b \in SUBSET rows,
         Begin(x, NewTask(p, o, s, c, b))
  PROVE  Good
<1>1. Grows /\ StoreInv' /\ Forgets /\ Foreigners
  BY QuietStore
<1>2. /\ task'[x].pc = p /\ task'[x].target = c
      /\ task'[x].todo = b /\ task'[x].stale = {}
      /\ task' = [task EXCEPT ![x] = task'[x]]
  BY DEF Begin, NewTask, TypeInv, TaskOK
<1>3. TaskInv(x)'
  BY <1>1, <1>2, StoreAssumption
     DEF TaskInv, Grows, StartedPCs, RowInv, StoreInv, TypeInv, TypeOK
<1>. QED
  BY <1>1, <1>2, <1>3, TasksKept DEF Good

LEMMA EnvironmentGood ==
  ASSUME TypeInv, RowInv, Environment
  PROVE  Good
<1>1. PICK c \in Containers :
        BecomeHealthy(c) \/ ExitContainer(c) \/ AutoRemove(c) \/ Tick(c)
  BY DEF Environment
<1>2. /\ docker \in [Containers -> DockerStates] /\ rows \subseteq Containers
      /\ UNCHANGED <<rows, slotOf, task>> /\ everHealthy \subseteq everHealthy'
  BY <1>1 DEF BecomeHealthy, ExitContainer, AutoRemove, Tick, dockerVars, dbVars,
     TypeInv, TypeOK
<1>3. \A d \in Containers \ {c} : docker'[d] = docker[d]
  BY <1>1, <1>2 DEF BecomeHealthy, ExitContainer, AutoRemove, Tick, dockerVars
<1>4. Grows
  BY <1>1, <1>2, <1>3 DEF BecomeHealthy, ExitContainer, AutoRemove, Tick, dockerVars,
     Grows, Used, Stopped, Running
<1>5. StoreInv'
  <2>1. \A d \in rows \cup Foreign : Used(d)'
    BY <1>2, <1>4, StoreAssumption DEF Grows, RowInv, StoreInv
  <2>2. \A d \in Containers : docker'[d] = "healthy" => d \in everHealthy'
    BY <1>1, <1>2, <1>3 DEF RowInv, StoreInv, BecomeHealthy, ExitContainer, AutoRemove,
       Tick, dockerVars
  <2>3. OneInstancePerSlot' /\ RecordedWasHealthy'
    BY <1>2 DEF RowInv, StoreInv, OneInstancePerSlot, RecordedWasHealthy
  <2>. QED BY <1>2, <2>1, <2>2, <2>3 DEF StoreInv
<1>6. Forgets
  BY <1>2 DEF Forgets
<1>7. Foreigners
  <2>. SUFFICES ASSUME NEW d \in Foreign, Running(d), ~Running(d)'
                PROVE  ExitContainer(d)
    BY DEF Foreigners
  <2>1. d = c
    BY <1>3, StoreAssumption DEF Running
  <2>. QED
    BY <1>1, <1>2, <2>1 DEF BecomeHealthy, AutoRemove, Tick, dockerVars, Running
<1>8. \A x \in Actors : TaskInv(x)'
  BY <1>2, <1>4, TaskKept DEF RowInv
<1>. QED BY <1>4, <1>5, <1>6, <1>7, <1>8 DEF Good, RowInv

LEMMA StepGood ==
  ASSUME TypeInv, RowInv, [Next]_vars
  PROVE  Good
<1>1. ASSUME NEW r \in Requests, Arrive(r) PROVE Good
  <2>0. r \in Actors
    BY DEF Actors
  <2>1. CASE \E s \in Slots : ArriveLaunch(r, s)
    BY <1>1, <2>0, <2>1, ArriveGood DEF ArriveLaunch, dbVars
  <2>2. CASE \E s \in Slots : StopInstance(r, s) \/ Examine(r, s, "view")
                                \/ Examine(r, s, "renew")
    BY <1>1, <2>0, <2>2, ArriveGood DEF StopInstance, Examine, RowsAt, dbVars
  <2>3. CASE \E s \in Slots : SubmitFlag(r, s)
    BY <1>1, <2>0, <2>3, ArriveGood DEF SubmitFlag, RowsAt, dbVars
  <2>4. CASE \E c \in Containers : AdminKill(r, c)
    BY <1>1, <2>0, <2>4, ArriveGood DEF AdminKill, dbVars
  <2>5. CASE \E ids \in SUBSET rows : AdminPurge(r, ids)
    BY <1>1, <2>0, <2>5, ArriveGood DEF AdminPurge, dbVars
  <2>. QED
    BY <1>1, <2>1, <2>2, <2>3, <2>4, <2>5 DEF Arrive
<1>2. ASSUME NEW x \in Scanners, StartScan(x) PROVE Good
  <2>1. x \in Actors /\ due \in SUBSET rows
    BY DEF Actors, TypeInv, TypeOK
  <2>. QED
    BY <1>2, <2>1, ArriveGood DEF StartScan, dbVars
<1>3. ASSUME NEW x \in Actors, Proceed(x) \/ TeardownFault(x) PROVE Good
  BY <1>3, LaunchGood, TeardownGood DEF Proceed
<1>4. ASSUME NEW r \in Requests, LaunchFault(r) PROVE Good
  BY <1>4, LaunchGood
<1>5. ASSUME NEW x \in Actors, Crash(x) PROVE Good
  BY <1>5, QuietStore, ReturnGood DEF Crash, dbVars
<1>6. CASE UNCHANGED vars
  <2>1. Grows /\ StoreInv' /\ Forgets /\ Foreigners
    BY <1>6, QuietStore DEF vars, dbVars
  <2>2. \A x \in Actors : TaskInv(x)'
    BY <1>6, <2>1, TaskKept DEF RowInv, vars
  <2>. QED BY <2>1, <2>2 DEF Good, RowInv
<1>. QED
  BY <1>1, <1>2, <1>3, <1>4, <1>5, <1>6, EnvironmentGood DEF Next

LEMMA RowInit ==
  ASSUME Init
  PROVE  RowInv
<1>1. PICK f \in [Foreign -> Slots] :
        /\ \A c, d \in Foreign : f[c] = f[d] => c = d
        /\ slotOf = [c \in Containers |-> IF c \in Foreign THEN f[c] ELSE NoSlot]
  BY DEF Init, StoreInit
<1>2. /\ rows = Foreign /\ everHealthy = Foreign /\ Foreign \subseteq Containers
      /\ docker = [c \in Containers |-> IF c \in Foreign THEN "healthy" ELSE "unused"]
      /\ task = [x \in Actors |-> Idle]
  BY StoreAssumption DEF Init, StoreInit
<1>3. StoreInv
  BY <1>1, <1>2 DEF StoreInv, Used, OneInstancePerSlot, RecordedWasHealthy
<1>4. \A x \in Actors : TaskInv(x)
  BY <1>2, StoreAssumption DEF TaskInv, Idle, NewTask, StartedPCs
<1>. QED BY <1>3, <1>4 DEF RowInv

LEMMA RowInvHolds == Spec => []RowInv
<1>1. TypeInv /\ RowInv /\ [Next]_vars => RowInv'
  BY StepGood DEF Good
<1>. QED
  BY <1>1, RowInit, TypeInvHolds, PTL DEF Spec

-----------------------------------------------------------------------------
\* With or without advisory locks, and whatever fails, two rows never
\* describe the same account and challenge (unique constraints of
\* container_info_model; helpers.create_container).
THEOREM SlotsAreUnique == Spec => []OneInstancePerSlot
<1>1. RowInv => OneInstancePerSlot
  BY DEF RowInv, StoreInv
<1>. QED BY <1>1, RowInvHolds, PTL

\* Every recorded instance passed its health check (create_container records
\* only after _wait_until_healthy).
THEOREM RecordedOnceHealthy == Spec => []RecordedWasHealthy
<1>1. RowInv => RecordedWasHealthy
  BY DEF RowInv, StoreInv
<1>. QED BY <1>1, RowInvHolds, PTL

\* No step of the plugin, lost reply or crash takes the row of a container
\* that still runs (cleanup_container_records, prune_stale_account_containers).
THEOREM ForgottenStopped == Spec => ForgottenMeansStopped
<1>1. TypeInv /\ RowInv /\ [Next]_vars => [\A c \in rows \ rows' : ~Running(c)]_vars
  BY StepGood DEF Good, Forgets
<1>. QED
  BY <1>1, RowInvHolds, TypeInvHolds, PTL DEF Spec, ForgottenMeansStopped

\* No step of the plugin stops a container of another event
\* (_get_owned_container).
THEOREM ForeignersLive == Spec => ForeignUntouched
<1>1. TypeInv /\ RowInv /\ [Next]_vars
        => [\A c \in Foreign : Running(c) /\ ~Running(c)' => ExitContainer(c)]_vars
  BY StepGood DEF Good, Foreigners
<1>. QED
  BY <1>1, RowInvHolds, TypeInvHolds, PTL DEF Spec, ForeignUntouched

-----------------------------------------------------------------------------
(* The containers that launches have in hand, started but not recorded:    *)
(* nobody else knows of them, and without faults nobody lets go of one     *)
(* that runs.                                                              *)

InHand(r, c) == task[r].pc \in StartedPCs /\ task[r].target = c

Knows(x, c) == task[x].target = c \/ c \in task[x].todo

\* Only its launch knows of a container before it is recorded.
HandInv ==
  \A r \in Requests, c \in Containers :
    InHand(r, c) => /\ c \notin rows
                    /\ \A x \in Actors \ {r} : ~Knows(x, c)

\* What a solve took down stays down.
Down(x) ==
  task[x].pc = "score" /\ task[x].target \in Containers =>
    task[x].target \notin rows /\ Stopped(task[x].target)

ScoreInv == \A x \in Actors : Down(x)

\* What a step of x may do to what it knows, has in hand and has taken down.
Learns(x) ==
  /\ task' = [task EXCEPT ![x] = task'[x]]
  /\ \A c \in Containers : Knows(x, c)' => \/ Knows(x, c) \/ c \in rows
                                          \/ docker[c] = "unused"
  /\ \/ rows' \subseteq rows
     \/ /\ task[x].pc = "record" /\ x \in Requests
        /\ rows' = rows \cup {task[x].target}
        /\ task'[x].pc \notin StartedPCs
  /\ task'[x].pc \in StartedPCs =>
       /\ rows' \subseteq rows /\ x \in Requests
       /\ \/ task[x].pc \in StartedPCs /\ task'[x].target = task[x].target
          \/ docker[task'[x].target] = "unused" /\ task'[x].target \in Containers
  /\ Down(x)'

-----------------------------------------------------------------------------
LEMMA LearnsKeeps ==
  ASSUME TypeInv, RowInv, Grows, HandInv, ScoreInv, NEW x \in Actors, Learns(x)
  PROVE  HandInv' /\ ScoreInv'
<1>1. \A y \in Actors \ {x} : task'[y] = task[y]
  BY DEF Learns, TypeInv, TaskOK
<1>2. \A y \in Actors : task[y] \in Tasks
  BY DEF TypeInv, TaskOK
<1>3. \A r \in Requests : r \in Actors
  BY DEF Actors
<1>4. \A c \in Containers, y \in Actors : docker[c] = "unused" =>
        c \notin rows /\ ~Knows(y, c)
  BY DEF RowInv, StoreInv, TaskInv, Used, Knows
<1>5. task[x].pc = "record" => InHand(x, task[x].target) /\ task[x].target \in Containers
  BY TaskFacts DEF InHand, StartedPCs, TargetPCs
<1>6. HandInv'
  <2>. SUFFICES ASSUME NEW r \in Requests, NEW c \in Containers, InHand(r, c)'
                PROVE  /\ c \notin rows'
                       /\ \A y \in Actors \ {r} : ~Knows(y, c)'
    BY DEF HandInv
  <2>1. CASE r = x
    <3>1. \/ InHand(r, c)
          \/ docker[c] = "unused"
      BY <2>1 DEF Learns, InHand
    <3>2. c \notin rows /\ \A y \in Actors \ {r} : ~Knows(y, c)
      BY <1>4, <3>1 DEF HandInv
    <3>3. rows' \subseteq rows
      BY <2>1 DEF Learns, InHand
    <3>. QED BY <1>1, <2>1, <3>2, <3>3 DEF Knows
  <2>2. CASE r # x
    <3>1. InHand(r, c)
      BY <1>1, <1>3, <2>2 DEF InHand
    <3>2. c \notin rows /\ \A y \in Actors \ {r} : ~Knows(y, c)
      BY <3>1 DEF HandInv
    <3>3. docker[c] # "unused"
      BY <1>3, <1>4, <3>1 DEF InHand, Knows
    <3>4. c \notin rows'
      BY <2>2, <3>2 DEF Learns, Knows
    <3>5. ASSUME NEW y \in Actors \ {r} PROVE ~Knows(y, c)'
      BY <1>1, <3>2, <3>3 DEF Learns, Knows
    <3>. QED BY <3>4, <3>5
  <2>. QED BY <2>1, <2>2
<1>7. ScoreInv'
  <2>. SUFFICES ASSUME NEW y \in Actors PROVE Down(y)'
    BY DEF ScoreInv
  <2>1. CASE y = x
    BY <2>1 DEF Learns
  <2>2. CASE y # x
    <3>1. task'[y] = task[y]
      BY <1>1, <2>2
    <3>2. SUFFICES ASSUME task[y].pc = "score", task[y].target \in Containers
                   PROVE  task[y].target \notin rows' /\ docker'[task[y].target] \in {"dead", "removed"}
      BY <3>1 DEF Down, Stopped
    <3>3. PICK c \in Containers : c = task[y].target
      BY <3>2
    <3>4. c \notin rows /\ Stopped(c)
      BY <3>2, <3>3 DEF ScoreInv, Down
    <3>5. Stopped(c)'
      BY <3>4 DEF Grows
    <3>6. c \notin rows'
      <4>1. CASE rows' \subseteq rows
        BY <3>4, <4>1
      <4>2. CASE ~(rows' \subseteq rows)
        <5>1. /\ x \in Requests /\ InHand(x, task[x].target)
              /\ task[x].target \in Containers /\ rows' = rows \cup {task[x].target}
          BY <1>5, <4>2 DEF Learns
        <5>2. ~Knows(y, task[x].target)
          BY <2>2, <5>1 DEF HandInv
        <5>. QED BY <3>3, <3>4, <5>1, <5>2 DEF Knows
      <4>. QED BY <4>1, <4>2
    <3>. QED BY <3>3, <3>5, <3>6 DEF Stopped
  <2>. QED BY <2>1, <2>2
<1>. QED BY <1>6, <1>7

-----------------------------------------------------------------------------
(* Steps of handlers.                                                      *)

\* Nothing new is learned, and nothing taken in hand.
Plain(x) ==
  /\ task' = [task EXCEPT ![x] = task'[x]]
  /\ task'[x].target \in {task[x].target, NoContainer}
  /\ task'[x].todo \subseteq task[x].todo
  /\ task'[x].pc \notin StartedPCs \cup {"score"}

LEMMA PlainLearns ==
  ASSUME NEW x \in Actors, Plain(x), rows' \subseteq rows
  PROVE  Learns(x)
  BY StoreAssumption DEF Plain, Learns, Knows, Down

LEMMA ReturnPlain ==
  ASSUME TypeInv, NEW x \in Actors, Return(x)
  PROVE  Plain(x)
  BY DEF Return, Begin, Plain, Idle, NewTask, StartedPCs, TypeInv, TaskOK

LEMMA GotoPlain ==
  ASSUME TypeInv, NEW x \in Actors, NEW p \in PCs \ (StartedPCs \cup {"score"}),
         Goto(x, p)
  PROVE  Plain(x)
  BY DEF Goto, Plain, TypeInv, TaskOK, Tasks

LEMMA RefusedPlain ==
  ASSUME TypeInv, NEW x \in Actors, KillRefused(x)
  PROVE  Plain(x)
<1>1. CASE Batch(x)
  BY <1>1 DEF KillRefused, Plain, StartedPCs, TypeInv, TaskOK, Tasks
<1>2. CASE ~Batch(x)
  BY <1>2, ReturnPlain DEF KillRefused
<1>. QED BY <1>1, <1>2

LEMMA LaunchLearns ==
  ASSUME TypeInv, RowInv, HandInv, NEW r \in Requests, LaunchStep(r) \/ LaunchFault(r)
  PROVE  Learns(r)
<1>0. /\ r \in Actors /\ task[r] \in Tasks /\ task \in [Actors -> Tasks]
      /\ rows \subseteq Containers
  BY TaskFacts DEF Actors, TypeInv, TypeOK, TaskOK
<1> USE <1>0 DEF At
<1>1. ASSUME NEW p \in PCs \ (StartedPCs \cup {"score"}), Goto(r, p), rows' \subseteq rows
      PROVE  Learns(r)
  BY <1>1, GotoPlain, PlainLearns
<1>2. CASE AcquireLaunchLock(r)
  BY <1>1, <1>2 DEF AcquireLaunchLock, dbVars, PCs, StartedPCs
<1>3. CASE LaunchLockTimeout(r) \/ ReleaseLaunchLock(r)
  BY <1>3, ReturnPlain, PlainLearns DEF LaunchLockTimeout, ReleaseLaunchLock, dbVars
<1>4. CASE ReadAccount(r)
  <2>1. CASE task[r].slot \in solved
    BY <1>4, <2>1, <1>1 DEF ReadAccount, dbVars, PCs, StartedPCs
  <2>2. CASE task[r].slot \notin solved
    <3>1. /\ task' = [task EXCEPT ![r] = task'[r]] /\ rows' = rows
          /\ task'[r].target = task[r].target /\ task'[r].todo \subseteq rows
          /\ task'[r].pc = "prune"
      BY <1>4, <2>2 DEF ReadAccount, RowsOf, Tasks, dbVars
    <3>. QED BY <3>1 DEF Learns, Knows, Down, StartedPCs
  <2>. QED BY <2>1, <2>2
<1>5. CASE \E c \in Containers : PruneCheck(r, c)
  <2>1. PICK c \in Containers : PruneCheck(r, c)
    BY <1>5
  <2>2. rows' = rows
    BY <2>1 DEF PruneCheck, dbVars
  <2>3. CASE Goto(r, "unlock")
    BY <2>2, <2>3, <1>1 DEF PCs, StartedPCs
  <2>4. CASE ~Goto(r, "unlock")
    <3>1. Plain(r)
      BY <2>1, <2>4 DEF PruneCheck, Plain, Tasks, StartedPCs
    <3>. QED BY <2>2, <3>1, PlainLearns
  <2>. QED BY <2>3, <2>4
<1>6. CASE CommitPrune(r)
  BY <1>6, <1>1 DEF CommitPrune, DeleteRows, PCs, StartedPCs
<1>7. CASE Decide(r) \/ ReloadFails(r) \/ RefuseLaunch(r) \/ DiscardContainer(r)
            \/ (\E c \in Containers : RunReplyLost(r, c))
  BY <1>7, <1>1 DEF Decide, ReloadFails, RefuseLaunch, DiscardContainer, RunReplyLost,
     dbVars, PCs, StartedPCs
<1>8. CASE \E c \in Containers : RunContainer(r, c)
  <2>1. PICK c \in Containers : RunContainer(r, c)
    BY <1>8
  <2>2. /\ task' = [task EXCEPT ![r] = task'[r]] /\ rows' = rows
        /\ task'[r].target = c /\ task'[r].todo = task[r].todo
        /\ task'[r].pc = "health" /\ docker[c] = "unused"
    BY <2>1 DEF RunContainer, StartContainer, Tasks, dbVars
  <2>. QED BY <2>2 DEF Learns, Knows, Down
<1>9. CASE \/ HealthPassed(r) \/ HealthFailed(r) \/ ReadPort(r)
           \/ LaunchConnectionLost(r)
  <2>1. rows' = rows
    BY <1>9 DEF HealthPassed, HealthFailed, ReadPort, LaunchConnectionLost, dbVars
  <2>2. CASE Goto(r, "unlock")
    BY <2>1, <2>2, <1>1 DEF PCs, StartedPCs
  <2>3. CASE ~Goto(r, "unlock")
    <3>1. /\ task' = [task EXCEPT ![r] = task'[r]]
          /\ task'[r].target = task[r].target /\ task'[r].todo = task[r].todo
          /\ task[r].pc \in StartedPCs /\ task'[r].pc \in {"port", "record", "discard"}
      BY <1>9, <2>3 DEF HealthPassed, HealthFailed, ReadPort, LaunchConnectionLost, Goto,
         Tasks, StartedPCs
    <3>. QED BY <2>1, <3>1 DEF Learns, Knows, Down
  <2>. QED BY <2>2, <2>3
<1>10. CASE RecordInstance(r) \/ LaunchCommitLost(r)
  <2>1. CASE rows' \subseteq rows /\ Goto(r, "unlock")
    BY <2>1, <1>1 DEF PCs, StartedPCs
  <2>2. CASE rows' \subseteq rows /\ Goto(r, "discard") /\ ~Goto(r, "unlock")
    <3>1. /\ task' = [task EXCEPT ![r] = task'[r]]
          /\ task'[r].target = task[r].target /\ task'[r].todo = task[r].todo
          /\ task[r].pc = "record" /\ task'[r].pc = "discard"
      BY <1>10, <2>2 DEF RecordInstance, LaunchCommitLost, Goto, Tasks
    <3>. QED BY <2>2, <3>1 DEF Learns, Knows, Down, StartedPCs
  <2>3. CASE ~(rows' \subseteq rows)
    <3>1. /\ task[r].pc = "record" /\ Goto(r, "unlock")
          /\ rows' = rows \cup {task[r].target}
      BY <1>10, <2>3 DEF RecordInstance, LaunchCommitLost, DeleteRows
    <3>2. Plain(r)
      BY <3>1, GotoPlain DEF PCs, StartedPCs
    <3>. QED BY <3>1, <3>2, StoreAssumption DEF Plain, Learns, Knows, Down
  <2>. QED
    BY <1>10, <2>1, <2>2, <2>3 DEF RecordInstance, LaunchCommitLost
<1>. QED
  BY <1>2, <1>3, <1>4, <1>5, <1>6, <1>7, <1>8, <1>9, <1>10 DEF LaunchStep, LaunchFault

LEMMA TeardownLearns ==
  ASSUME TypeInv, RowInv, NEW x \in Actors, TeardownStep(x) \/ TeardownFault(x)
  PROVE  Learns(x)
<1>0. /\ task[x] \in Tasks /\ task \in [Actors -> Tasks] /\ TaskInv(x)
  BY TaskFacts DEF TypeInv, TaskOK, RowInv
<1> USE <1>0 DEF At
<1>1. ASSUME NEW p \in PCs \ (StartedPCs \cup {"score"}), Goto(x, p), rows' \subseteq rows
      PROVE  Learns(x)
  BY <1>1, GotoPlain, PlainLearns
<1>2. ASSUME Return(x) \/ KillRefused(x), rows' \subseteq rows
      PROVE  Learns(x)
  BY <1>2, ReturnPlain, RefusedPlain, PlainLearns
<1>3. CASE Inspect(x)
  BY <1>1, <1>2, <1>3 DEF Inspect, dbVars, PCs, StartedPCs
<1>4. CASE Signal(x) \/ CheckRunning(x) \/ ReloadForKill(x) \/ TeardownConnectionLost(x)
  BY <1>1, <1>2, <1>4 DEF Signal, CheckRunning, ReloadForKill, TeardownConnectionLost,
     dbVars, PCs, StartedPCs
<1>5. CASE CommitRenew(x) \/ Score(x) \/ FinishBatch(x)
  BY <1>2, <1>5, LeaveReturns DEF CommitRenew, Score, FinishBatch, dbVars
<1>6. CASE TeardownCommitLost(x)
  BY <1>2, <1>6, LeaveReturns DEF TeardownCommitLost, DeleteRows
<1>7. CASE \E c \in Containers : TakeNext(x, c)
  <2>1. PICK c \in Containers : TakeNext(x, c)
    BY <1>7
  <2>2. /\ task' = [task EXCEPT ![x] = task'[x]] /\ rows' = rows
        /\ task'[x].target = c /\ c \in task[x].todo
        /\ task'[x].todo \subseteq task[x].todo /\ task'[x].pc = "inspect"
    BY <2>1 DEF TakeNext, Tasks, dbVars
  <2>. QED BY <2>2 DEF Learns, Knows, Down, StartedPCs
<1>8. CASE \E c \in Containers : NextIsGone(x, c)
  <2>1. PICK c \in Containers : NextIsGone(x, c)
    BY <1>8
  <2>2. CASE task[x].op = "purge"
    <3>1. Plain(x) /\ rows' = rows
      BY <2>1, <2>2 DEF NextIsGone, Plain, Tasks, StartedPCs, dbVars
    <3>. QED BY <3>1, PlainLearns
  <2>3. CASE task[x].op # "purge"
    BY <1>2, <2>1, <2>3, LeaveReturns DEF NextIsGone, dbVars
  <2>. QED BY <2>2, <2>3
<1>9. CASE Cleanup(x)
  <2>1. /\ rows' = rows \ {task[x].target} /\ Stopped(task[x].target)
        /\ UNCHANGED docker
    BY <1>9 DEF Cleanup, DeleteRows, TaskInv, dockerVars
  <2>2. CASE Return(x)
    BY <1>2, <2>1, <2>2
  <2>3. CASE Goto(x, "score")
    <3>1. /\ task' = [task EXCEPT ![x] = task'[x]]
          /\ task'[x].target = task[x].target /\ task'[x].todo = task[x].todo
          /\ task'[x].pc = "score"
      BY <2>3 DEF Goto, Tasks
    <3>. QED BY <2>1, <3>1 DEF Learns, Knows, Down, StartedPCs, Stopped
  <2>4. CASE ~Return(x) /\ ~Goto(x, "score")
    <3>1. Plain(x)
      BY <1>9, <2>4 DEF Cleanup, AfterCleanup, Plain, Tasks, StartedPCs
    <3>. QED BY <2>1, <3>1, PlainLearns
  <2>. QED BY <2>2, <2>3, <2>4
<1>. QED
  BY <1>3, <1>4, <1>5, <1>6, <1>7, <1>8, <1>9 DEF TeardownStep, TeardownFault

\* A handler that arrives knows of rows only.
LEMMA ArriveLearns ==
  ASSUME TypeInv, NEW x \in Actors, UNCHANGED <<dockerVars, rows>>,
         NEW p \in PCs \ StartedPCs, NEW o, NEW s,
         NEW c \in rows \cup {NoContainer}, NEW b \in SUBSET rows,
         p = "score" => c = NoContainer,
         Begin(x, NewTask(p, o, s, c, b))
  PROVE  Learns(x)
<1>1. /\ task'[x].pc = p /\ task'[x].target = c /\ task'[x].todo = b
      /\ task' = [task EXCEPT ![x] = task'[x]]
  BY DEF Begin, NewTask, TypeInv, TaskOK
<1>. QED BY <1>1, StoreAssumption DEF Learns, Knows, Down

\* Docker and the clock know no containers; every other step is somebody's.
LEMMA HandStep ==
  ASSUME TypeInv, RowInv, HandInv, ScoreInv, [Next]_vars
  PROVE  HandInv' /\ ScoreInv'
<1>0. Grows
  BY StepGood DEF Good
<1>1. ASSUME NEW r \in Requests, Arrive(r) PROVE Learns(r)
  <2>0. r \in Actors /\ {} \in SUBSET rows /\ PCs \ StartedPCs =
          {"idle", "lockwait", "locked", "prune", "reload", "launch", "unlock", "next",
           "inspect", "signal", "cleanup", "check", "renew", "attempt", "score"}
    BY DEF Actors, PCs, StartedPCs
  <2>1. CASE \E s \in Slots : ArriveLaunch(r, s)
    BY <1>1, <2>0, <2>1, ArriveLearns DEF ArriveLaunch, dbVars
  <2>2. CASE \E s \in Slots : StopInstance(r, s) \/ Examine(r, s, "view")
                                \/ Examine(r, s, "renew")
    BY <1>1, <2>0, <2>2, ArriveLearns DEF StopInstance, Examine, RowsAt, dbVars
  <2>3. CASE \E s \in Slots : SubmitFlag(r, s)
    BY <1>1, <2>0, <2>3, ArriveLearns DEF SubmitFlag, RowsAt, dbVars
  <2>4. CASE \E c \in Containers : AdminKill(r, c)
    BY <1>1, <2>0, <2>4, ArriveLearns DEF AdminKill, dbVars
  <2>5. CASE \E ids \in SUBSET rows : AdminPurge(r, ids)
    BY <1>1, <2>0, <2>5, ArriveLearns DEF AdminPurge, dbVars
  <2>. QED
    BY <1>1, <2>1, <2>2, <2>3, <2>4, <2>5 DEF Arrive
<1>2. ASSUME NEW x \in Scanners, StartScan(x) PROVE Learns(x)
  <2>1. x \in Actors /\ due \in SUBSET rows /\ "next" \in PCs \ StartedPCs
    BY DEF Actors, TypeInv, TypeOK, PCs, StartedPCs
  <2>. QED
    BY <1>2, <2>1, ArriveLearns DEF StartScan, dbVars
<1>3. ASSUME NEW x \in Actors, Crash(x) PROVE Learns(x)
  BY <1>3, ReturnPlain, PlainLearns DEF Crash, dbVars
<1>4. CASE Environment \/ UNCHANGED vars
  <2>1. UNCHANGED <<rows, task>>
    BY <1>4 DEF Environment, BecomeHealthy, ExitContainer, AutoRemove, Tick, dbVars, vars
  <2>2. HandInv'
    BY <2>1 DEF HandInv, InHand, Knows
  <2>3. ASSUME NEW x \in Actors PROVE Down(x)'
    BY <1>0, <2>1 DEF ScoreInv, Down, Grows, Stopped
  <2>. QED BY <2>2, <2>3 DEF ScoreInv
<1>5. CASE \E x \in Actors : Learns(x)
  BY <1>0, <1>5, LearnsKeeps
<1>. QED
  BY <1>1, <1>2, <1>3, <1>4, <1>5, LaunchLearns, TeardownLearns DEF Next, Proceed, Actors

LEMMA HandHolds == Spec => [](HandInv /\ ScoreInv)
<1>1. Init => HandInv /\ ScoreInv
  BY DEF Init, StoreInit, HandInv, ScoreInv, InHand, Down, Idle, NewTask, StartedPCs, Actors
<1>2. TypeInv /\ RowInv /\ (HandInv /\ ScoreInv) /\ [Next]_vars => (HandInv /\ ScoreInv)'
  BY HandStep
<1>. QED BY <1>1, <1>2, TypeInvHolds, RowInvHolds, PTL DEF Spec

\* With or without advisory locks, and whatever fails: when a correct flag is
\* scored, its instance is down and off the record, and nobody has put it back
\* (ContainerChallenge.attempt kills before it returns "Correct").
THEOREM ScoredDown == Spec => []ScoredIsTornDown
<1>1. TypeInv /\ HandInv /\ ScoreInv => ScoredIsTornDown
  <2>. SUFFICES ASSUME TypeInv, ScoreInv, NEW r \in Requests, At(r, "score"),
                       task[r].target # NoContainer
                PROVE  task[r].target \notin rows /\ ~Running(task[r].target)
    BY DEF ScoredIsTornDown
  <2>1. r \in Actors /\ task[r].target \in Containers
    BY DEF Actors, TypeInv, TaskOK, Tasks
  <2>. QED BY <2>1 DEF ScoreInv, Down, Stopped, Running, At
<1>. QED BY <1>1, TypeInvHolds, HandHolds, PTL

-----------------------------------------------------------------------------
(* Without faults, a launch ends in a row or in a kill.                    *)

LEMMA HeldOn ==
  ASSUME Faults = {}, TypeInv, RowInv, HandInv, [Next]_vars,
         NEW r \in Requests, NEW c \in Containers, InHand(r, c)
  PROVE  InHand(r, c)' \/ c \in rows' \/ ~Running(c)'
<1>0. /\ r \in Actors /\ task[r] \in Tasks /\ task \in [Actors -> Tasks]
      /\ task[r].pc \in StartedPCs /\ task[r].target = c
  BY DEF InHand, Actors, TypeInv, TaskOK
<1> USE <1>0 DEF At
<1>1. CASE task'[r] = task[r]
  BY <1>1 DEF InHand
<1>2. CASE \E q \in Requests : Arrive(q)
  <2>1. PICK q \in Requests : Arrive(q)
    BY <1>2
  <2>2. q # r /\ \E t : Begin(q, t)
    BY <2>1 DEF Arrive, ArriveLaunch, StopInstance, Examine, SubmitFlag, AdminKill,
       AdminPurge, StartedPCs
  <2>. QED BY <1>1, <2>2 DEF Begin
<1>3. CASE \E x \in Scanners : StartScan(x)
  BY <1>1, <1>3 DEF StartScan, Begin, StartedPCs
<1>4. ASSUME NEW x \in Actors, Proceed(x), x # r
      PROVE  task'[r] = task[r]
  <2>1. Learns(x)
    BY <1>4, LaunchLearns, TeardownLearns DEF Proceed
  <2>. QED BY <1>4, <2>1 DEF Learns
<1>5. CASE TeardownStep(r)
  BY <1>5 DEF TeardownStep, Inspect, Signal, Cleanup, TakeNext, NextIsGone, FinishBatch,
     CheckRunning, CommitRenew, ReloadForKill, Score, StartedPCs
<1>6. CASE LaunchStep(r)
  <2>1. CASE HealthPassed(r) \/ HealthFailed(r) \/ ReadPort(r)
    <3>1. task'[r].target = c /\ task'[r].pc \in {"port", "record", "discard"}
      BY <2>1 DEF HealthPassed, HealthFailed, ReadPort, Goto, Tasks
    <3>. QED BY <3>1 DEF InHand, StartedPCs
  <2>2. CASE RecordInstance(r)
    <3>1. CASE Goto(r, "discard")
      BY <3>1 DEF Goto, InHand, StartedPCs, Tasks
    <3>2. CASE ~Goto(r, "discard")
      BY <2>2, <3>2 DEF RecordInstance
    <3>. QED BY <3>1, <3>2
  <2>3. CASE DiscardContainer(r)
    BY <2>3 DEF DiscardContainer, Kill, Running, TypeInv, TypeOK
  <2>. QED
    BY <1>6, <2>1, <2>2, <2>3 DEF LaunchStep, AcquireLaunchLock, LaunchLockTimeout,
       ReadAccount, PruneCheck, CommitPrune, Decide, ReloadFails, RefuseLaunch,
       RunContainer, ReleaseLaunchLock, StartedPCs
<1>7. CASE Environment \/ UNCHANGED vars
  BY <1>1, <1>7 DEF Environment, BecomeHealthy, ExitContainer, AutoRemove, Tick, vars
<1>8. /\ \A x \in Actors : ~TeardownFault(x) /\ ~Crash(x)
      /\ \A q \in Requests : ~LaunchFault(q)
  BY DEF TeardownFault, TeardownConnectionLost, TeardownCommitLost, Crash, LaunchFault,
     RunReplyLost, LaunchConnectionLost, LaunchCommitLost
<1>9. CASE \E x \in Actors : Proceed(x)
  BY <1>1, <1>4, <1>5, <1>6, <1>9 DEF Proceed
<1>. QED
  BY <1>2, <1>3, <1>7, <1>8, <1>9 DEF Next

LEMMA OnlyStarted ==
  ASSUME Faults = {}, TypeInv, [Next]_vars,
         NEW c \in Containers, docker[c] = "unused", Running(c)'
  PROVE  \E r \in Requests : InHand(r, c)'
<1>1. docker' # docker
  BY DEF Running
<1>2. PICK r \in Requests, d \in Containers : RunContainer(r, d) /\ d = c
  <2>1. \A x \in Actors : ~TeardownFault(x)
    BY DEF TeardownFault, TeardownConnectionLost, TeardownCommitLost
  <2>2. \A q \in Requests : ~LaunchFault(q)
    BY DEF LaunchFault, RunReplyLost, LaunchConnectionLost, LaunchCommitLost
  <2>3. \A d \in Containers :
          /\ docker' # [docker EXCEPT ![d] = "dead"]
          /\ docker' = [docker EXCEPT ![d] = "healthy"] => docker[d] # "starting"
          /\ docker' # [docker EXCEPT ![d] = "removed"]
    BY DEF Running, TypeInv, TypeOK
  <2>4. ASSUME Environment PROVE FALSE
    <3>1. PICK d \in Containers :
            BecomeHealthy(d) \/ ExitContainer(d) \/ AutoRemove(d) \/ Tick(d)
      BY <2>4 DEF Environment
    <3>2. ~Tick(d)
      BY <1>1 DEF Tick, dockerVars
    <3>3. \/ docker' = [docker EXCEPT ![d] = "dead"]
          \/ docker[d] = "starting" /\ docker' = [docker EXCEPT ![d] = "healthy"]
          \/ docker[d] = "dead" /\ docker' = [docker EXCEPT ![d] = "removed"]
      BY <3>1, <3>2 DEF BecomeHealthy, ExitContainer, AutoRemove
    <3>. QED BY <2>3, <3>3
  <2>5. ASSUME NEW x \in Actors, TeardownStep(x) PROVE FALSE
    <3>1. Signal(x)
      BY <1>1, <2>5 DEF TeardownStep, Inspect, Cleanup, TakeNext, NextIsGone,
         FinishBatch, CheckRunning, CommitRenew, ReloadForKill, Score, dockerVars
    <3>2. task[x].target \in Containers
      BY <3>1, TaskFacts DEF Signal, At, TargetPCs
    <3>3. PICK d \in Containers : d = task[x].target
      BY <3>2
    <3>. QED BY <1>1, <2>3, <3>1, <3>3 DEF Signal, Kill
  <2>6. ASSUME NEW r \in Requests, LaunchStep(r)
        PROVE  \E d \in Containers : RunContainer(r, d) /\ d = c
    <3>1. DiscardContainer(r) \/ \E d \in Containers : RunContainer(r, d)
      BY <1>1, <2>6 DEF LaunchStep, AcquireLaunchLock, LaunchLockTimeout, ReadAccount,
         PruneCheck, CommitPrune, Decide, ReloadFails, RefuseLaunch, HealthPassed,
         HealthFailed, ReadPort, RecordInstance, ReleaseLaunchLock, dockerVars
    <3>2. ~DiscardContainer(r)
      <4>1. r \in Actors
        BY DEF Actors
      <4>2. DiscardContainer(r) => task[r].target \in Containers
        BY <4>1, TaskFacts DEF DiscardContainer, At, TargetPCs
      <4>3. SUFFICES ASSUME DiscardContainer(r) PROVE FALSE
        OBVIOUS
      <4>4. PICK d \in Containers : d = task[r].target
        BY <4>2, <4>3
      <4>. QED BY <1>1, <2>3, <4>3, <4>4 DEF DiscardContainer, Kill
    <3>3. PICK d \in Containers : RunContainer(r, d)
      BY <3>1, <3>2
    <3>4. d = c
      BY <3>3 DEF RunContainer, StartContainer, Running, TypeInv, TypeOK
    <3>. QED BY <3>3, <3>4
  <2>7. \E x \in Actors : Proceed(x)
    BY <1>1, <2>1, <2>2, <2>4 DEF Next, vars, Arrive, ArriveLaunch, StopInstance,
       Examine, SubmitFlag, AdminKill, AdminPurge, StartScan, Crash, dockerVars
  <2>. QED BY <2>5, <2>6, <2>7 DEF Proceed
<1>3. r \in Actors /\ task \in [Actors -> Tasks]
  BY DEF Actors, TypeInv, TaskOK
<1>. QED
  BY <1>2, <1>3 DEF RunContainer, InHand, StartedPCs, Tasks

LEMMA OrphanStep ==
  ASSUME Faults = {}, TypeInv, TypeInv', RowInv, HandInv, NoOrphans, [Next]_vars
  PROVE  NoOrphans'
<1>0. \A r \in Requests, c \in Containers :
        InHand(r, c) <=> /\ task[r].target = c
                         /\ task[r].pc \in {"health", "port", "record", "discard"}
  BY DEF InHand, StartedPCs
<1>1. SUFFICES ASSUME NEW c \in Containers, Running(c)', c \notin rows'
               PROVE  \E r \in Requests : InHand(r, c)'
  BY DEF NoOrphans, InHand, StartedPCs
<1>2. CASE docker[c] = "unused"
  BY <1>1, <1>2, OnlyStarted
<1>3. CASE docker[c] # "unused"
  <2>1. Running(c)
    <3>1. Grows
      BY StepGood DEF Good
    <3>. QED
      BY <1>1, <1>3, <3>1 DEF Grows, Stopped, Running, DockerStates, TypeInv, TypeOK
  <2>2. c \notin rows
    BY <1>1, <2>1, StepGood DEF Good, Forgets
  <2>3. PICK r \in Requests : InHand(r, c)
    BY <1>0, <2>1, <2>2 DEF NoOrphans
  <2>. QED BY <1>1, <2>3, HeldOn
<1>. QED BY <1>2, <1>3

\* With or without advisory locks, and as long as no connection and no process
\* is lost, a container that runs without a row belongs to a launch in
\* progress: create_container ends in a row or in a kill.
THEOREM OrphansAreLaunching == Faults = {} => (Spec => []NoOrphans)
<1> SUFFICES ASSUME Faults = {} PROVE Spec => []NoOrphans
  OBVIOUS
<1>1. Init => NoOrphans
  <2> SUFFICES ASSUME Init PROVE NoOrphans
    OBVIOUS
  <2>. QED
    BY StoreAssumption DEF Init, StoreInit, NoOrphans, Running
<1>2. TypeInv /\ TypeInv' /\ RowInv /\ (HandInv /\ ScoreInv) /\ NoOrphans /\ [Next]_vars
        => NoOrphans'
  BY OrphanStep
<1>. QED
  BY <1>1, <1>2, TypeInvHolds, RowInvHolds, HandHolds, PTL DEF Spec

-----------------------------------------------------------------------------
\* Only the holder of the account's lock has a container in hand, and it was
\* admitted with room for one more.
LEMMA OneInHand ==
  ASSUME TypeInv, CapInv, NoOrphans, NEW a \in Accounts,
         NEW c \in Containers, Running(c), slotOf[c][1] = a, c \notin rows
  PROVE  /\ Cardinality(AccountRows(rows, slotOf, a)) < MaxContainers
         /\ launchLock[a] \in Requests /\ task[launchLock[a]].target = c
<1>1. PICK r \in Requests :
        /\ task[r].target = c
        /\ task[r].pc \in {"health", "port", "record", "discard"}
  BY DEF NoOrphans
<1>2. task[r].slot[1] = a
  BY <1>1 DEF CapInv, LaunchFits
<1>. QED
  BY <1>1, <1>2 DEF CapInv, LaunchFits, LockedPCs, LaunchPCs

LEMMA RunningFits ==
  ASSUME TypeInv, CapInv, NoOrphans
  PROVE  RunningWithinCapacity
<1> SUFFICES ASSUME NEW a \in Accounts
             PROVE  Cardinality({c \in Containers : Running(c) /\ slotOf[c][1] = a})
                      <= MaxContainers
  BY DEF RunningWithinCapacity
<1> DEFINE live == {c \in Containers : Running(c) /\ slotOf[c][1] = a}
           mine == AccountRows(rows, slotOf, a)
<1>1. /\ rows \in SUBSET Containers
      /\ IsFiniteSet(mine) /\ Cardinality(mine) \in Nat
      /\ Cardinality(mine) <= MaxContainers
  <2>1. rows \in SUBSET Containers /\ RowsOf(a) = mine
    BY DEF TypeInv, TypeOK, RowsOf, AccountRows
  <2>2. Cardinality(RowsOf(a)) <= MaxContainers
    BY DEF CapInv, WithinLimit
  <2>. QED BY <2>1, <2>2, AccountRowsFinite
<1>2. CASE live \subseteq rows
  <2>1. live \subseteq mine
    BY <1>2 DEF AccountRows
  <2>2. Cardinality(live) <= Cardinality(mine) /\ Cardinality(live) \in Nat
    <3> HIDE DEF live, mine
    <3>. QED BY <1>1, <2>1, FS_Subset, FS_CardinalityType
  <2>. QED BY <1>1, <2>2, StoreAssumption
<1>3. CASE ~(live \subseteq rows)
  <2>1. PICK c \in live : c \notin rows
    BY <1>3
  <2>2. /\ c \in Containers /\ slotOf[c][1] = a
        /\ Cardinality(mine) < MaxContainers /\ task[launchLock[a]].target = c
    BY <2>1, OneInHand
  <2>3. ASSUME NEW d \in live, d \notin rows PROVE d = c
    BY <2>2, <2>3, OneInHand
  <2>4. live \subseteq AccountRows(rows \cup {c}, slotOf, a)
    BY <2>2, <2>3 DEF AccountRows
  <2>5. /\ Cardinality(AccountRows(rows \cup {c}, slotOf, a)) <= Cardinality(mine) + 1
        /\ IsFiniteSet(AccountRows(rows \cup {c}, slotOf, a))
        /\ Cardinality(AccountRows(rows \cup {c}, slotOf, a)) \in Nat
    BY <1>1, <2>2, OneMoreRow, AccountRowsFinite
  <2>6. /\ Cardinality(live) \in Nat
        /\ Cardinality(live) <= Cardinality(AccountRows(rows \cup {c}, slotOf, a))
    <3> HIDE DEF live
    <3>. QED BY <2>4, <2>5, FS_Subset, FS_CardinalityType
  <2>7. Cardinality(live) <= MaxContainers
    <3> HIDE DEF live, mine
    <3>. QED BY <1>1, <2>2, <2>5, <2>6, StoreAssumption
  <2>. QED BY <2>7
<1>. QED BY <1>2, <1>3

\* With the advisory locks of MySQL, and as long as no connection and no
\* process is lost, the limit holds for the containers that really run, the
\* ones still waiting for their health check or their kill included.
THEOREM RunningIsBounded == Faults = {} => (Spec => []RunningWithinCapacity)
<1> SUFFICES ASSUME Faults = {} PROVE Spec => []RunningWithinCapacity
  OBVIOUS
<1>1. TypeInv /\ LockedInv /\ NoOrphans => RunningWithinCapacity
  BY RunningFits DEF LockedInv, RunningWithinCapacity
<1>2. Spec => []NoOrphans
  BY OrphansAreLaunching
<1>. QED
  BY <1>1, <1>2, TypeInvHolds, LockedInvHolds, PTL

-----------------------------------------------------------------------------
(* The instance lifecycle implements InstanceService: every step of every  *)
(* handler, scan, fault and crash is a step of the service, or none.       *)

\* A container belongs to nobody before it is started.
UnusedUnowned == \A c \in Containers : docker[c] = "unused" => slotOf[c] = NoSlot

-----------------------------------------------------------------------------
(* The four ways in which a step may touch containers and rows.            *)

Starts == \E r \in Requests, c \in Containers :
            At(r, "launch") /\ StartContainer(r, c) /\ UNCHANGED rows

Records == \E r \in Requests :
             /\ At(r, "record")
             /\ ~SlotTaken(task[r].slot)
             /\ rows' = rows \cup {task[r].target}
             /\ UNCHANGED dockerVars

Deletes == rows' \subseteq rows /\ UNCHANGED dockerVars

Ages == /\ UNCHANGED <<slotOf, rows>>
        /\ \E c \in Containers :
             \/ docker' = [docker EXCEPT ![c] = "dead"]
             \/ docker[c] = "starting" /\ docker' = [docker EXCEPT ![c] = "healthy"]
             \/ docker[c] = "dead" /\ docker' = [docker EXCEPT ![c] = "removed"]

LEMMA LaunchShape ==
  ASSUME TypeInv, NEW r \in Requests, LaunchStep(r) \/ LaunchFault(r)
  PROVE  Starts \/ Records \/ Deletes \/ Ages
<1> USE DEF At
<1>1. CASE \E c \in Containers : RunContainer(r, c) \/ RunReplyLost(r, c)
  BY <1>1 DEF RunContainer, RunReplyLost, Starts, dbVars
<1>2. CASE RecordInstance(r) \/ LaunchCommitLost(r)
  BY <1>2 DEF RecordInstance, LaunchCommitLost, DeleteRows, Records, Deletes
<1>3. CASE DiscardContainer(r)
  <2>1. task[r].target \in Containers
    BY <1>3, TaskFacts DEF DiscardContainer, Actors, TargetPCs
  <2>. QED
    BY <1>3, <2>1 DEF DiscardContainer, Kill, Ages, Deletes, dbVars, dockerVars
<1>4. CASE CommitPrune(r)
  BY <1>4 DEF CommitPrune, DeleteRows, Deletes
<1>. QED
  BY <1>1, <1>2, <1>3, <1>4
     DEF LaunchStep, LaunchFault, AcquireLaunchLock, LaunchLockTimeout, ReadAccount,
     PruneCheck, Decide, ReloadFails, RefuseLaunch, HealthPassed, HealthFailed,
     ReadPort, ReleaseLaunchLock, LaunchConnectionLost, Deletes, dbVars

LEMMA TeardownShape ==
  ASSUME TypeInv, NEW x \in Actors, TeardownStep(x) \/ TeardownFault(x)
  PROVE  Deletes \/ Ages
<1>1. CASE Signal(x) \/ TeardownConnectionLost(x)
  <2>1. task[x].pc = "signal" => task[x].target \in Containers
    BY TaskFacts DEF TargetPCs
  <2>. QED
    BY <1>1, <2>1 DEF Signal, TeardownConnectionLost, Kill, At, Ages, Deletes, dbVars,
       dockerVars
<1>2. CASE Cleanup(x) \/ TeardownCommitLost(x)
  BY <1>2 DEF Cleanup, TeardownCommitLost, DeleteRows, Deletes
<1>. QED
  BY <1>1, <1>2
     DEF TeardownStep, TeardownFault, Inspect, TakeNext, NextIsGone, FinishBatch,
     CheckRunning, CommitRenew, ReloadForKill, Score, Deletes, dbVars

LEMMA StepShape ==
  ASSUME TypeInv, [Next]_vars
  PROVE  Starts \/ Records \/ Deletes \/ Ages
<1>1. CASE \E r \in Requests : Arrive(r)
  BY <1>1 DEF Arrive, ArriveLaunch, StopInstance, Examine, SubmitFlag, AdminKill,
     AdminPurge, Deletes, dbVars
<1>2. CASE \E x \in Scanners : StartScan(x)
  BY <1>2 DEF StartScan, Deletes, dbVars
<1>3. CASE \E x \in Actors : Proceed(x) \/ TeardownFault(x)
  BY <1>3, LaunchShape, TeardownShape DEF Proceed
<1>4. CASE \E r \in Requests : LaunchFault(r)
  BY <1>4, LaunchShape
<1>5. CASE (\E x \in Actors : Crash(x)) \/ UNCHANGED vars
  BY <1>5 DEF Crash, Deletes, vars, dbVars
<1>6. CASE Environment
  BY <1>6 DEF Environment, BecomeHealthy, ExitContainer, AutoRemove, Tick, Ages, Deletes,
     dbVars, dockerVars
<1>. QED
  BY <1>1, <1>2, <1>3, <1>4, <1>5, <1>6 DEF Next

-----------------------------------------------------------------------------
LEMMA UnusedStep ==
  ASSUME TypeInv, UnusedUnowned, [Next]_vars
  PROVE  UnusedUnowned'
<1>1. docker \in [Containers -> DockerStates] /\ slotOf \in [Containers -> Slots \cup {NoSlot}]
  BY DEF TypeInv, TypeOK
<1>2. CASE Starts
  BY <1>1, <1>2 DEF Starts, StartContainer, UnusedUnowned
<1>3. CASE Records \/ Deletes
  BY <1>3 DEF Records, Deletes, dockerVars, UnusedUnowned
<1>4. CASE Ages
  BY <1>1, <1>4 DEF Ages, UnusedUnowned
<1>. QED BY <1>2, <1>3, <1>4, StepShape

LEMMA UnusedHolds == Spec => []UnusedUnowned
<1>1. Init => UnusedUnowned
  BY StoreAssumption DEF Init, StoreInit, UnusedUnowned
<1>2. TypeInv /\ UnusedUnowned /\ [Next]_vars => UnusedUnowned'
  BY UnusedStep
<1>. QED BY <1>1, <1>2, TypeInvHolds, PTL DEF Spec

-----------------------------------------------------------------------------
(* Each of the four is a step of the service.                              *)

\* The service counts as the lifecycle does.
LEMMA SameCardinality == \A S : Service!Cardinality(S) = Cardinality(S)
  BY DEF Service!Cardinality, Cardinality

LEMMA StartsRefines ==
  ASSUME TypeInv, UnusedUnowned, Starts
  PROVE  Service!ServiceNext
<1>1. PICK r \in Requests, c \in Containers :
        At(r, "launch") /\ StartContainer(r, c) /\ UNCHANGED rows
  BY DEF Starts
<1>2. task[r].slot \in Accounts \X Challenges
  BY <1>1, TaskFacts DEF Actors, At, LaunchPCs, Slots
<1>3. /\ docker[c] = "unused" /\ docker' = [docker EXCEPT ![c] = "starting"]
      /\ slotOf' = [slotOf EXCEPT ![c] = task[r].slot]
      /\ docker \in [Containers -> DockerStates]
  BY <1>1 DEF StartContainer, TypeInv, TypeOK
<1>4. {d \in Containers : Running(d)}' = {d \in Containers : Running(d)} \cup {c}
  BY <1>3 DEF Running
<1>5. PICK s \in Accounts \X Challenges : s = task[r].slot
  BY <1>2
<1>6. Service!BringUp(c, s)
  BY <1>1, <1>3, <1>4, <1>5 DEF Service!BringUp, UnusedUnowned
<1>. QED BY <1>5, <1>6 DEF Service!ServiceNext

LEMMA RecordsRefines ==
  ASSUME TypeInv, RowInv, CapInv, Records
  PROVE  Service!ServiceNext
<1>1. PICK r \in Requests :
        /\ task[r].pc = "record" /\ ~SlotTaken(task[r].slot)
        /\ rows' = rows \cup {task[r].target} /\ UNCHANGED dockerVars
  BY DEF Records, At
<1>2. /\ task[r].target \in Containers /\ task[r].slot \in Slots
      /\ slotOf[task[r].target] = task[r].slot
      /\ Cardinality(AccountRows(rows, slotOf, task[r].slot[1])) < MaxContainers
  BY <1>1, TaskFacts DEF Actors, TargetPCs, LaunchPCs, CapInv, LaunchFits
<1>3. PICK c \in Containers : c = task[r].target
  BY <1>2
<1>4. Service!Held(slotOf[c][1]) = AccountRows(rows, slotOf, task[r].slot[1])
  BY <1>2, <1>3 DEF Service!Held, AccountRows
<1>5. \A j \in rows : slotOf[j] # slotOf[c]
  BY <1>1, <1>2, <1>3 DEF SlotTaken, RowsAt
<1>6. UNCHANGED <<slotOf, {d \in Containers : Running(d)}>>
  BY <1>1 DEF dockerVars, Running
<1>7. Service!Cardinality(Service!Held(slotOf[c][1])) < MaxContainers
  BY <1>2, <1>4, SameCardinality
<1>8. c \notin rows /\ slotOf[c] # NoSlot /\ rows' = rows \cup {c}
  BY <1>1, <1>2, <1>3, <1>5, StoreAssumption
<1>9. Service!Grant(c)
  BY <1>5, <1>6, <1>7, <1>8 DEF Service!Grant
<1>. QED BY <1>9 DEF Service!ServiceNext

LEMMA DeletesRefines ==
  ASSUME TypeInv, Forgets, Deletes
  PROVE  Service!ServiceNext
<1>1. rows \ rows' \in SUBSET Containers
  BY DEF TypeInv, TypeOK
<1>2. PICK S \in SUBSET Containers : S = rows \ rows'
  BY <1>1
<1>3. UNCHANGED <<slotOf, {d \in Containers : Running(d)}>>
  BY DEF Deletes, dockerVars, Running
<1>4. Service!Withdraw(S)
  BY <1>2, <1>3 DEF Service!Withdraw, Forgets, Deletes
<1>. QED BY <1>4 DEF Service!ServiceNext

LEMMA AgesRefines ==
  ASSUME TypeInv, Ages
  PROVE  Service!ServiceNext \/ UNCHANGED Service!svars
<1>1. PICK c \in Containers :
        \/ docker' = [docker EXCEPT ![c] = "dead"]
        \/ docker[c] = "starting" /\ docker' = [docker EXCEPT ![c] = "healthy"]
        \/ docker[c] = "dead" /\ docker' = [docker EXCEPT ![c] = "removed"]
  BY DEF Ages
<1>2. docker \in [Containers -> DockerStates] /\ UNCHANGED <<slotOf, rows>>
  BY DEF Ages, TypeInv, TypeOK
<1>3. CASE docker' = [docker EXCEPT ![c] = "dead"]
  <2>1. {d \in Containers : Running(d)}' = {d \in Containers : Running(d)} \ {c}
    BY <1>2, <1>3 DEF Running
  <2>2. Service!GoDown(c)
    BY <1>2, <2>1 DEF Service!GoDown
  <2>. QED BY <2>2 DEF Service!ServiceNext
<1>4. CASE docker' # [docker EXCEPT ![c] = "dead"]
  <2>1. \A d \in Containers : Running(d)' <=> Running(d)
    BY <1>1, <1>2, <1>4 DEF Running
  <2>2. {d \in Containers : Running(d)}' = {d \in Containers : Running(d)}
    BY <2>1
  <2>. QED BY <1>2, <2>2 DEF Service!svars
<1>. QED BY <1>3, <1>4

LEMMA StepRefines ==
  ASSUME TypeInv, RowInv, CapInv, UnusedUnowned, [Next]_vars
  PROVE  [Service!ServiceNext]_(Service!svars)
<1>1. Forgets
  BY StepGood DEF Good
<1>. QED
  BY <1>1, StepShape, StartsRefines, RecordsRefines, DeletesRefines, AgesRefines

LEMMA InitRefines == Init => Service!ServiceInit
<1> SUFFICES ASSUME Init PROVE Service!ServiceInit
  OBVIOUS
<1>1. TypeInv /\ RowInv /\ CapInv
  BY TypeInit, RowInit, CapInit
<1>2. rows = Foreign /\ Foreign \subseteq Containers
  BY StoreAssumption DEF Init, StoreInit
<1>3. PICK f \in [Foreign -> Slots] :
        slotOf = [c \in Containers |-> IF c \in Foreign THEN f[c] ELSE NoSlot]
  BY DEF Init, StoreInit
<1>4. {c \in Containers : Running(c)} = rows
  BY <1>2 DEF Init, StoreInit, Running
<1>5. \A c \in rows : slotOf[c] # NoSlot
  BY <1>2, <1>3, StoreAssumption
<1>6. \A a \in Accounts : Service!Cardinality(Service!Held(a)) <= MaxContainers
  BY <1>1, SameCardinality DEF CapInv, WithinLimit, RowsOf, Service!Held
<1>7. /\ rows \subseteq Containers
      /\ slotOf \in [Containers -> (Accounts \X Challenges) \cup {NoSlot}]
  BY <1>1 DEF TypeInv, TypeOK, Slots
<1>8. \A c, d \in rows : slotOf[c] = slotOf[d] => c = d
  BY <1>1 DEF RowInv, StoreInv, OneInstancePerSlot
<1>. QED
  BY <1>4, <1>5, <1>6, <1>7, <1>8 DEF Service!ServiceInit

\* On a database with advisory locks the plugin is the service of
\* InstanceService, whoever launches, stops, purges, solves and scans, and
\* whatever replies, commits and processes are lost: it grants an instance
\* within the quota, one per challenge, and withdraws none that runs.
THEOREM ServiceImplemented ==
  Dialects = {"mysql"} => (Spec => ImplementsService)
<1> SUFFICES ASSUME Dialects = {"mysql"} PROVE Spec => ImplementsService
  OBVIOUS
<1>1. TypeInv /\ LockedInv => CapInv
  BY DEF TypeInv, TypeOK, LockedInv, AdvisoryLocks
<1>2. TypeInv /\ RowInv /\ CapInv /\ UnusedUnowned /\ [Next]_vars
        => [Service!ServiceNext]_(Service!svars)
  BY StepRefines
<1>. QED
  BY <1>1, <1>2, InitRefines, LockedInvHolds, TypeInvHolds, RowInvHolds, UnusedHolds, PTL
     DEF Spec, ImplementsService, Service!ServiceSpec
=============================================================================
