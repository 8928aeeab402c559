--------------------------- MODULE InstanceProofs ---------------------------
(***************************************************************************)
(* Theorems about the instance lifecycle, for any accounts, challenges,    *)
(* containers, requests, scanners, limit, locks and faults.                *)
(***************************************************************************)
EXTENDS Instances, FiniteSetTheorems, TLAPS

\* The program counters inside create_container, and those at which a task
\* has a container in hand.
LaunchPCs == {"lockwait", "locked", "prune", "reload", "launch", "health",
              "port", "record", "discard", "unlock"}

TargetPCs == {"health", "port", "record", "discard", "inspect", "signal",
              "cleanup", "check", "renew", "attempt"}

\* Between two steps a handler has in hand what its next step needs.
TaskFits(x, t) ==
  /\ t.pc = "idle" => t = Idle
  /\ t.pc \in LaunchPCs => x \in Requests
  /\ t.pc \in LaunchPCs \cup {"attempt", "score"} \/ t.op = "solve"
       => t.slot \in Slots
  /\ t.pc \in TargetPCs => t.target \in Containers

TaskOK == /\ task \in [Actors -> Tasks]
          /\ \A x \in Actors : TaskFits(x, task[x])

TypeInv == TypeOK /\ TaskOK

-----------------------------------------------------------------------------
(* Type correctness.                                                       *)

LEMMA NewIsTask ==
  ASSUME NEW p \in PCs, NEW o \in Ops, NEW s \in Slots \cup {NoSlot},
         NEW c \in Containers \cup {NoContainer}, NEW b \in SUBSET Containers
  PROVE  NewTask(p, o, s, c, b) \in Tasks
  BY DEF NewTask, Tasks

LEMMA IdleIsTask == Idle \in Tasks
  BY NewIsTask DEF Idle, PCs, Ops

LEMMA TaskStep ==
  ASSUME TaskOK, NEW x \in Actors, NEW t \in Tasks, TaskFits(x, t),
         task' = [task EXCEPT ![x] = t]
  PROVE  TaskOK'
  BY DEF TaskOK, TaskFits

LEMMA GotoStep ==
  ASSUME TaskOK, NEW x \in Actors, NEW p \in PCs \ {"idle"}, Goto(x, p),
         p \in LaunchPCs => x \in Requests,
         p \in LaunchPCs \cup {"attempt", "score"} => task[x].slot \in Slots,
         p \in TargetPCs => task[x].target \in Containers
  PROVE  TaskOK'
<1> DEFINE t == [task[x] EXCEPT !.pc = p]
<1>1. t \in Tasks
  BY DEF TaskOK, Tasks
<1>2. TaskFits(x, t)
  BY DEF TaskOK, TaskFits, Tasks
<1>3. task' = [task EXCEPT ![x] = t]
  BY DEF Goto, TaskOK
<1>. QED
  <2> HIDE DEF t
  <2>. QED BY <1>1, <1>2, <1>3, TaskStep

LEMMA ReturnStep ==
  ASSUME TaskOK, NEW x \in Actors, Return(x)
  PROVE  TaskOK'
<1>1. TaskFits(x, Idle)
  BY DEF TaskFits, Idle, NewTask, LaunchPCs, TargetPCs
<1>. QED
  BY <1>1, IdleIsTask, TaskStep DEF Return, Begin

LEMMA RefusedStep ==
  ASSUME TaskOK, NEW x \in Actors, KillRefused(x)
  PROVE  TaskOK'
<1>1. CASE Batch(x)
  <2> DEFINE t == [task[x] EXCEPT !.pc = "next", !.target = NoContainer]
  <2>1. t \in Tasks /\ TaskFits(x, t)
    BY <1>1 DEF TaskOK, TaskFits, Tasks, PCs, Batch, LaunchPCs, TargetPCs
  <2>2. task' = [task EXCEPT ![x] = t]
    BY <1>1 DEF KillRefused, TaskOK
  <2>. QED
    <3> HIDE DEF t
    <3>. QED BY <2>1, <2>2, TaskStep
<1>2. CASE ~Batch(x)
  BY <1>2, ReturnStep DEF KillRefused
<1>. QED BY <1>1, <1>2

\* What TypeInv says of the state before a step of x.
LEMMA TaskFacts ==
  ASSUME TypeInv, NEW x \in Actors
  PROVE  /\ TaskOK
         /\ task[x] \in Tasks
         /\ task[x].pc \in LaunchPCs => x \in Requests
         /\ task[x].pc \in LaunchPCs \cup {"attempt", "score"}
              \/ task[x].op = "solve" => task[x].slot \in Slots
         /\ task[x].pc \in TargetPCs => task[x].target \in Containers
  BY DEF TypeInv, TaskOK, TaskFits

LEMMA LaunchType ==
  ASSUME TypeInv, NEW r \in Requests, LaunchStep(r) \/ LaunchFault(r)
  PROVE  TypeInv'
<1>0. r \in Actors
  BY DEF Actors
<1>a. /\ TaskOK
      /\ task[r] \in Tasks
      /\ task[r].pc \in LaunchPCs => task[r].slot \in Slots
      /\ task[r].pc \in TargetPCs => task[r].target \in Containers
  BY <1>0, TaskFacts
<1> USE StoreAssumption, <1>0, <1>a DEF At
<1>1. CASE AcquireLaunchLock(r)
  <2>1. TaskOK'
    BY <1>1, GotoStep DEF AcquireLaunchLock, PCs, LaunchPCs, TargetPCs
  <2>. QED
    BY <1>1, <2>1 DEF TypeInv, TypeOK, TaskOK, AcquireLaunchLock, TakeLaunchLock, dockerVars, dbVars
<1>2. CASE LaunchLockTimeout(r)
  BY <1>2, ReturnStep DEF TypeInv, TypeOK, TaskOK, LaunchLockTimeout, dockerVars, dbVars, lockVars
<1>3. CASE ReadAccount(r)
  <2>1. CASE task[r].slot \in solved
    <3>1. TaskOK'
      BY <1>3, <2>1, GotoStep DEF ReadAccount, PCs, LaunchPCs, TargetPCs
    <3>. QED
      BY <1>3, <3>1 DEF TypeInv, TypeOK, TaskOK, ReadAccount, dockerVars, dbVars, lockVars
  <2>2. CASE task[r].slot \notin solved
    <3> DEFINE t == [task[r] EXCEPT !.pc = "prune", !.todo = RowsOf(AccountOf(r))]
    <3>1. t \in Tasks
      BY DEF Tasks, PCs, RowsOf, TypeInv, TypeOK
    <3>2. TaskFits(r, t)
      BY <1>3 DEF ReadAccount, Tasks, TaskFits, LaunchPCs, TargetPCs, TaskOK
    <3>3. task' = [task EXCEPT ![r] = t]
      BY <1>3, <2>2 DEF ReadAccount, TaskOK
    <3>4. TaskOK'
      <4> HIDE DEF t
      <4>. QED BY <3>1, <3>2, <3>3, TaskStep
    <3>. QED
      BY <1>3, <3>4 DEF TypeInv, TypeOK, TaskOK, ReadAccount, dockerVars, dbVars, lockVars
  <2>. QED BY <2>1, <2>2
<1>4. CASE \E c \in Containers : PruneCheck(r, c)
  <2>1. PICK c \in Containers : PruneCheck(r, c)
    BY <1>4
  <2>0. task[r].pc = "prune"
    BY <2>1 DEF PruneCheck
  <2>2. ASSUME Goto(r, "unlock") PROVE TaskOK'
    BY <2>0, <2>2, GotoStep DEF PCs, LaunchPCs, TargetPCs
  <2>3. ASSUME task' = [task EXCEPT ![r].todo = @ \ {c}, ![r].active = @ \cup {c}]
        PROVE  TaskOK'
    <3> DEFINE t == [task[r] EXCEPT !.todo = @ \ {c}, !.active = @ \cup {c}]
    <3>1. t \in Tasks /\ TaskFits(r, t)
      BY <2>0 DEF Tasks, TaskFits, LaunchPCs, TargetPCs
    <3>2. task' = [task EXCEPT ![r] = t]
      BY <2>3 DEF TaskOK
    <3>. QED
      <4> HIDE DEF t
      <4>. QED BY <3>1, <3>2, TaskStep
  <2>4. ASSUME task' = [task EXCEPT ![r].todo = @ \ {c}, ![r].stale = @ \cup {c}]
        PROVE  TaskOK'
    <3> DEFINE t == [task[r] EXCEPT !.todo = @ \ {c}, !.stale = @ \cup {c}]
    <3>1. t \in Tasks /\ TaskFits(r, t)
      BY <2>0 DEF Tasks, TaskFits, LaunchPCs, TargetPCs
    <3>2. task' = [task EXCEPT ![r] = t]
      BY <2>4 DEF TaskOK
    <3>. QED
      <4> HIDE DEF t
      <4>. QED BY <3>1, <3>2, TaskStep
  <2>5. TaskOK'
    BY <2>1, <2>2, <2>3, <2>4 DEF PruneCheck
  <2>. QED
    BY <2>1, <2>5 DEF TypeInv, TypeOK, TaskOK, PruneCheck, dockerVars, dbVars, lockVars
<1>5. CASE CommitPrune(r)
  <2>1. TaskOK'
    BY <1>5, GotoStep DEF CommitPrune, PCs, LaunchPCs, TargetPCs
  <2>. QED
    BY <1>5, <2>1 DEF TypeInv, TypeOK, TaskOK, CommitPrune, DeleteRows, dockerVars, lockVars
<1>6. CASE Decide(r)
  <2>1. TaskOK'
    <3>1. task[r].pc \in {"prune", "reload"}
      BY <1>6 DEF Decide
    <3>2. Goto(r, "launch") \/ Goto(r, "unlock")
      BY <1>6 DEF Decide
    <3>. QED
      BY <3>1, <3>2, GotoStep DEF PCs, LaunchPCs, TargetPCs
  <2>. QED
    BY <1>6, <2>1 DEF TypeInv, TypeOK, TaskOK, Decide, dockerVars, dbVars, lockVars
<1>7. CASE ReloadFails(r) \/ RefuseLaunch(r) \/ HealthPassed(r) \/ HealthFailed(r)
  <2>1. TaskOK'
    BY <1>7, GotoStep DEF ReloadFails, RefuseLaunch, HealthPassed, HealthFailed, PCs, LaunchPCs, TargetPCs
  <2>. QED
    BY <1>7, <2>1 DEF TypeInv, TypeOK, TaskOK, ReloadFails, RefuseLaunch, HealthPassed, HealthFailed, dockerVars, dbVars, lockVars
<1>8. CASE \E c \in Containers : RunContainer(r, c)
  <2>1. PICK c \in Containers : RunContainer(r, c)
    BY <1>8
  <2> DEFINE t == [task[r] EXCEPT !.pc = "health", !.target = c]
  <2>2. t \in Tasks /\ TaskFits(r, t)
    BY <2>1 DEF RunContainer, Tasks, PCs, TaskFits, LaunchPCs, TargetPCs
  <2>3. task' = [task EXCEPT ![r] = t]
    BY <2>1 DEF RunContainer, TaskOK
  <2>4. TaskOK'
    <3> HIDE DEF t
    <3>. QED BY <2>2, <2>3, TaskStep
  <2>. QED
    BY <2>1, <2>4 DEF TypeInv, TypeOK, TaskOK, RunContainer, StartContainer, DockerStates,
       LaunchPCs, dbVars, lockVars
<1>9. CASE ReadPort(r)
  <2>1. TaskOK'
    BY <1>9, GotoStep DEF ReadPort, PCs, LaunchPCs, TargetPCs
  <2>. QED
    BY <1>9, <2>1 DEF TypeInv, TypeOK, TaskOK, ReadPort, dockerVars, dbVars, lockVars
<1>10. CASE RecordInstance(r)
  <2>1. TaskOK'
    BY <1>10, GotoStep DEF RecordInstance, PCs, LaunchPCs, TargetPCs
  <2>. QED
    BY <1>10, <2>1 DEF TypeInv, TypeOK, TaskOK, RecordInstance, TargetPCs, dockerVars, lockVars
<1>11. CASE DiscardContainer(r)
  <2>1. TaskOK'
    BY <1>11, GotoStep DEF DiscardContainer, PCs, LaunchPCs, TargetPCs
  <2>. QED
    BY <1>11, <2>1 DEF TypeInv, TypeOK, TaskOK, DiscardContainer, Kill, DockerStates, dbVars, lockVars
<1>12. CASE ReleaseLaunchLock(r)
  BY <1>12, ReturnStep DEF TypeInv, TypeOK, TaskOK, ReleaseLaunchLock, dockerVars, dbVars
<1>13. CASE \E c \in Containers : RunReplyLost(r, c)
  <2>1. TaskOK'
    BY <1>13, GotoStep DEF RunReplyLost, PCs, LaunchPCs, TargetPCs
  <2>. QED
    BY <1>13, <2>1 DEF TypeInv, TypeOK, TaskOK, RunReplyLost, StartContainer, DockerStates,
       LaunchPCs, dbVars, lockVars
<1>14. CASE LaunchConnectionLost(r)
  <2>1. TaskOK'
    BY <1>14, GotoStep DEF LaunchConnectionLost, PCs, LaunchPCs, TargetPCs
  <2>. QED
    BY <1>14, <2>1 DEF TypeInv, TypeOK, TaskOK, LaunchConnectionLost, dockerVars, dbVars, lockVars
<1>15. CASE LaunchCommitLost(r)
  <2>1. TaskOK'
    BY <1>15, GotoStep DEF LaunchCommitLost, PCs, LaunchPCs, TargetPCs
  <2>. QED
    BY <1>15, <2>1 DEF TypeInv, TypeOK, TaskOK, LaunchCommitLost, DeleteRows, TargetPCs, dockerVars, lockVars
<1>. QED
  BY <1>1, <1>2, <1>3, <1>4, <1>5, <1>6, <1>7, <1>8, <1>9, <1>10, <1>11, <1>12,
     <1>13, <1>14, <1>15 DEF LaunchStep, LaunchFault

LEMMA TeardownType ==
  ASSUME TypeInv, NEW x \in Actors, TeardownStep(x) \/ TeardownFault(x)
  PROVE  TypeInv'
<1>a. /\ TaskOK
      /\ task[x] \in Tasks
      /\ task[x].op = "solve" => task[x].slot \in Slots
      /\ At(x, "score") => task[x].slot \in Slots
      /\ task[x].pc \in TargetPCs => task[x].target \in Containers
  BY TaskFacts DEF At
<1> USE StoreAssumption, <1>a DEF At
<1>1. CASE Inspect(x)
  <2>1. TaskOK'
    BY <1>1, GotoStep, RefusedStep DEF Inspect, PCs, LaunchPCs, TargetPCs
  <2>. QED
    BY <1>1, <2>1 DEF TypeInv, TypeOK, TaskOK, Inspect, dockerVars, dbVars, lockVars
<1>2. CASE Signal(x)
  <2>1. TaskOK'
    BY <1>2, GotoStep, RefusedStep DEF Signal, PCs, LaunchPCs, TargetPCs
  <2>. QED
    BY <1>2, <2>1 DEF TypeInv, TypeOK, TaskOK, Signal, Kill, DockerStates, dbVars, lockVars
<1>3. CASE Cleanup(x)
  <2>1. TaskOK'
    <3>1. CASE Batch(x)
      <4> DEFINE t == [task[x] EXCEPT !.pc = "next", !.target = NoContainer,
                                      !.open = FALSE, !.snap = {}]
      <4>1. t \in Tasks /\ TaskFits(x, t)
        BY <3>1 DEF Tasks, PCs, TaskFits, Batch, LaunchPCs, TargetPCs
      <4>2. task' = [task EXCEPT ![x] = t]
        BY <1>3, <3>1 DEF Cleanup, AfterCleanup, Batch, TaskOK
      <4>. QED
        <5> HIDE DEF t
        <5>. QED BY <4>1, <4>2, TaskStep
    <3>2. CASE ~Batch(x)
      <4>1. \/ task[x].op = "solve" /\ Goto(x, "score")
            \/ Return(x)
        BY <1>3, <3>2 DEF Cleanup, AfterCleanup
      <4>. QED
        BY <4>1, GotoStep, ReturnStep DEF PCs, LaunchPCs, TargetPCs
    <3>. QED BY <3>1, <3>2
  <2>. QED
    BY <1>3, <2>1 DEF TypeInv, TypeOK, TaskOK, Cleanup, DeleteRows, dockerVars, lockVars
<1>4. CASE \E c \in Containers : TakeNext(x, c)
  <2>1. PICK c \in Containers : TakeNext(x, c)
    BY <1>4
  <2> DEFINE t == [task[x] EXCEPT !.pc = "inspect", !.target = c,
                     !.todo = @ \ {c}, !.open = TRUE,
                     !.snap = (Visible(x) \cap task[x].todo) \ {c}]
  <2>2. t \in Tasks
    BY DEF Tasks, PCs
  <2>3. TaskFits(x, t)
    BY DEF Tasks, TaskFits, LaunchPCs, TargetPCs
  <2>4. task' = [task EXCEPT ![x] = t]
    BY <2>1 DEF TakeNext, TaskOK
  <2>5. TaskOK'
    <3> HIDE DEF t
    <3>. QED BY <2>2, <2>3, <2>4, TaskStep
  <2>. QED
    BY <2>1, <2>5 DEF TypeInv, TypeOK, TaskOK, TakeNext, dockerVars, dbVars, lockVars
<1>5. CASE \E c \in Containers : NextIsGone(x, c)
  <2>1. PICK c \in Containers : NextIsGone(x, c)
    BY <1>5
  <2>2. CASE task[x].op = "purge"
    <3> DEFINE t == [task[x] EXCEPT !.todo = @ \ {c}, !.open = TRUE,
                                    !.snap = Visible(x) \cap task[x].todo]
    <3>1. t \in Tasks
      BY DEF Tasks
    <3>2. TaskFits(x, t)
      BY <2>1, <2>2 DEF NextIsGone, Tasks, TaskFits, LaunchPCs, TargetPCs
    <3>3. task' = [task EXCEPT ![x] = t]
      BY <2>1, <2>2 DEF NextIsGone, TaskOK
    <3>. QED
      <4>1. TaskOK'
        <5> HIDE DEF t
        <5>. QED BY <3>1, <3>2, <3>3, TaskStep
      <4>. QED
        BY <2>1, <2>2, <4>1 DEF TypeInv, TypeOK, TaskOK, NextIsGone, dockerVars, dbVars
  <2>3. CASE task[x].op # "purge"
    BY <2>1, <2>3, ReturnStep
       DEF TypeInv, TypeOK, TaskOK, NextIsGone, Leave, FreeScanLock, dockerVars, dbVars
  <2>. QED BY <2>2, <2>3
<1>6. CASE FinishBatch(x)
  BY <1>6, ReturnStep
     DEF TypeInv, TypeOK, TaskOK, FinishBatch, Leave, FreeScanLock, dockerVars, dbVars
<1>7. CASE CheckRunning(x)
  <2>1. TaskOK'
    BY <1>7, GotoStep, ReturnStep DEF CheckRunning, PCs, LaunchPCs, TargetPCs
  <2>. QED
    BY <1>7, <2>1 DEF TypeInv, TypeOK, TaskOK, CheckRunning, dockerVars, dbVars, lockVars
<1>8. CASE CommitRenew(x)
  BY <1>8, ReturnStep DEF TypeInv, TypeOK, TaskOK, CommitRenew, dockerVars, lockVars
<1>9. CASE ReloadForKill(x)
  <2>1. TaskOK'
    BY <1>9, GotoStep, ReturnStep DEF ReloadForKill, PCs, LaunchPCs, TargetPCs
  <2>. QED
    BY <1>9, <2>1 DEF TypeInv, TypeOK, TaskOK, ReloadForKill, dockerVars, dbVars, lockVars
<1>10. CASE Score(x)
  BY <1>10, ReturnStep DEF TypeInv, TypeOK, TaskOK, Score, dockerVars, lockVars
<1>11. CASE TeardownConnectionLost(x)
  <2>1. TaskOK'
    BY <1>11, RefusedStep, ReturnStep DEF TeardownConnectionLost
  <2>. QED
    BY <1>11, <2>1 DEF TypeInv, TypeOK, TaskOK, TeardownConnectionLost, Kill, DockerStates,
       dbVars, lockVars
<1>12. CASE TeardownCommitLost(x)
  BY <1>12, ReturnStep
     DEF TypeInv, TypeOK, TaskOK, TeardownCommitLost, DeleteRows, Leave, FreeScanLock, dockerVars
<1>. QED
  BY <1>1, <1>2, <1>3, <1>4, <1>5, <1>6, <1>7, <1>8, <1>9, <1>10, <1>11, <1>12
     DEF TeardownStep, TeardownFault

\* A request that arrives, or a scan that starts.
LEMMA ArriveStep ==
  ASSUME TaskOK, NEW x \in Actors, NEW p \in PCs \ {"idle"}, NEW o \in Ops,
         NEW s \in Slots \cup {NoSlot}, NEW c \in Containers \cup {NoContainer},
         NEW b \in SUBSET Containers,
         p \in LaunchPCs => x \in Requests,
         p \in LaunchPCs \cup {"attempt", "score"} \/ o = "solve" => s \in Slots,
         p \in TargetPCs => c \in Containers,
         Begin(x, NewTask(p, o, s, c, b))
  PROVE  TaskOK'
<1> DEFINE t == NewTask(p, o, s, c, b)
<1>1. t \in Tasks
  BY NewIsTask
<1>2. TaskFits(x, t)
  BY DEF TaskFits, NewTask
<1>3. task' = [task EXCEPT ![x] = t]
  BY DEF Begin
<1>. QED
  <2> HIDE DEF t
  <2>. QED BY <1>1, <1>2, <1>3, TaskStep

LEMMA ArriveType ==
  ASSUME TypeInv, NEW r \in Requests, Arrive(r)
  PROVE  TypeInv'
<1>0. /\ r \in Actors
      /\ TaskOK
      /\ rows \in SUBSET Containers
      /\ \A s \in Slots : RowsAt(s) \subseteq Containers
  BY DEF Actors, TypeInv, TypeOK, RowsAt
<1>1. TaskOK'
  <2> USE <1>0 DEF PCs, Ops, LaunchPCs, TargetPCs
  <2>1. ASSUME NEW s \in Slots, ArriveLaunch(r, s) PROVE TaskOK'
    BY <2>1, ArriveStep DEF ArriveLaunch
  <2>2. ASSUME NEW s \in Slots, StopInstance(r, s) PROVE TaskOK'
    BY <2>2, ArriveStep DEF StopInstance
  <2>3. ASSUME NEW c \in Containers, AdminKill(r, c) PROVE TaskOK'
    BY <2>3, ArriveStep DEF AdminKill
  <2>4. ASSUME NEW s \in Slots, NEW op \in {"view", "renew"}, Examine(r, s, op)
        PROVE  TaskOK'
    <3>1. PICK c \in RowsAt(s) : Begin(r, NewTask("check", op, NoSlot, c, {}))
      BY <2>4 DEF Examine
    <3>. QED
      BY <3>1, ArriveStep
  <2>5. ASSUME NEW s \in Slots, SubmitFlag(r, s) PROVE TaskOK'
    <3>1. CASE Begin(r, NewTask("score", "solve", s, NoContainer, {}))
      BY <3>1, ArriveStep
    <3>2. ASSUME NEW c \in RowsAt(s),
                 Begin(r, NewTask("attempt", "solve", s, c, {}))
          PROVE  TaskOK'
      BY <3>2, ArriveStep
    <3>. QED BY <2>5, <3>1, <3>2 DEF SubmitFlag
  <2>6. ASSUME NEW ids \in SUBSET rows, AdminPurge(r, ids) PROVE TaskOK'
    BY <2>6, ArriveStep DEF AdminPurge
  <2>. QED BY <2>1, <2>2, <2>3, <2>4, <2>5, <2>6 DEF Arrive
<1>2. UNCHANGED <<dockerVars, dbVars, lockVars>>
  BY DEF Arrive, ArriveLaunch, StopInstance, Examine, SubmitFlag, AdminKill, AdminPurge
<1>. QED
  BY <1>1, <1>2 DEF TypeInv, TypeOK, TaskOK, dockerVars, dbVars, lockVars

LEMMA TypeStep == TypeInv /\ [Next]_vars => TypeInv'
<1> SUFFICES ASSUME TypeInv, [Next]_vars PROVE TypeInv'
  OBVIOUS
<1>1. CASE \E r \in Requests : Arrive(r)
  BY <1>1, ArriveType
<1>2. ASSUME NEW x \in Scanners, StartScan(x) PROVE TypeInv'
  <2>1. x \in Actors /\ due \in SUBSET Containers
    BY DEF Actors, TypeInv, TypeOK
  <2>3. TaskOK'
    BY <1>2, <2>1, ArriveStep DEF StartScan, TypeInv, PCs, Ops, LaunchPCs, TargetPCs
  <2>. QED
    BY <1>2, <2>3 DEF StartScan, TypeInv, TypeOK, TaskOK, dockerVars, dbVars
<1>3. ASSUME NEW x \in Actors, Proceed(x) PROVE TypeInv'
  BY <1>3, LaunchType, TeardownType DEF Proceed
<1>4. ASSUME NEW x \in Actors, Crash(x) PROVE TypeInv'
  <2>1. TaskOK'
    BY <1>4, ReturnStep DEF Crash, TypeInv
  <2>. QED
    BY <1>4, <2>1 DEF Crash, TypeInv, TypeOK, TaskOK, dockerVars, dbVars
<1>5. ASSUME NEW x \in Actors, TeardownFault(x) PROVE TypeInv'
  BY <1>5, TeardownType
<1>6. ASSUME NEW r \in Requests, LaunchFault(r) PROVE TypeInv'
  BY <1>6, LaunchType
<1>7. CASE Environment
  <2>1. task' = task /\ UNCHANGED <<launchLock, scanLock, dialect>>
    BY <1>7 DEF Environment, BecomeHealthy, ExitContainer, AutoRemove, Tick, lockVars
  <2>2. TaskOK'
    BY <2>1 DEF TypeInv, TaskOK
  <2>3. docker' \in [Containers -> DockerStates]
    BY <1>7 DEF Environment, BecomeHealthy, ExitContainer, AutoRemove, Tick,
       TypeInv, TypeOK, DockerStates, dockerVars
  <2>. QED
    BY <1>7, <2>1, <2>2, <2>3 DEF Environment, BecomeHealthy, ExitContainer,
       AutoRemove, Tick, TypeInv, TypeOK, TaskOK, dockerVars, dbVars
<1>8. CASE UNCHANGED vars
  <2>1. TaskOK'
    BY <1>8 DEF vars, TypeInv, TaskOK
  <2>. QED
    BY <1>8, <2>1 DEF vars, TypeInv, TypeOK, TaskOK, dockerVars, dbVars, lockVars
<1>. QED
  BY <1>1, <1>2, <1>3, <1>4, <1>5, <1>6, <1>7, <1>8 DEF Next

LEMMA TypeInit == Init => TypeInv
<1> SUFFICES ASSUME Init PROVE TypeInv
  OBVIOUS
<1> USE StoreAssumption DEF Init, StoreInit
<1>1. docker \in [Containers -> DockerStates]
  BY DEF DockerStates
<1>2. slotOf \in [Containers -> Slots \cup {NoSlot}]
  OBVIOUS
<1>3. task \in [Actors -> Tasks]
  BY IdleIsTask
<1>4. TypeOK
  BY <1>1, <1>2, <1>3 DEF TypeOK
<1>5. TaskOK
  BY <1>3 DEF TaskOK, TaskFits, Idle, NewTask, LaunchPCs, TargetPCs
<1>. QED BY <1>4, <1>5 DEF TypeInv

LEMMA TypeInvHolds == Spec => []TypeInv
<1>. QED BY TypeInit, TypeStep, PTL DEF Spec

\* Type correctness of the whole lifecycle.
THEOREM TypeCorrect == Spec => []TypeOK
<1>1. TypeInv => TypeOK
  BY DEF TypeInv
<1>. QED BY <1>1, TypeInvHolds, PTL

-----------------------------------------------------------------------------
(* The capacity bound.                                                     *)

LockedPCs == LaunchPCs \ {"lockwait"}

\* The rows of one account in a table R with labels f.
AccountRows(R, f, a) == {c \in R : f[c][1] = a}

\* What a launch knows while it holds its account's lock: its list covers
\* every row of the account until it is pruned, and once the launch is
\* admitted there is room for one more, until that is recorded or killed.
LaunchFits(r) ==
  LET t == task[r]
      mine == AccountRows(rows, slotOf, t.slot[1])
  IN /\ t.pc \in LockedPCs => launchLock[t.slot[1]] = r
     /\ t.pc = "prune" => mine \subseteq t.todo \cup t.active \cup t.stale
     /\ t.pc = "reload" => mine \subseteq t.active
     /\ t.pc \in {"launch", "health", "port", "record", "discard"} =>
          Cardinality(mine) < MaxContainers
     /\ t.pc \in {"health", "port", "record", "discard"} =>
          docker[t.target] # "unused" /\ slotOf[t.target] = t.slot

RowsUsed == \A c \in rows : docker[c] # "unused"

WithinLimit == \A a \in Accounts : Cardinality(RowsOf(a)) <= MaxContainers

CapInv == /\ WithinLimit
          /\ RowsUsed
          /\ \A r \in Requests : LaunchFits(r)

LEMMA AccountRowsFinite ==
  ASSUME NEW R \in SUBSET Containers, NEW f, NEW a
  PROVE  /\ IsFiniteSet(AccountRows(R, f, a))
         /\ Cardinality(AccountRows(R, f, a)) \in Nat
<1>1. AccountRows(R, f, a) \subseteq Containers
  BY DEF AccountRows
<1>. QED
  BY <1>1, StoreAssumption, FS_Subset, FS_CardinalityType

LEMMA FewerRows ==
  ASSUME NEW R \in SUBSET Containers, NEW S \in SUBSET Containers,
         NEW f, NEW g, NEW a,
         AccountRows(S, g, a) \subseteq AccountRows(R, f, a)
  PROVE  Cardinality(AccountRows(S, g, a)) <= Cardinality(AccountRows(R, f, a))
  BY AccountRowsFinite, FS_Subset

LEMMA OneMoreRow ==
  ASSUME NEW R \in SUBSET Containers, NEW f, NEW a, NEW c \in Containers
  PROVE  Cardinality(AccountRows(R \cup {c}, f, a))
           <= Cardinality(AccountRows(R, f, a)) + 1
<1> DEFINE old == AccountRows(R, f, a)
           new == AccountRows(R \cup {c}, f, a)
<1>1. IsFiniteSet(old) /\ Cardinality(old) \in Nat
  BY AccountRowsFinite
<1>2. new = old \/ new = old \cup {c}
  BY DEF AccountRows
<1>3. Cardinality(old \cup {c}) \in {Cardinality(old), Cardinality(old) + 1}
  <2> HIDE DEF old
  <2>. QED BY <1>1, FS_AddElement
<1>4. Cardinality(new) \in {Cardinality(old), Cardinality(old) + 1}
  <2> HIDE DEF old, new
  <2>. QED BY <1>2, <1>3
<1>5. Cardinality(new) <= Cardinality(old) + 1
  <2> HIDE DEF old, new
  <2>. QED BY <1>1, <1>4
<1>. QED BY <1>5

\* A launch is not disturbed by a step of somebody else that neither takes
\* its lock, nor adds a row to its account, nor reuses a container id.
LEMMA Undisturbed ==
  ASSUME TypeInv, TypeInv', CapInv, NEW q \in Requests, task'[q] = task[q],
         task[q].pc \in LockedPCs =>
           /\ launchLock'[task[q].slot[1]] = launchLock[task[q].slot[1]]
           /\ AccountRows(rows', slotOf', task[q].slot[1])
                \subseteq AccountRows(rows, slotOf, task[q].slot[1]),
         \A c \in Containers : docker[c] # "unused" =>
           docker'[c] # "unused" /\ slotOf'[c] = slotOf[c]
  PROVE  LaunchFits(q)'
<1> DEFINE a == task[q].slot[1]
           old == AccountRows(rows, slotOf, a)
           new == AccountRows(rows', slotOf', a)
<1>1. /\ LaunchFits(q)
      /\ rows \in SUBSET Containers /\ rows' \in SUBSET Containers
      /\ task[q].pc \in TargetPCs => task[q].target \in Containers
  BY TaskFacts DEF CapInv, TypeInv, TypeOK, Actors
<1>2. CASE task[q].pc \notin LockedPCs
  BY <1>2 DEF LaunchFits, LockedPCs, LaunchPCs
<1>3. CASE task[q].pc \in LockedPCs
  <2>1. new \subseteq old
    BY <1>3
  <2>2. Cardinality(new) <= Cardinality(old)
    BY <2>1, <1>1, FewerRows
  <2>3. Cardinality(new) \in Nat /\ Cardinality(old) \in Nat
    BY <1>1, AccountRowsFinite
  <2>4. Cardinality(old) < MaxContainers => Cardinality(new) < MaxContainers
    <3> HIDE DEF old, new
    <3>. QED BY <2>2, <2>3, StoreAssumption
  <2>. QED
    BY <1>1, <1>3, <2>1, <2>4 DEF LaunchFits, TargetPCs
<1>. QED BY <1>2, <1>3

\* Steps that add no row.
LEMMA NoNewRow ==
  ASSUME TypeInv, TypeInv', CapInv, rows' \subseteq rows,
         \A c \in Containers : docker[c] # "unused" =>
           docker'[c] # "unused" /\ slotOf'[c] = slotOf[c]
  PROVE  /\ WithinLimit' /\ RowsUsed'
         /\ \A a : AccountRows(rows', slotOf', a) \subseteq AccountRows(rows, slotOf, a)
<1>1. rows \in SUBSET Containers /\ rows' \in SUBSET Containers
  BY DEF TypeInv, TypeOK
<1>2. RowsUsed'
  BY <1>1 DEF CapInv, RowsUsed
<1>3. ASSUME NEW a
      PROVE  AccountRows(rows', slotOf', a) \subseteq AccountRows(rows, slotOf, a)
  BY <1>1 DEF AccountRows, CapInv, RowsUsed
<1>4. ASSUME NEW a \in Accounts
      PROVE  Cardinality(AccountRows(rows', slotOf', a)) <= MaxContainers
  <2>1. Cardinality(AccountRows(rows', slotOf', a))
          <= Cardinality(AccountRows(rows, slotOf, a))
    BY <1>1, <1>3, FewerRows
  <2>2. /\ Cardinality(AccountRows(rows, slotOf, a)) \in Nat
        /\ Cardinality(AccountRows(rows', slotOf', a)) \in Nat
    BY <1>1, AccountRowsFinite
  <2>3. Cardinality(AccountRows(rows, slotOf, a)) <= MaxContainers
    BY DEF CapInv, WithinLimit, RowsOf, AccountRows
  <2>. QED BY <2>1, <2>2, <2>3, StoreAssumption
<1>5. WithinLimit'
  BY <1>4 DEF WithinLimit, RowsOf, AccountRows
<1>. QED BY <1>2, <1>3, <1>5

\* Steps of requests that are not launching, scanners, Docker and the clock.
LEMMA QuietStep ==
  ASSUME TypeInv, TypeInv', CapInv, rows' \subseteq rows,
         \A c \in Containers : docker[c] # "unused" =>
           docker'[c] # "unused" /\ slotOf'[c] = slotOf[c],
         \A q \in Requests :
           \/ task'[q].pc \notin LockedPCs
           \/ /\ task'[q] = task[q]
              /\ task[q].pc \in LockedPCs =>
                   launchLock'[task[q].slot[1]] = launchLock[task[q].slot[1]]
  PROVE  CapInv'
<1>1. ASSUME NEW q \in Requests PROVE LaunchFits(q)'
  <2>1. CASE task'[q].pc \notin LockedPCs
    BY <2>1 DEF LaunchFits, LockedPCs, LaunchPCs
  <2>2. CASE /\ task'[q] = task[q]
             /\ task[q].pc \in LockedPCs =>
                  launchLock'[task[q].slot[1]] = launchLock[task[q].slot[1]]
    BY <2>2, NoNewRow, Undisturbed
  <2>. QED BY <2>1, <2>2
<1>. QED BY <1>1, NoNewRow DEF CapInv

\* A step of the launch r that touches no other launch: nobody else holds the
\* lock of the account whose rows it changes.
LEMMA LaunchFrame ==
  ASSUME TypeInv, TypeInv', CapInv, NEW r \in Requests, rows' \subseteq rows,
         task' = [task EXCEPT ![r] = task'[r]],
         launchLock' = launchLock,
         \A c \in Containers : docker[c] # "unused" =>
           docker'[c] # "unused" /\ slotOf'[c] = slotOf[c],
         LaunchFits(r)'
  PROVE  CapInv'
<1>1. ASSUME NEW q \in Requests PROVE LaunchFits(q)'
  <2>1. CASE q = r
    BY <2>1
  <2>2. CASE q # r
    <3>1. task'[q] = task[q]
      BY <2>2 DEF TypeInv, TaskOK, Actors
    <3>. QED BY <3>1, NoNewRow, Undisturbed
  <2>. QED BY <2>1, <2>2
<1>. QED BY <1>1, NoNewRow DEF CapInv

LEMMA LaunchCap ==
  ASSUME AdvisoryLocks, TypeInv, TypeInv', CapInv, NEW r \in Requests,
         LaunchStep(r) \/ LaunchFault(r)
  PROVE  CapInv'
<1> DEFINE a == task[r].slot[1]
           mine == AccountRows(rows, slotOf, a)
<1>0. /\ r \in Actors
      /\ TaskOK
      /\ LaunchFits(r)
      /\ rows \in SUBSET Containers
      /\ task[r] \in Tasks
      /\ task[r].pc \in LaunchPCs => task[r].slot \in Slots
      /\ task[r].pc \in TargetPCs => task[r].target \in Containers
  BY TaskFacts DEF CapInv, TypeInv, TypeOK, Actors
<1> USE <1>0, StoreAssumption
<1>1. CASE AcquireLaunchLock(r)
  <2>1. /\ task[r].pc = "lockwait" /\ launchLock[a] = NoActor
        /\ launchLock' = [launchLock EXCEPT ![a] = r]
        /\ Goto(r, "locked") /\ UNCHANGED <<dockerVars, dbVars>>
    BY <1>1 DEF AcquireLaunchLock, At, LaunchLockFree, TakeLaunchLock
  <2>2. task'[r].pc = "locked" /\ task'[r].slot = task[r].slot
    BY <2>1 DEF Goto, TaskOK, Tasks
  <2>3. a \in Accounts
    BY <2>1 DEF LaunchPCs, Slots
  <2>4. launchLock'[a] = r
    BY <2>1, <2>3 DEF TypeInv, TypeOK
  <2>5. LaunchFits(r)'
    BY <2>2, <2>4 DEF LaunchFits
  <2>6. ASSUME NEW q \in Requests, q # r PROVE LaunchFits(q)'
    <3>1. task'[q] = task[q]
      BY <2>1, <2>6 DEF Goto, TaskOK, Actors
    <3>2. task[q].pc \in LockedPCs => launchLock[task[q].slot[1]] = q /\ q # NoActor
      BY DEF CapInv, LaunchFits, Actors
    <3>3. task[q].pc \in LockedPCs =>
            launchLock'[task[q].slot[1]] = launchLock[task[q].slot[1]]
      BY <2>1, <3>2 DEF TypeInv, TypeOK
    <3>. QED
      BY <2>1, <3>1, <3>3, NoNewRow, Undisturbed DEF dockerVars, dbVars
  <2>. QED
    BY <2>1, <2>5, <2>6, NoNewRow DEF CapInv, dockerVars, dbVars
<1>2. CASE LaunchLockTimeout(r)
  <2>1. ASSUME NEW q \in Requests
        PROVE  task'[q].pc = "idle" \/ task'[q] = task[q]
    BY <1>2 DEF LaunchLockTimeout, Return, Begin, Idle, NewTask, TaskOK, Actors
  <2>. QED
    BY <1>2, <2>1, QuietStep DEF LaunchLockTimeout, LockedPCs, LaunchPCs,
       dockerVars, dbVars, lockVars
<1>3. CASE ReadAccount(r)
  <2>1. /\ task' = [task EXCEPT ![r] = task'[r]] /\ task'[r].slot = task[r].slot
        /\ \/ task'[r].pc = "unlock"
           \/ task'[r].pc = "prune" /\ task'[r].todo = mine
    BY <1>3 DEF ReadAccount, Goto, TaskOK, Tasks, RowsOf, AccountOf, AccountRows
  <2>2. task[r].pc = "locked" /\ UNCHANGED <<dockerVars, dbVars, lockVars>>
    BY <1>3 DEF ReadAccount, At
  <2>3. LaunchFits(r)'
    BY <2>1, <2>2 DEF LaunchFits, LockedPCs, LaunchPCs, dockerVars, dbVars, lockVars
  <2>. QED
    BY <2>1, <2>2, <2>3, LaunchFrame DEF dockerVars, dbVars, lockVars
<1>4. CASE \E c \in Containers : PruneCheck(r, c)
  <2>1. PICK c \in Containers : PruneCheck(r, c)
    BY <1>4
  <2>2. task[r].pc = "prune" /\ UNCHANGED <<dockerVars, dbVars, lockVars>>
    BY <2>1 DEF PruneCheck, At
  <2>3. /\ task' = [task EXCEPT ![r] = task'[r]] /\ task'[r].slot = task[r].slot
        /\ \/ task'[r].pc = "unlock"
           \/ /\ task'[r].pc = "prune"
              /\ task'[r].todo \cup task'[r].active \cup task'[r].stale
                   = task[r].todo \cup task[r].active \cup task[r].stale
    BY <2>1 DEF PruneCheck, Goto, At, TaskOK, Tasks
  <2>4. LaunchFits(r)'
    BY <2>2, <2>3 DEF LaunchFits, LockedPCs, LaunchPCs, dockerVars, dbVars, lockVars
  <2>. QED
    BY <2>2, <2>3, <2>4, LaunchFrame DEF dockerVars, dbVars, lockVars
<1>5. CASE CommitPrune(r)
  <2>1. /\ task[r].pc = "prune" /\ task[r].todo = {}
        /\ rows' = rows \ task[r].stale
        /\ Goto(r, "reload") /\ UNCHANGED <<dockerVars, lockVars>>
    BY <1>5 DEF CommitPrune, At, DeleteRows
  <2>2. /\ task' = [task EXCEPT ![r] = task'[r]] /\ task'[r].slot = task[r].slot
        /\ task'[r].pc = "reload" /\ task'[r].active = task[r].active
    BY <2>1 DEF Goto, TaskOK, Tasks
  <2>3. LaunchFits(r)'
    BY <2>1, <2>2 DEF LaunchFits, AccountRows, LockedPCs, LaunchPCs, dockerVars, lockVars
  <2>. QED
    BY <2>1, <2>2, <2>3, LaunchFrame DEF dockerVars, lockVars
<1>6. CASE Decide(r)
  <2>1. /\ UNCHANGED <<dockerVars, dbVars, lockVars>>
        /\ \/ task[r].pc = "prune" /\ task[r].todo = {} /\ task[r].stale = {}
           \/ task[r].pc = "reload"
        /\ \/ Goto(r, "unlock")
           \/ Goto(r, "launch") /\ Cardinality(task[r].active) < MaxContainers
    BY <1>6 DEF Decide, At, Admitted
  <2>2. mine \subseteq task[r].active
    BY <2>1 DEF LaunchFits
  <2>3. task[r].active \in SUBSET Containers
    BY DEF Tasks
  <2>4. IsFiniteSet(task[r].active) /\ Cardinality(task[r].active) \in Nat
    BY <2>3, FS_Subset, FS_CardinalityType
  <2>5. Cardinality(mine) <= Cardinality(task[r].active) /\ Cardinality(mine) \in Nat
    <3> HIDE DEF mine
    <3>. QED BY <2>2, <2>4, FS_Subset, FS_CardinalityType
  <2>6. Cardinality(task[r].active) < MaxContainers => Cardinality(mine) < MaxContainers
    <3> HIDE DEF mine
    <3>. QED BY <2>4, <2>5
  <2>7. /\ task' = [task EXCEPT ![r] = task'[r]] /\ task'[r].slot = task[r].slot
        /\ \/ task'[r].pc = "unlock"
           \/ task'[r].pc = "launch" /\ Cardinality(mine) < MaxContainers
    BY <2>1, <2>6 DEF Goto, TaskOK, Tasks
  <2>8. LaunchFits(r)'
    BY <2>1, <2>7 DEF LaunchFits, LockedPCs, LaunchPCs, dockerVars, dbVars, lockVars
  <2>. QED
    BY <2>1, <2>7, <2>8, LaunchFrame DEF dockerVars, dbVars, lockVars
<1>7. CASE \/ ReloadFails(r) \/ RefuseLaunch(r) \/ HealthPassed(r) \/ HealthFailed(r)
           \/ ReadPort(r) \/ LaunchConnectionLost(r)
  <2>1. /\ task[r].pc \in LockedPCs
        /\ UNCHANGED <<dockerVars, dbVars, lockVars>>
        /\ \/ Goto(r, "unlock")
           \/ task[r].pc \in {"health", "port"} /\ Goto(r, "discard")
           \/ task[r].pc = "health" /\ Goto(r, "port")
           \/ task[r].pc = "port" /\ Goto(r, "record")
    BY <1>7 DEF ReloadFails, RefuseLaunch, HealthPassed, HealthFailed, ReadPort,
       LaunchConnectionLost, At, LockedPCs, LaunchPCs
  <2>2. /\ task' = [task EXCEPT ![r] = task'[r]] /\ task'[r].slot = task[r].slot
        /\ task'[r].target = task[r].target
        /\ \/ task'[r].pc = "unlock"
           \/ task[r].pc \in {"health", "port"} /\ task'[r].pc = "discard"
           \/ task[r].pc \in {"health", "port"} /\ task'[r].pc \in {"port", "record"}
    BY <2>1 DEF Goto, TaskOK, Tasks
  <2>3. LaunchFits(r)'
    BY <2>1, <2>2 DEF LaunchFits, LockedPCs, LaunchPCs, dockerVars, dbVars, lockVars
  <2>. QED
    BY <2>1, <2>2, <2>3, LaunchFrame DEF dockerVars, dbVars, lockVars
<1>8. CASE \E c \in Containers : RunContainer(r, c) \/ RunReplyLost(r, c)
  <2>1. PICK c \in Containers : RunContainer(r, c) \/ RunReplyLost(r, c)
    BY <1>8
  <2>2. /\ task[r].pc = "launch" /\ docker[c] = "unused"
        /\ docker' = [docker EXCEPT ![c] = "starting"]
        /\ slotOf' = [slotOf EXCEPT ![c] = task[r].slot]
        /\ UNCHANGED <<dbVars, lockVars>>
    BY <2>1 DEF RunContainer, RunReplyLost, StartContainer, At
  <2>3. /\ task' = [task EXCEPT ![r] = task'[r]] /\ task'[r].slot = task[r].slot
        /\ \/ task'[r].pc = "unlock"
           \/ task'[r].pc = "health" /\ task'[r].target = c
    BY <2>1 DEF RunContainer, RunReplyLost, Goto, TaskOK, Tasks
  <2>4. \A d \in Containers : docker[d] # "unused" =>
          docker'[d] # "unused" /\ slotOf'[d] = slotOf[d]
    BY <2>2 DEF TypeInv, TypeOK
  <2>5. AccountRows(rows', slotOf', a) = mine
    BY <2>2, <2>4 DEF AccountRows, CapInv, RowsUsed, dbVars
  <2>6. docker'[c] # "unused" /\ slotOf'[c] = task[r].slot
    BY <2>2 DEF TypeInv, TypeOK
  <2>7. LaunchFits(r)'
    <3> HIDE DEF mine
    <3>. QED
      BY <2>2, <2>3, <2>5, <2>6 DEF LaunchFits, LockedPCs, LaunchPCs, lockVars, mine
  <2>. QED
    BY <2>2, <2>3, <2>4, <2>7, LaunchFrame DEF dbVars, lockVars
<1>9. CASE DiscardContainer(r)
  <2>1. /\ task[r].pc = "discard" /\ Goto(r, "unlock")
        /\ UNCHANGED <<slotOf, dbVars, lockVars>>
        /\ \A c \in Containers : docker'[c] # "unused" \/ docker'[c] = docker[c]
    BY <1>9 DEF DiscardContainer, Kill, At, TypeInv, TypeOK
  <2>2. /\ task' = [task EXCEPT ![r] = task'[r]] /\ task'[r].slot = task[r].slot
        /\ task'[r].pc = "unlock"
    BY <2>1 DEF Goto, TaskOK, Tasks
  <2>3. LaunchFits(r)'
    BY <2>1, <2>2 DEF LaunchFits, LockedPCs, LaunchPCs, lockVars
  <2>. QED
    BY <2>1, <2>2, <2>3, LaunchFrame DEF dbVars, lockVars
<1>10. CASE ReleaseLaunchLock(r)
  <2>1. /\ task[r].pc = "unlock" /\ Return(r) /\ UNCHANGED <<dockerVars, dbVars>>
        /\ launchLock' = [launchLock EXCEPT ![a] =
                            IF launchLock[a] = r THEN NoActor ELSE launchLock[a]]
    BY <1>10 DEF ReleaseLaunchLock, At, AccountOf
  <2>2. ASSUME NEW q \in Requests
        PROVE  \/ task'[q].pc \notin LockedPCs
               \/ /\ task'[q] = task[q]
                  /\ task[q].pc \in LockedPCs =>
                       launchLock'[task[q].slot[1]] = launchLock[task[q].slot[1]]
    <3>1. CASE q = r
      BY <2>1, <3>1 DEF Return, Begin, Idle, NewTask, TaskOK, LockedPCs, LaunchPCs
    <3>2. CASE q # r
      <4>1. task'[q] = task[q]
        BY <2>1, <3>2 DEF Return, Begin, TaskOK, Actors
      <4>2. task[q].pc \in LockedPCs => launchLock[task[q].slot[1]] = q
        BY DEF CapInv, LaunchFits
      <4>. QED BY <2>1, <3>2, <4>1, <4>2 DEF TypeInv, TypeOK
    <3>. QED BY <3>1, <3>2
  <2>. QED
    BY <2>1, <2>2, QuietStep DEF dockerVars, dbVars
<1>11. CASE RecordInstance(r) \/ LaunchCommitLost(r)
  <2>1. /\ UNCHANGED <<dockerVars, lockVars>>
        /\ \/ rows' \subseteq rows /\ (Goto(r, "discard") \/ Goto(r, "unlock"))
           \/ rows' = rows \cup {task[r].target} /\ Goto(r, "unlock")
        /\ \/ task[r].pc = "record"
           \/ task[r].pc = "prune" /\ rows' \subseteq rows /\ Goto(r, "unlock")
    BY <1>11 DEF RecordInstance, LaunchCommitLost, DeleteRows, At
  <2>2. /\ task' = [task EXCEPT ![r] = task'[r]] /\ task'[r].slot = task[r].slot
        /\ task'[r].target = task[r].target
        /\ \/ task'[r].pc = "unlock"
           \/ task[r].pc = "record" /\ task'[r].pc = "discard"
    BY <2>1 DEF Goto, TaskOK, Tasks
  <2>3. CASE rows' \subseteq rows
    <3>1. Cardinality(AccountRows(rows', slotOf', a)) <= Cardinality(mine)
      <4>1. rows' \in SUBSET Containers /\ slotOf' = slotOf
        BY <2>1 DEF TypeInv, TypeOK, dockerVars
      <4>2. AccountRows(rows', slotOf', a) \subseteq AccountRows(rows, slotOf, a)
        BY <2>3, <4>1 DEF AccountRows
      <4>. QED BY <4>1, <4>2, FewerRows
    <3>2. /\ Cardinality(mine) \in Nat
          /\ Cardinality(AccountRows(rows', slotOf', a)) \in Nat
      BY AccountRowsFinite DEF TypeInv, TypeOK
    <3>3. Cardinality(mine) < MaxContainers
            => Cardinality(AccountRows(rows', slotOf', a)) < MaxContainers
      <4> HIDE DEF mine
      <4>. QED BY <3>1, <3>2
    <3>4. LaunchFits(r)'
      BY <2>1, <2>2, <3>3 DEF LaunchFits, LockedPCs, LaunchPCs, dockerVars, lockVars
    <3>. QED
      BY <2>1, <2>2, <2>3, <3>4, LaunchFrame DEF dockerVars, lockVars
  <2>4. CASE /\ rows' = rows \cup {task[r].target} /\ Goto(r, "unlock")
             /\ task[r].pc = "record"
    <3> DEFINE c == task[r].target
    <3>0. LaunchFits(r)'
      <4>1. task'[r].pc = "unlock"
        BY <2>4 DEF Goto, TaskOK, Tasks
      <4>. QED
        BY <2>1, <2>2, <2>4, <4>1 DEF LaunchFits, LockedPCs, LaunchPCs, dockerVars, lockVars
    <3>1. /\ c \in Containers /\ docker[c] # "unused"
          /\ slotOf[c][1] = a /\ a \in Accounts
          /\ Cardinality(mine) < MaxContainers
      BY <2>4 DEF TargetPCs, LaunchPCs, LaunchFits, Slots
    <3>2. ASSUME NEW b, b # a
          PROVE  AccountRows(rows', slotOf', b) = AccountRows(rows, slotOf, b)
      BY <2>1, <2>4, <3>1, <3>2 DEF AccountRows, dockerVars
    <3>3. ASSUME NEW b \in Accounts
          PROVE  Cardinality(AccountRows(rows', slotOf', b)) <= MaxContainers
      <4>1. CASE b = a
        <5>1. Cardinality(AccountRows(rows \cup {c}, slotOf, a)) <= Cardinality(mine) + 1
          BY <3>1, OneMoreRow
        <5>2. /\ Cardinality(mine) \in Nat
              /\ Cardinality(AccountRows(rows \cup {c}, slotOf, a)) \in Nat
          BY <3>1, AccountRowsFinite
        <5>3. Cardinality(AccountRows(rows \cup {c}, slotOf, a)) <= MaxContainers
          <6> HIDE DEF mine
          <6>. QED BY <3>1, <5>1, <5>2
        <5>. QED BY <4>1, <5>3, <2>1, <2>4 DEF dockerVars
      <4>2. CASE b # a
        <5>1. Cardinality(AccountRows(rows, slotOf, b)) <= MaxContainers
          BY DEF CapInv, WithinLimit, RowsOf, AccountRows
        <5>. QED BY <5>1, <4>2, <3>2
      <4>. QED BY <4>1, <4>2
    <3>4. WithinLimit'
      BY <3>3 DEF WithinLimit, RowsOf, AccountRows
    <3>5. RowsUsed'
      BY <2>1, <2>4, <3>1 DEF CapInv, RowsUsed, dockerVars
    <3>6. ASSUME NEW q \in Requests, q # r PROVE LaunchFits(q)'
      <4>1. task'[q] = task[q]
        BY <2>2, <3>6 DEF TaskOK, Actors
      <4>2. launchLock[a] = r
        BY <2>4 DEF LaunchFits, LockedPCs, LaunchPCs
      <4>3. task[q].pc \in LockedPCs => task[q].slot[1] # a
        BY <3>6, <4>2 DEF CapInv, LaunchFits
      <4>. QED
        BY <2>1, <3>2, <4>1, <4>3, Undisturbed DEF dockerVars, lockVars
    <3>. QED BY <3>0, <3>4, <3>5, <3>6 DEF CapInv
  <2>. QED BY <2>1, <2>3, <2>4
<1>. QED
  BY <1>1, <1>2, <1>3, <1>4, <1>5, <1>6, <1>7, <1>8, <1>9, <1>10, <1>11
     DEF LaunchStep, LaunchFault

LEMMA TeardownCap ==
  ASSUME TypeInv, TypeInv', CapInv, NEW x \in Actors,
         TeardownStep(x) \/ TeardownFault(x)
  PROVE  CapInv'
<1>0. TaskOK /\ task[x] \in Tasks
  BY TaskFacts
<1>1. /\ UNCHANGED <<slotOf, launchLock>> /\ rows' \subseteq rows
      /\ task' = [task EXCEPT ![x] = task'[x]]
      /\ task'[x].pc \notin LockedPCs
  <2> USE <1>0 DEF At, LockedPCs, LaunchPCs, dockerVars, dbVars, lockVars
  <2>1. ASSUME Goto(x, "cleanup") \/ Goto(x, "signal") \/ Goto(x, "score")
               \/ Goto(x, "renew") \/ Goto(x, "inspect")
               \/ Return(x) \/ KillRefused(x)
        PROVE  /\ task' = [task EXCEPT ![x] = task'[x]]
               /\ task'[x].pc \notin LockedPCs
    BY <2>1 DEF Goto, Return, Begin, KillRefused, Idle, NewTask, TaskOK, Tasks
  <2>2. CASE Inspect(x)
    BY <2>1, <2>2 DEF Inspect
  <2>3. CASE Signal(x)
    BY <2>1, <2>3 DEF Signal
  <2>4. CASE Cleanup(x)
    <3>1. CASE Batch(x)
      BY <2>4, <3>1 DEF Cleanup, AfterCleanup, Batch, DeleteRows, TaskOK, Tasks
    <3>2. CASE ~Batch(x)
      BY <2>1, <2>4, <3>2 DEF Cleanup, AfterCleanup, DeleteRows
    <3>. QED BY <3>1, <3>2
  <2>5. CASE \E c \in Containers : TakeNext(x, c)
    BY <2>5 DEF TakeNext, TaskOK, Tasks
  <2>6. CASE \E c \in Containers : NextIsGone(x, c)
    <3>1. CASE task[x].op = "purge"
      BY <2>6, <3>1 DEF NextIsGone, TaskOK, Tasks
    <3>2. CASE task[x].op # "purge"
      BY <2>1, <2>6, <3>2 DEF NextIsGone, Leave
    <3>. QED BY <3>1, <3>2
  <2>7. CASE FinishBatch(x)
    BY <2>1, <2>7 DEF FinishBatch, Leave
  <2>8. CASE CheckRunning(x)
    BY <2>1, <2>8 DEF CheckRunning
  <2>9. CASE CommitRenew(x) \/ ReloadForKill(x) \/ Score(x)
    BY <2>1, <2>9 DEF CommitRenew, ReloadForKill, Score
  <2>10. CASE TeardownFault(x)
    BY <2>1, <2>10 DEF TeardownFault, TeardownConnectionLost, TeardownCommitLost,
       DeleteRows, Leave
  <2>. QED
    BY <2>2, <2>3, <2>4, <2>5, <2>6, <2>7, <2>8, <2>9, <2>10 DEF TeardownStep
<1>2. \A c \in Containers : docker[c] # "unused" => docker'[c] # "unused"
  BY DEF TeardownStep, TeardownFault, Inspect, Signal, Cleanup, TakeNext, NextIsGone,
     FinishBatch, CheckRunning, CommitRenew, ReloadForKill, Score,
     TeardownConnectionLost, TeardownCommitLost, Kill, dockerVars, TypeInv, TypeOK
<1>3. \A q \in Requests : task'[q].pc \notin LockedPCs \/ task'[q] = task[q]
  BY <1>0, <1>1 DEF TaskOK, Actors
<1>. QED
  BY <1>1, <1>2, <1>3, QuietStep

LEMMA CapStep ==
  ASSUME AdvisoryLocks, TypeInv, TypeInv', CapInv, [Next]_vars
  PROVE  CapInv'
<1>1. ASSUME NEW r \in Requests, Arrive(r) PROVE CapInv'
  <2>1. \E t : t.pc \notin LockedPCs /\ Begin(r, t)
    BY <1>1 DEF Arrive, ArriveLaunch, StopInstance, Examine, SubmitFlag, AdminKill,
       AdminPurge, NewTask, LockedPCs, LaunchPCs
  <2>2. UNCHANGED <<dockerVars, dbVars, lockVars>>
    BY <1>1 DEF Arrive, ArriveLaunch, StopInstance, Examine, SubmitFlag, AdminKill, AdminPurge
  <2>3. \A q \in Requests : task'[q].pc \notin LockedPCs \/ task'[q] = task[q]
    BY <2>1 DEF Begin, TypeInv, TaskOK, Actors
  <2>. QED
    BY <2>2, <2>3, QuietStep DEF dockerVars, dbVars, lockVars
<1>2. ASSUME NEW x \in Scanners, StartScan(x) PROVE CapInv'
  <2>1. UNCHANGED <<dockerVars, dbVars, launchLock>>
    BY <1>2 DEF StartScan
  <2>2. \A q \in Requests : task'[q].pc \notin LockedPCs \/ task'[q] = task[q]
    BY <1>2 DEF StartScan, Begin, NewTask, TypeInv, TaskOK, Actors, LockedPCs, LaunchPCs
  <2>. QED
    BY <2>1, <2>2, QuietStep DEF dockerVars, dbVars
<1>3. ASSUME NEW x \in Actors, Proceed(x) PROVE CapInv'
  BY <1>3, LaunchCap, TeardownCap DEF Proceed
<1>4. ASSUME NEW x \in Actors, Crash(x) PROVE CapInv'
  <2>1. /\ UNCHANGED <<dockerVars, dbVars>> /\ Return(x)
        /\ launchLock' = [a \in Accounts |->
              IF launchLock[a] = x THEN NoActor ELSE launchLock[a]]
    BY <1>4 DEF Crash
  <2>2. ASSUME NEW q \in Requests
        PROVE  \/ task'[q].pc \notin LockedPCs
               \/ /\ task'[q] = task[q]
                  /\ task[q].pc \in LockedPCs =>
                       launchLock'[task[q].slot[1]] = launchLock[task[q].slot[1]]
    <3>1. CASE q = x
      BY <2>1, <3>1 DEF Return, Begin, Idle, NewTask, TypeInv, TaskOK, LockedPCs, LaunchPCs
    <3>2. CASE q # x
      <4>1. task'[q] = task[q]
        BY <2>1, <3>2 DEF Return, Begin, TypeInv, TaskOK, Actors
      <4>2. task[q].pc \in LockedPCs =>
              launchLock[task[q].slot[1]] = q /\ task[q].slot[1] \in Accounts
        BY TaskFacts DEF CapInv, LaunchFits, LockedPCs, Slots, Actors
      <4>. QED BY <2>1, <3>2, <4>1, <4>2
    <3>. QED BY <3>1, <3>2
  <2>. QED
    BY <2>1, <2>2, QuietStep DEF dockerVars, dbVars
<1>5. ASSUME NEW x \in Actors, TeardownFault(x) PROVE CapInv'
  BY <1>5, TeardownCap
<1>6. ASSUME NEW r \in Requests, LaunchFault(r) PROVE CapInv'
  BY <1>6, LaunchCap
<1>7. CASE Environment
  <2>1. /\ UNCHANGED <<slotOf, rows, lockVars, task>>
        /\ \A c \in Containers : docker[c] # "unused" => docker'[c] # "unused"
    BY <1>7 DEF Environment, BecomeHealthy, ExitContainer, AutoRemove, Tick,
       dockerVars, dbVars, TypeInv, TypeOK
  <2>. QED BY <2>1, QuietStep DEF lockVars
<1>8. CASE UNCHANGED vars
  BY <1>8, QuietStep DEF vars, dockerVars, dbVars, lockVars
<1>. QED
  BY <1>1, <1>2, <1>3, <1>4, <1>5, <1>6, <1>7, <1>8 DEF Next

LEMMA CapInit == Init => CapInv
<1> SUFFICES ASSUME Init PROVE CapInv
  OBVIOUS
<1>1. RowsUsed
  BY StoreAssumption DEF Init, StoreInit, RowsUsed
<1>2. \A r \in Requests : LaunchFits(r)
  BY DEF Init, StoreInit, LaunchFits, Idle, NewTask, LockedPCs, LaunchPCs, Actors
<1>3. ASSUME NEW a \in Accounts PROVE Cardinality(RowsOf(a)) <= MaxContainers
  <2>1. PICK f \in [Foreign -> Slots] :
          /\ Cardinality({c \in Foreign : f[c][1] = a}) <= MaxContainers
          /\ slotOf = [c \in Containers |-> IF c \in Foreign THEN f[c] ELSE NoSlot]
    BY DEF Init, StoreInit
  <2>2. RowsOf(a) = {c \in Foreign : f[c][1] = a}
    BY <2>1, StoreAssumption DEF Init, StoreInit, RowsOf
  <2>. QED BY <2>1, <2>2
<1>. QED BY <1>1, <1>2, <1>3 DEF CapInv, WithinLimit

\* A CTFd does not change its database.
LEMMA DialectKept == [Next]_vars => dialect' = dialect
<1> SUFFICES ASSUME [Next]_vars PROVE dialect' = dialect
  OBVIOUS
<1> USE DEF lockVars
<1>1. CASE \E r \in Requests : Arrive(r)
  BY <1>1 DEF Arrive, ArriveLaunch, StopInstance, Examine, SubmitFlag, AdminKill, AdminPurge
<1>2. CASE \E x \in Scanners : StartScan(x)
  BY <1>2 DEF StartScan
<1>3. CASE \E r \in Requests : LaunchStep(r) \/ LaunchFault(r)
  BY <1>3 DEF LaunchStep, LaunchFault, AcquireLaunchLock, LaunchLockTimeout, ReadAccount,
     PruneCheck, CommitPrune, Decide, ReloadFails, RefuseLaunch, RunContainer, HealthPassed,
     HealthFailed, ReadPort, RecordInstance, DiscardContainer, ReleaseLaunchLock,
     RunReplyLost, LaunchConnectionLost, LaunchCommitLost
<1>4. ASSUME NEW x \in Actors, TeardownStep(x) \/ TeardownFault(x)
      PROVE  dialect' = dialect
  <2>1. CASE \E c \in Containers : TakeNext(x, c) \/ NextIsGone(x, c)
    BY <2>1 DEF TakeNext, NextIsGone
  <2>2. CASE Inspect(x) \/ Signal(x) \/ Cleanup(x) \/ FinishBatch(x)
    BY <2>2 DEF Inspect, Signal, Cleanup, FinishBatch
  <2>3. CASE CheckRunning(x) \/ CommitRenew(x) \/ ReloadForKill(x) \/ Score(x)
    BY <2>3 DEF CheckRunning, CommitRenew, ReloadForKill, Score
  <2>4. CASE TeardownFault(x)
    BY <2>4 DEF TeardownFault, TeardownConnectionLost, TeardownCommitLost
  <2>. QED
    BY <1>4, <2>1, <2>2, <2>3, <2>4 DEF TeardownStep
<1>5. CASE \E x \in Actors : Crash(x)
  BY <1>5 DEF Crash
<1>6. CASE Environment
  BY <1>6 DEF Environment, BecomeHealthy, ExitContainer, AutoRemove, Tick
<1>7. CASE UNCHANGED vars
  BY <1>7 DEF vars
<1>. QED
  BY <1>1, <1>2, <1>3, <1>4, <1>5, <1>6, <1>7 DEF Next, Proceed

\* What advisory locks are for.
LockedInv == AdvisoryLocks => CapInv

LEMMA LockedInvHolds == Spec => []LockedInv
<1>1. Init => LockedInv
  BY CapInit DEF LockedInv
<1>2. TypeInv /\ TypeInv' /\ LockedInv /\ [Next]_vars => LockedInv'
  BY CapStep, DialectKept DEF LockedInv, AdvisoryLocks
<1>. QED BY <1>1, <1>2, TypeInvHolds, PTL DEF Spec

\* With the advisory locks of MySQL, and whatever connection faults and
\* crashes happen, no account ever has more recorded instances than
\* max_containers.
THEOREM CapacityHolds == Spec => []CapacityRespected
<1>1. LockedInv => CapacityRespected
  BY DEF LockedInv, CapInv, WithinLimit, CapacityRespected
<1>. QED BY <1>1, LockedInvHolds, PTL
=============================================================================
