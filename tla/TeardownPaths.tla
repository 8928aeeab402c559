--------------------------- MODULE TeardownPaths ---------------------------
(***************************************************************************)
(* Every path that ends an instance: the stop button, the admin's kill and *)
(* bulk purge, a correct flag, the expiry scan, and the two routes that    *)
(* look at an instance first (view_info, renew).  All of them kill through *)
(* ContainerManager.kill_container or find the container dead already.     *)
(***************************************************************************)
EXTENDS InstanceStore

\* Slip: the connection goes back to the pool with its lock.
FreeScanLockNever(x) == UNCHANGED scanLock

\* An actor is idle again; a scanner gives its advisory lock back.
FreeScanLock(x) == scanLock' = IF scanLock = x THEN NoActor ELSE scanLock
Leave(x) == Return(x) /\ FreeScanLock(x)

-----------------------------------------------------------------------------
(* Arrivals.  A handler's reads before its first commit see one snapshot,  *)
(* so finding the row belongs to the step in which the request arrives.    *)

\* route_stop_container: the row of the account and the challenge.
StopInstance(r, s) ==
  /\ At(r, "idle")
  /\ \E c \in RowsAt(s) :
       Begin(r, NewTask("inspect", "kill", NoSlot, c, {}))
  /\ UNCHANGED <<dockerVars, dbVars, lockVars>>

\* route_admin_kill_container: a row by its id.
AdminKill(r, c) ==
  /\ At(r, "idle")
  /\ c \in rows
  /\ Begin(r, NewTask("inspect", "kill", NoSlot, c, {}))
  /\ UNCHANGED <<dockerVars, dbVars, lockVars>>

\* route_purge_containers: ids taken from the dashboard.
AdminPurge(r, ids) ==
  /\ At(r, "idle")
  /\ ids # {}
  /\ Begin(r, NewTask("next", "purge", NoSlot, NoContainer, ids))
  /\ UNCHANGED <<dockerVars, dbVars, lockVars>>

\* view_container_info and renew_container on an account's own instance.
Examine(r, s, op) ==
  /\ At(r, "idle")
  /\ op \in {"view", "renew"}
  /\ \E c \in RowsAt(s) :
       Begin(r, NewTask("check", op, NoSlot, c, {}))
  /\ UNCHANGED <<dockerVars, dbVars, lockVars>>

\* ContainerChallenge.attempt with the right flag, up to the commit that
\* marks it used; CTFd calls it only while the slot is unsolved.
SubmitFlag(r, s) ==
  /\ At(r, "idle")
  /\ s \notin solved
  /\ \/ /\ RowsAt(s) = {}
        /\ Begin(r, NewTask("score", "solve", s, NoContainer, {}))
     \/ \E c \in RowsAt(s) : Begin(r, NewTask("attempt", "solve", s, c, {}))
  /\ UNCHANGED <<dockerVars, dbVars, lockVars>>

-----------------------------------------------------------------------------
(* ContainerManager.kill_container.                                        *)

Batch(x) == task[x].op \in {"purge", "scan"}

\* Slip: attempt() catches the exception and still reports "Correct".
KillRefusedButScored(x) ==
  IF Batch(x)
  THEN task' = [task EXCEPT ![x].pc = "next", ![x].target = NoContainer]
  ELSE IF task[x].op = "solve" THEN Goto(x, "score") ELSE Return(x)

\* ContainerException: a batch goes on with its next container; any other
\* caller gives up, attempt() by an exception before the solve is recorded.
KillRefused(x) ==
  IF Batch(x)
  THEN task' = [task EXCEPT ![x].pc = "next", ![x].target = NoContainer]
  ELSE Return(x)

\* Slip: the labels are not compared.
InspectUnowned(x) ==
  /\ At(x, "inspect")
  /\ Goto(x, IF Present(task[x].target) THEN "signal" ELSE "cleanup")
  /\ UNCHANGED <<dockerVars, dbVars, lockVars>>

\* Slip: the records go first, and the kill is skipped.
InspectWithoutKill(x) ==
  /\ At(x, "inspect")
  /\ Goto(x, "cleanup")
  /\ UNCHANGED <<dockerVars, dbVars, lockVars>>

\* _get_owned_container: a missing container is as good as killed, one with
\* another event's labels is refused.
Inspect(x) ==
  /\ At(x, "inspect")
  /\ LET c == task[x].target IN
     IF ~Present(c) THEN Goto(x, "cleanup")
     ELSE IF c \in Foreign THEN KillRefused(x)
     ELSE Goto(x, "signal")
  /\ UNCHANGED <<dockerVars, dbVars, lockVars>>

\* container.kill(): an APIError if it stopped in the meantime.
Signal(x) ==
  /\ At(x, "signal")
  /\ LET c == task[x].target IN
     IF Running(c) THEN Kill(c) /\ Goto(x, "cleanup")
                   ELSE UNCHANGED docker /\ KillRefused(x)
  /\ UNCHANGED <<slotOf, everHealthy, dbVars, lockVars>>

\* What the caller does when kill_container or the check came back.
AfterCleanup(x) ==
  \/ /\ Batch(x)
     /\ task' = [task EXCEPT ![x].pc = "next", ![x].target = NoContainer,
                             ![x].open = FALSE, ![x].snap = {}]
  \/ task[x].op = "solve" /\ Goto(x, "score")
  \/ task[x].op \in {"kill", "view", "renew"} /\ Return(x)

\* cleanup_container_records and its commit.
Cleanup(x) ==
  /\ At(x, "cleanup")
  /\ DeleteRows({task[x].target})
  /\ AfterCleanup(x)
  /\ UNCHANGED <<dockerVars, solved, lockVars>>

-----------------------------------------------------------------------------
(* The batches: an admin's purge, and the expiry scan every 5 seconds.     *)

Visible(x) == IF task[x].open THEN task[x].snap ELSE rows

ScanLockFree == ~AdvisoryLocks \/ scanLock = NoActor

\* An empty scan is left out: it takes the lock and gives it back.
StartScan(x) ==
  /\ At(x, "idle")
  /\ ScanLockFree
  /\ due # {}
  /\ scanLock' = IF AdvisoryLocks THEN x ELSE scanLock
  /\ Begin(x, NewTask("next", "scan", NoSlot, NoContainer, due))
  /\ UNCHANGED <<dockerVars, dbVars, launchLock, dialect>>

\* The scan does not look at expires again before it kills.
TakeNext(x, c) ==
  /\ At(x, "next")
  /\ c \in task[x].todo
  /\ c \in Visible(x)
  /\ task' = [task EXCEPT ![x].pc = "inspect", ![x].target = c,
                          ![x].todo = @ \ {c}, ![x].open = TRUE,
                          ![x].snap = (Visible(x) \cap task[x].todo) \ {c}]
  /\ UNCHANGED <<dockerVars, dbVars, lockVars>>

\* The purge queries each id again and passes over a missing row; the scan
\* reloads its expired ORM object, and ObjectDeletedError ends the scan.
NextIsGone(x, c) ==
  /\ At(x, "next")
  /\ c \in task[x].todo
  /\ c \notin Visible(x)
  /\ IF task[x].op = "purge"
     THEN /\ task' = [task EXCEPT ![x].todo = @ \ {c}, ![x].open = TRUE,
                                  ![x].snap = Visible(x) \cap task[x].todo]
          /\ UNCHANGED scanLock
     ELSE Leave(x)
  /\ UNCHANGED <<dockerVars, dbVars, launchLock, dialect>>

FinishBatch(x) ==
  /\ At(x, "next")
  /\ task[x].todo = {}
  /\ Leave(x)
  /\ UNCHANGED <<dockerVars, dbVars, launchLock, dialect>>

-----------------------------------------------------------------------------
(* view_info, renew and the end of attempt.                                *)

CheckRunning(r) ==
  /\ At(r, "check")
  /\ LET c == task[r].target IN
     IF ~Running(c) /\ ~(c \in Foreign /\ Present(c)) THEN Goto(r, "cleanup")
     ELSE IF c \notin Foreign /\ task[r].op = "renew" THEN Goto(r, "renew")
     ELSE Return(r)
  /\ UNCHANGED <<dockerVars, dbVars, lockVars>>

\* A row deleted meanwhile is a StaleDataError, the "Database error" reply.
CommitRenew(r) ==
  /\ At(r, "renew")
  /\ due' = due \ {task[r].target}
  /\ Return(r)
  /\ UNCHANGED <<dockerVars, rows, solved, lockVars>>

\* The commit expired container_info; reading its container_id reloads it.
ReloadForKill(r) ==
  /\ At(r, "attempt")
  /\ IF task[r].target \in rows THEN Goto(r, "inspect") ELSE Return(r)
  /\ UNCHANGED <<dockerVars, dbVars, lockVars>>

\* attempt() returned True: CTFd calls solve().
Score(r) ==
  /\ At(r, "score")
  /\ solved' = solved \cup {task[r].slot}
  /\ Return(r)
  /\ UNCHANGED <<dockerVars, rows, due, lockVars>>

TeardownStep(x) ==
  \/ Inspect(x) \/ Signal(x) \/ Cleanup(x)
  \/ (\E c \in Containers : TakeNext(x, c) \/ NextIsGone(x, c))
  \/ FinishBatch(x)
  \/ CheckRunning(x) \/ CommitRenew(x) \/ ReloadForKill(x) \/ Score(x)

-----------------------------------------------------------------------------
\* Slip: a lost connection is taken for a missing container.
TeardownConnectionIgnored(x) ==
  /\ "docker" \in Faults
  /\ task[x].pc \in {"inspect", "signal", "check"}
  /\ Goto(x, "cleanup")
  /\ UNCHANGED <<dockerVars, dbVars, lockVars>>

\* The wrapper reconnects and raises ContainerException; the kill itself may
\* have reached the daemon.
TeardownConnectionLost(x) ==
  /\ "docker" \in Faults
  /\ \/ /\ task[x].pc \in {"inspect", "signal"}
        /\ KillRefused(x)
        /\ \/ UNCHANGED docker
           \/ At(x, "signal") /\ Running(task[x].target) /\ Kill(task[x].target)
     \/ At(x, "check") /\ Return(x) /\ UNCHANGED docker
  /\ UNCHANGED <<slotOf, everHealthy, dbVars, lockVars>>

\* The database connection drops around a commit, applied or not; that is no
\* ContainerException, so a batch ends there too.
TeardownCommitLost(x) ==
  /\ "db" \in Faults
  /\ At(x, "cleanup")
  /\ UNCHANGED <<rows, due>> \/ DeleteRows({task[x].target})
  /\ Leave(x)
  /\ UNCHANGED <<dockerVars, solved, launchLock, dialect>>

TeardownFault(x) == TeardownConnectionLost(x) \/ TeardownCommitLost(x)
=============================================================================
