----------------------------- MODULE LaunchPath -----------------------------
(***************************************************************************)
(* POST /containers/api/request: helpers.create_container under the        *)
(* account's advisory lock, and ContainerManager.create_container inside   *)
(* it.  One action per step another process can interleave with.           *)
(***************************************************************************)
EXTENDS InstanceStore

AccountOf(r) == task[r].slot[1]

ArriveLaunch(r, s) ==
  /\ At(r, "idle")
  /\ Begin(r, NewTask("lockwait", "launch", s, NoContainer, {}))
  /\ UNCHANGED <<dockerVars, dbVars, lockVars>>

\* Slip: the lock name includes the challenge.
LaunchLockFreePerChallenge(s) ==
  launchLock[s[1]] # NoActor => task[launchLock[s[1]]].slot # s

\* One lock per account, not per challenge.
LaunchLockFree(s) == launchLock[s[1]] = NoActor
TakeLaunchLock(r, s) == launchLock' = [launchLock EXCEPT ![s[1]] = r]

AcquireLaunchLock(r) ==
  /\ At(r, "lockwait")
  /\ IF AdvisoryLocks
     THEN /\ LaunchLockFree(task[r].slot)
          /\ TakeLaunchLock(r, task[r].slot)
     ELSE UNCHANGED launchLock
  /\ Goto(r, "locked")
  /\ UNCHANGED <<dockerVars, dbVars, scanLock, dialect>>

\* Slip: GET_LOCK(name, -1), which waits without end.
LaunchLockTimeoutNever(r) == FALSE

\* GET_LOCK gives up after start_timeout_seconds + 5: ValueError, a 400.
LaunchLockTimeout(r) ==
  /\ At(r, "lockwait")
  /\ AdvisoryLocks
  /\ ~LaunchLockFree(task[r].slot)
  /\ Return(r)
  /\ UNCHANGED <<dockerVars, dbVars, lockVars>>

\* rollback() ends the snapshot opened before the lock wait; the solve and
\* the account's rows are then read from one fresh snapshot.
ReadAccount(r) ==
  /\ At(r, "locked")
  /\ IF task[r].slot \in solved
     THEN Goto(r, "unlock")
     ELSE task' = [task EXCEPT ![r].pc = "prune",
                               ![r].todo = RowsOf(AccountOf(r))]
  /\ UNCHANGED <<dockerVars, dbVars, lockVars>>

\* is_container_running on one row; a container of another event raises, and
\* the deletes already pending are discarded with the session.
PruneCheck(r, c) ==
  /\ At(r, "prune")
  /\ c \in task[r].todo
  /\ \/ c \in Foreign /\ Present(c) /\ Goto(r, "unlock")
     \/ /\ c \notin Foreign /\ Running(c)
        /\ task' = [task EXCEPT ![r].todo = @ \ {c},
                                ![r].active = @ \cup {c}]
     \/ /\ ~Running(c) /\ (c \in Foreign => ~Present(c))
        /\ task' = [task EXCEPT ![r].todo = @ \ {c},
                                ![r].stale = @ \cup {c}]
  /\ UNCHANGED <<dockerVars, dbVars, lockVars>>

\* The one commit of prune_stale_account_containers.
CommitPrune(r) ==
  /\ At(r, "prune")
  /\ task[r].todo = {}
  /\ task[r].stale # {}
  /\ DeleteRows(task[r].stale)
  /\ Goto(r, "reload")
  /\ UNCHANGED <<dockerVars, solved, lockVars>>

SameSlot(r) == {c \in task[r].active : slotOf[c] = task[r].slot}

\* The limit is tested before the row of the same challenge is returned.
Admitted(r) == /\ Cardinality(task[r].active) < MaxContainers
               /\ SameSlot(r) = {}

Decide(r) ==
  /\ \/ At(r, "prune") /\ task[r].todo = {} /\ task[r].stale = {}
     \/ /\ At(r, "reload")
        \* The commit expired the ORM objects; the search for the challenge
        \* reloads them one by one and stops at the first match.
        /\ \/ task[r].active \subseteq rows
           \/ SameSlot(r) \cap rows # {}
  /\ Goto(r, IF Admitted(r) THEN "launch" ELSE "unlock")
  /\ UNCHANGED <<dockerVars, dbVars, lockVars>>

\* ObjectDeletedError: an expired row was deleted by another process.
ReloadFails(r) ==
  /\ At(r, "reload")
  /\ ~(task[r].active \subseteq rows)
  /\ Goto(r, "unlock")
  /\ UNCHANGED <<dockerVars, dbVars, lockVars>>

\* Runtime boundary, image contract, flag, volume and capability checks, or
\* the daemon, refuse before any container exists.
RefuseLaunch(r) ==
  /\ At(r, "launch")
  /\ Goto(r, "unlock")
  /\ UNCHANGED <<dockerVars, dbVars, lockVars>>

StartContainer(r, c) ==
  /\ docker[c] = "unused"
  /\ docker' = [docker EXCEPT ![c] = "starting"]
  /\ slotOf' = [slotOf EXCEPT ![c] = task[r].slot]
  /\ UNCHANGED everHealthy

RunContainer(r, c) ==
  /\ At(r, "launch")
  /\ StartContainer(r, c)
  /\ task' = [task EXCEPT ![r].pc = "health", ![r].target = c]
  /\ UNCHANGED <<dbVars, lockVars>>

\* Slip: any running container counts as healthy.
HealthPassedIfRunning(r) ==
  /\ At(r, "health")
  /\ Running(task[r].target)
  /\ Goto(r, "port")
  /\ UNCHANGED <<dockerVars, dbVars, lockVars>>

HealthPassed(r) ==
  /\ At(r, "health")
  /\ docker[task[r].target] = "healthy"
  /\ Goto(r, "port")
  /\ UNCHANGED <<dockerVars, dbVars, lockVars>>

\* Slip: no startup deadline.
HealthFailedNoDeadline(r) ==
  /\ At(r, "health")
  /\ ~Running(task[r].target)
  /\ Goto(r, "discard")
  /\ UNCHANGED <<dockerVars, dbVars, lockVars>>

\* _wait_until_healthy raises: exited, unhealthy, already removed, or the
\* startup deadline passed, which may happen at any poll.
HealthFailed(r) ==
  /\ At(r, "health")
  /\ Goto(r, "discard")
  /\ UNCHANGED <<dockerVars, dbVars, lockVars>>

\* get_container_port: only a running container still publishes its port.
ReadPort(r) ==
  /\ At(r, "port")
  /\ Goto(r, IF Running(task[r].target) THEN "record" ELSE "discard")
  /\ UNCHANGED <<dockerVars, dbVars, lockVars>>

\* Slip: no unique constraint.
SlotNeverTaken(s) == FALSE

\* Insert the row and its flag; the unique constraints on (challenge, team)
\* and (challenge, user) turn a second row into an IntegrityError.
SlotTaken(s) == RowsAt(s) # {}

\* Slip: on an IntegrityError the new container is left alone.
RecordInstanceUnkilled(r) ==
  /\ At(r, "record")
  /\ Goto(r, "unlock")
  /\ rows' = IF SlotTaken(task[r].slot) THEN rows ELSE rows \cup {task[r].target}
  /\ UNCHANGED <<dockerVars, due, solved, lockVars>>

RecordInstance(r) ==
  /\ At(r, "record")
  /\ IF SlotTaken(task[r].slot)
     THEN Goto(r, "discard") /\ UNCHANGED rows
     ELSE Goto(r, "unlock") /\ rows' = rows \cup {task[r].target}
  /\ UNCHANGED <<dockerVars, due, solved, lockVars>>

\* Slip: only the rollback.
DiscardNothing(r) ==
  /\ At(r, "discard")
  /\ Goto(r, "unlock")
  /\ UNCHANGED <<dockerVars, dbVars, lockVars>>

\* rollback(), then kill the new container; every error of it is swallowed.
DiscardContainer(r) ==
  /\ At(r, "discard")
  /\ IF Running(task[r].target) THEN Kill(task[r].target)
                                ELSE UNCHANGED docker
  /\ Goto(r, "unlock")
  /\ UNCHANGED <<slotOf, everHealthy, dbVars, lockVars>>

\* RELEASE_LOCK in the finally block, and the reply.
ReleaseLaunchLock(r) ==
  /\ At(r, "unlock")
  /\ launchLock' = [launchLock EXCEPT ![AccountOf(r)] =
                      IF @ = r THEN NoActor ELSE @]
  /\ Return(r)
  /\ UNCHANGED <<dockerVars, dbVars, scanLock, dialect>>

LaunchStep(r) ==
  \/ AcquireLaunchLock(r) \/ LaunchLockTimeout(r)
  \/ ReadAccount(r) \/ (\E c \in Containers : PruneCheck(r, c))
  \/ CommitPrune(r) \/ Decide(r) \/ ReloadFails(r)
  \/ RefuseLaunch(r) \/ (\E c \in Containers : RunContainer(r, c))
  \/ HealthPassed(r) \/ HealthFailed(r) \/ ReadPort(r)
  \/ RecordInstance(r) \/ DiscardContainer(r) \/ ReleaseLaunchLock(r)

-----------------------------------------------------------------------------
(* A dropped connection to Docker or to the database in the middle of it.  *)

\* The daemon started the container, but the reply to containers.run is lost.
RunReplyLost(r, c) ==
  /\ "docker" \in Faults
  /\ At(r, "launch")
  /\ StartContainer(r, c)
  /\ Goto(r, "unlock")
  /\ UNCHANGED <<dbVars, lockVars>>

\* Slip: a transport error during the health wait counts as an answer.
LaunchConnectionIgnored(r) ==
  /\ "docker" \in Faults
  /\ \/ task[r].pc \in {"prune", "discard"} /\ Goto(r, "unlock")
     \/ At(r, "health") /\ Goto(r, "port")
     \/ At(r, "port") /\ Goto(r, "discard")
  /\ UNCHANGED <<dockerVars, dbVars, lockVars>>

\* A transport error is none of the exceptions create_container handles, so
\* the container keeps running unrecorded; inside get_container_port the
\* wrapper turns it into a ContainerException, and the kill follows.
LaunchConnectionLost(r) ==
  /\ "docker" \in Faults
  /\ \/ task[r].pc \in {"prune", "health", "discard"} /\ Goto(r, "unlock")
     \/ At(r, "port") /\ Goto(r, "discard")
  /\ UNCHANGED <<dockerVars, dbVars, lockVars>>

\* A commit fails with something other than IntegrityError; the server may
\* have applied it before the connection dropped.
LaunchCommitLost(r) ==
  /\ "db" \in Faults
  /\ Goto(r, "unlock")
  /\ \/ /\ At(r, "record")
        /\ ~SlotTaken(task[r].slot)
        /\ rows' \in {rows, rows \cup {task[r].target}}
        /\ UNCHANGED due
     \/ /\ At(r, "prune") /\ task[r].todo = {} /\ task[r].stale # {}
        /\ UNCHANGED <<rows, due>> \/ DeleteRows(task[r].stale)
  /\ UNCHANGED <<dockerVars, solved, lockVars>>

LaunchFault(r) == \/ \E c \in Containers : RunReplyLost(r, c)
                  \/ LaunchConnectionLost(r)
                  \/ LaunchCommitLost(r)
=============================================================================
