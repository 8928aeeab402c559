----------------------------- MODULE Instances -----------------------------
(***************************************************************************)
(* The instance lifecycle: launches, the teardown paths and the expiry     *)
(* scanners interleaving over one database and one Docker daemon.          *)
(***************************************************************************)
EXTENDS LaunchPath, TeardownPaths

Init == StoreInit

Arrive(r) ==
  \/ \E s \in Slots : \/ ArriveLaunch(r, s) \/ StopInstance(r, s)
                      \/ Examine(r, s, "view") \/ Examine(r, s, "renew")
                      \/ SubmitFlag(r, s)
  \/ \E c \in Containers : AdminKill(r, c)
  \/ \E ids \in SUBSET rows : AdminPurge(r, ids)

\* The thread that serves x goes on.
Proceed(x) == TeardownStep(x) \/ (x \in Requests /\ LaunchStep(x))

Next ==
  \/ \E r \in Requests : Arrive(r)
  \/ \E x \in Scanners : StartScan(x)
  \/ \E x \in Actors : Proceed(x)
  \/ \E x \in Actors : TeardownFault(x) \/ Crash(x)
  \/ \E r \in Requests : LaunchFault(r)
  \/ Environment

Spec == Init /\ [][Next]_vars

\* A started thread runs on, the scheduler fires every interval, and Docker
\* removes a dead container.  Nobody has to send requests.
FairSpec ==
  /\ Spec
  /\ \A x \in Actors : WF_vars(Proceed(x))
  /\ \A x \in Scanners : WF_vars(StartScan(x))
  /\ \A c \in Containers : WF_vars(AutoRemove(c))

-----------------------------------------------------------------------------
\* Every variable keeps the shape the tables and handlers give it.
TypeOK ==
  /\ docker \in [Containers -> DockerStates]
  /\ slotOf \in [Containers -> Slots \cup {NoSlot}]
  /\ everHealthy \subseteq Containers
  /\ rows \subseteq Containers
  /\ due \subseteq rows
  /\ solved \subseteq Slots
  /\ launchLock \in [Accounts -> Requests \cup {NoActor}]
  /\ scanLock \in Scanners \cup {NoActor}
  /\ dialect \in Dialects
  /\ task \in [Actors -> Tasks]

\* An account never has more recorded instances than max_containers, however
\* its launches for different challenges interleave (helpers.create_container
\* counts, starts a container for up to a minute, and only then records it).
\* Holds with advisory locks.
CapacityRespected ==
  AdvisoryLocks => \A a \in Accounts : Cardinality(RowsOf(a)) <= MaxContainers

\* The bound holds for the containers that really run, too, recorded or not:
\* no path lets go of a running one.  Holds with advisory locks and without
\* connection faults.
RunningWithinCapacity ==
  AdvisoryLocks =>
    \A a \in Accounts :
      Cardinality({c \in Containers : Running(c) /\ slotOf[c][1] = a})
        <= MaxContainers

\* One instance per account and challenge, whatever the locks do: the unique
\* constraints refuse the second of two racing launches.
OneInstancePerSlot == \A c, d \in rows : slotOf[c] = slotOf[d] => c = d

\* An instance is on record only if its health check passed once
\* (README: "recorded and returned to the player only after it becomes
\* healthy").
RecordedWasHealthy == rows \subseteq everHealthy

\* A running container that no row describes belongs to a launch still in
\* progress: losing a unique-constraint race, a failed health check, a prune
\* or a teardown never abandons one.  Holds without connection faults.
NoOrphans ==
  \A c \in Containers :
    Running(c) /\ c \notin rows =>
      \E r \in Requests :
        /\ task[r].target = c
        /\ task[r].pc \in {"health", "port", "record", "discard"}

\* A row disappears only after its container stopped: neither a refused kill,
\* nor a stale check, nor a lost reply makes the plugin forget one.
ForgottenMeansStopped ==
  [][\A c \in rows \ rows' : ~Running(c)]_vars

\* Whatever the plugin does, a container labelled by another event or target
\* stops only by itself (README: "one CTFd instance cannot kill or adopt").
ForeignUntouched ==
  [][\A c \in Foreign : Running(c) /\ ~Running(c)' => ExitContainer(c)]_vars

\* When CTFd scores a flag, the instance it was submitted against is down and
\* off the record, whoever else was tearing it down: attempt() kills before it
\* returns "Correct".
ScoredIsTornDown ==
  \A r \in Requests :
    At(r, "score") /\ task[r].target # NoContainer =>
      task[r].target \notin rows /\ ~Running(task[r].target)

\* Every instance that expires is torn down or renewed, although any scan may
\* be refused, cut short or skipped because another worker scans.
ExpiredAreReaped ==
  \A c \in Containers \ Foreign : c \in due ~> c \notin due

\* Every request returns and every scan ends, the ones that wait for the
\* account's lock or for a health check that never passes included.
WorkEnds == \A x \in Actors : ~At(x, "idle") ~> At(x, "idle")

\* The lifecycle implements the service it promises.
Service == INSTANCE InstanceService
  WITH Instances <- Containers, Quota <- MaxContainers,
       granted <- rows, owner <- slotOf,
       up <- {c \in Containers : Running(c)}

ImplementsService == Service!ServiceSpec
=============================================================================
