--------------------------- MODULE InstanceStore ---------------------------
(***************************************************************************)
(* The state the plugin's request handlers and expiry scanners share: the  *)
(* Docker daemon, the container_info_model table, the Solves table of      *)
(* CTFd and the two kinds of MySQL advisory lock; and the steps Docker and *)
(* the clock take on their own.                                            *)
(***************************************************************************)
EXTENDS Naturals, FiniteSets

CONSTANTS
  Accounts,       \* teams (or users, in user mode)
  Challenges,     \* container challenges
  Containers,     \* Docker container ids; Docker never issues one twice
  Requests,       \* web requests being served, over all worker processes
  Scanners,       \* expiry schedulers, one per worker process
  MaxContainers,  \* the max_containers setting
  Dialects,       \* the databases CTFd may run on, of DialectKinds
  Faults,         \* the faults that may happen, a subset of FaultKinds
  Foreign,        \* containers recorded here, but labelled by another event
  NoSlot, NoContainer, NoActor

FaultKinds == {"docker", "db", "crash"}

\* MySQL and MariaDB, which have GET_LOCK, and the rest.
DialectKinds == {"mysql", "other"}

\* An instance belongs to one account and one challenge.
Slots == Accounts \X Challenges
Actors == Requests \cup Scanners

ASSUME StoreAssumption ==
  /\ IsFiniteSet(Containers)
  /\ Requests \cap Scanners = {}
  /\ MaxContainers \in Nat \ {0}
  /\ Dialects \subseteq DialectKinds
  /\ Faults \subseteq FaultKinds
  /\ Foreign \subseteq Containers
  /\ NoSlot \notin Slots
  /\ NoContainer \notin Containers
  /\ NoActor \notin Actors

VARIABLES
  docker,       \* what the daemon says of each container id
  slotOf,       \* the slot in a container's labels, and in its row
  everHealthy,  \* containers whose HEALTHCHECK ever passed (history)
  rows,         \* the ids in container_info_model
  due,          \* the rows whose expires <= now
  solved,       \* the slots CTFd's Solves table holds
  launchLock,   \* the holder of "docker-per-team:{scope}:{xid}:launch"
  scanLock,     \* the holder of "docker-per-team:expire-scan"
  dialect,      \* the database of this CTFd
  task          \* what each request or scanner is doing

dockerVars == <<docker, slotOf, everHealthy>>
dbVars == <<rows, due, solved>>
lockVars == <<launchLock, scanLock, dialect>>
vars == <<dockerVars, dbVars, lockVars, task>>

-----------------------------------------------------------------------------
(* What an actor remembers between two steps.  A batch reads rows under    *)
(* REPEATABLE READ: while its transaction is "open", it sees "snap", the   *)
(* part of the snapshot it still depends on.                               *)

PCs == {"idle", "lockwait", "locked", "prune", "reload", "launch", "health",
        "port", "record", "discard", "unlock",
        "next", "inspect", "signal", "cleanup", "check", "renew",
        "attempt", "score"}
Ops == {"none", "launch", "kill", "purge", "scan", "view", "renew", "solve"}

Tasks == [pc : PCs, op : Ops, slot : Slots \cup {NoSlot},
          target : Containers \cup {NoContainer},
          todo : SUBSET Containers, active : SUBSET Containers,
          stale : SUBSET Containers,
          open : BOOLEAN, snap : SUBSET Containers]

\* The task of a request or scan that arrives for slot s and container c, or
\* with a batch of rows read in the transaction it opens.
NewTask(pc, op, s, c, batch) ==
  [pc |-> pc, op |-> op, slot |-> s, target |-> c,
   todo |-> batch, active |-> {}, stale |-> {},
   open |-> batch # {}, snap |-> batch]

Idle == NewTask("idle", "none", NoSlot, NoContainer, {})

Begin(x, t) == task' = [task EXCEPT ![x] = t]
At(x, pc) == task[x].pc = pc
Goto(x, pc) == task' = [task EXCEPT ![x].pc = pc]
Return(x) == Begin(x, Idle)

-----------------------------------------------------------------------------
(* The database.                                                           *)

\* On other dialects the locks are granted without asking.
AdvisoryLocks == dialect = "mysql"

RowsOf(a) == {c \in rows : slotOf[c][1] = a}
RowsAt(s) == {c \in rows : slotOf[c] = s}

\* Slip: expires outlives the row it belongs to.
DeleteRowsOnly(S) == /\ rows' = rows \ S
                     /\ UNCHANGED due

\* session.delete + commit; deleting a row that is gone already only warns.
DeleteRows(S) == /\ rows' = rows \ S
                 /\ due' = due \ S

-----------------------------------------------------------------------------
(* The Docker daemon.  A container is created with auto_remove, so a dead  *)
(* one disappears a little later; until then killing it is an error 409.   *)

DockerStates == {"unused", "starting", "healthy", "dead", "removed"}

Running(c) == docker[c] \in {"starting", "healthy"}
Present(c) == docker[c] \in {"starting", "healthy", "dead"}

\* container.kill() on a container that runs.
Kill(c) == docker' = [docker EXCEPT ![c] = "dead"]

BecomeHealthy(c) ==
  /\ docker[c] = "starting"
  /\ docker' = [docker EXCEPT ![c] = "healthy"]
  /\ everHealthy' = everHealthy \cup {c}
  /\ UNCHANGED <<slotOf, dbVars, lockVars, task>>

ExitContainer(c) ==
  /\ Running(c)
  /\ docker' = [docker EXCEPT ![c] = "dead"]
  /\ UNCHANGED <<slotOf, everHealthy, dbVars, lockVars, task>>

AutoRemove(c) ==
  /\ docker[c] = "dead"
  /\ docker' = [docker EXCEPT ![c] = "removed"]
  /\ UNCHANGED <<slotOf, everHealthy, dbVars, lockVars, task>>

\* The clock passes the row's expires.
Tick(c) ==
  /\ c \in rows \ due
  /\ due' = due \cup {c}
  /\ UNCHANGED <<dockerVars, rows, solved, lockVars, task>>

Environment ==
  \E c \in Containers :
    BecomeHealthy(c) \/ ExitContainer(c) \/ AutoRemove(c) \/ Tick(c)

-----------------------------------------------------------------------------
\* A worker process dies: its session and lock connection close, so MySQL
\* rolls back and releases its locks; nothing is done to its containers.
Crash(x) ==
  /\ "crash" \in Faults
  /\ task[x] # Idle
  /\ Return(x)
  /\ launchLock' = [a \in Accounts |->
                      IF launchLock[a] = x THEN NoActor ELSE launchLock[a]]
  /\ scanLock' = IF scanLock = x THEN NoActor ELSE scanLock
  /\ UNCHANGED <<dockerVars, dbVars, dialect>>

-----------------------------------------------------------------------------
StoreInit ==
  /\ \E f \in [Foreign -> Slots] :
       /\ \A c, d \in Foreign : f[c] = f[d] => c = d
       /\ \A a \in Accounts :
            Cardinality({c \in Foreign : f[c][1] = a}) <= MaxContainers
       /\ slotOf = [c \in Containers |-> IF c \in Foreign THEN f[c] ELSE NoSlot]
  /\ docker = [c \in Containers |->
                 IF c \in Foreign THEN "healthy" ELSE "unused"]
  /\ everHealthy = Foreign
  /\ rows = Foreign
  /\ due = {}
  /\ solved = {}
  /\ launchLock = [a \in Accounts |-> NoActor]
  /\ scanLock = NoActor
  /\ dialect \in Dialects
  /\ task = [x \in Actors |-> Idle]
=============================================================================
