----------------------------- MODULE Connection -----------------------------
(***************************************************************************)
(* One worker process's ContainerManager: the Docker client and the expiry *)
(* scheduler its threads share, run_command, which guards every call, and  *)
(* initialize_connection, which replaces both without a lock.  Settings    *)
(* are validated at startup and before they are saved, so the refusals of  *)
(* an invalid one are left out.                                            *)
(***************************************************************************)
EXTENDS Integers

CONSTANTS
  Callers,     \* threads that serve web requests
  Schedulers,  \* BackgroundScheduler objects; each runs its scan in a thread
  MaxUpsets,   \* bound on settings saves and failed exchanges with the daemon
  MaxDue,      \* bound on the expired containers one scan finds
  NoScheduler

ASSUME ConnectionAssumption ==
  /\ Callers \cap Schedulers = {}
  /\ NoScheduler \notin Callers \cup Schedulers
  /\ MaxUpsets \in Nat
  /\ MaxDue \in Nat

\* A scan runs in the thread pool of its scheduler, named like it.
Threads == Callers \cup Schedulers

VARIABLES
  client,   \* TRUE if self.client is a client, FALSE if it is None
  current,  \* self.expiration_scheduler
  sched,    \* the state of each scheduler object
  jobs,     \* the scheduler objects that have been given the scan job
  call,     \* what each thread is doing
  losses,   \* failed exchanges so far
  saves,    \* settings saves so far
  entangled \* initialize_connection has run in two threads at once, or in
            \* the thread of a scan (history)

vars == <<client, current, sched, jobs, call, losses, saves, entangled>>

PCs == {"idle", "guard", "ping", "body", "rowwait",
        "shutdown", "join", "connect", "verify", "install", "addjob", "start"}

\* why: the call site of initialize_connection; nested: a kill inside a scan;
\* due: the expired containers the scan still has to kill; locks: the thread's
\* open transaction has deleted rows; waited: the scheduler this thread's
\* initialize_connection shut down.
Calls == [pc : PCs, why : {"none", "guard", "recover", "save"},
          nested : BOOLEAN, due : 0..MaxDue, locks : BOOLEAN,
          waited : Schedulers \cup {NoScheduler}]

Rest == [pc |-> "idle", why |-> "none", nested |-> FALSE, due |-> 0,
         locks |-> FALSE, waited |-> NoScheduler]

At(t, pc) == call[t].pc = pc
Goto(t, pc) == call' = [call EXCEPT ![t].pc = pc]
Leave(t) == call' = [call EXCEPT ![t] = Rest]
Busy(t) == ~At(t, "idle")

\* An exchange with the daemon fails.
Lose == losses + saves < MaxUpsets /\ losses' = losses + 1

\* The call returns or raises a ContainerException: after a nested kill the
\* scan goes on, any other call is over.
Raise(t) ==
  IF call[t].nested
  THEN call' = [call EXCEPT ![t].pc = "body", ![t].why = "none",
                            ![t].nested = FALSE, ![t].waited = NoScheduler]
  ELSE Leave(t)

-----------------------------------------------------------------------------
(* run_command.                                                            *)

\* A prune that has found two stale rows has flushed the first deletion
\* (autoflush) and asks for the next container with the row locks held.
Request(t) ==
  /\ t \in Callers
  /\ At(t, "idle")
  /\ \E locks \in BOOLEAN :
       call' = [call EXCEPT ![t].pc = "guard", ![t].locks = locks]
  /\ UNCHANGED <<client, current, sched, jobs, losses, saves>>

\* The interval trigger; max_instances is 1.  Two jobs of one scheduler count
\* as one: their scans compete for the scan lock.
Scan(s) ==
  /\ s \in Schedulers
  /\ sched[s] = "running"
  /\ s \in jobs
  /\ At(s, "idle")
  /\ \E n \in 0..MaxDue :
       call' = [call EXCEPT ![s].pc = "guard", ![s].due = n]
  /\ UNCHANGED <<client, current, sched, jobs, losses, saves>>

Guard(t) ==
  /\ At(t, "guard")
  /\ call' = IF client
             THEN [call EXCEPT ![t].pc = "ping"]
             ELSE [call EXCEPT ![t].pc = "shutdown", ![t].why = "guard"]
  /\ UNCHANGED <<client, current, sched, jobs, losses, saves>>

\* Talking to the daemon; the scan itself only does so in a nested kill.
InExchange(t) ==
  \/ At(t, "ping")
  \/ At(t, "body") /\ (t \in Callers \/ call[t].nested)

Ping(t) ==
  /\ At(t, "ping")
  /\ client
  /\ Goto(t, "body")
  /\ UNCHANGED <<client, current, sched, jobs, losses, saves>>

\* Another thread set the client to None: "Docker is not connected", or an
\* AttributeError, which nobody handles, after the test.
ClientGone(t) ==
  /\ InExchange(t)
  /\ ~client
  /\ Raise(t) \/ Leave(t)
  /\ UNCHANGED <<client, current, sched, jobs, losses, saves>>

Lost(t) ==
  /\ InExchange(t)
  /\ Lose
  /\ call' = [call EXCEPT ![t].pc = "shutdown", ![t].why = "recover"]
  /\ UNCHANGED <<client, current, sched, jobs, saves>>

\* Slip: the loop does not stop at the end of the list.
NestedKillUnbounded(s) ==
  /\ s \in Schedulers
  /\ At(s, "body")
  /\ ~call[s].nested
  /\ call' = [call EXCEPT ![s].pc = "guard", ![s].nested = TRUE,
                          ![s].due = @ - 1]
  /\ UNCHANGED <<client, current, sched, jobs, losses, saves>>

\* The scan kills one expired container, by another guarded call.
NestedKill(s) ==
  /\ s \in Schedulers
  /\ At(s, "body")
  /\ ~call[s].nested
  /\ call[s].due > 0
  /\ call' = [call EXCEPT ![s].pc = "guard", ![s].nested = TRUE,
                          ![s].due = @ - 1]
  /\ UNCHANGED <<client, current, sched, jobs, losses, saves>>

Succeed(t) ==
  /\ At(t, "body")
  /\ t \in Callers \/ call[t].nested \/ call[t].due = 0
  /\ client \/ ~InExchange(t)
  /\ Raise(t)
  /\ UNCHANGED <<client, current, sched, jobs, losses, saves>>

RowsLocked == \E t \in Callers : call[t].locks

\* cleanup_container_records of a killed instance meets a row of the prune.
RowBlocked(s) ==
  /\ At(s, "body")
  /\ call[s].nested
  /\ client
  /\ RowsLocked
  /\ Goto(s, "rowwait")
  /\ UNCHANGED <<client, current, sched, jobs, losses, saves>>

RowFree(s) ==
  /\ At(s, "rowwait")
  /\ ~RowsLocked
  /\ Raise(s)
  /\ UNCHANGED <<client, current, sched, jobs, losses, saves>>

\* innodb_lock_wait_timeout: an OperationalError, which ends the scan.
RowTimeout(s) ==
  /\ At(s, "rowwait")
  /\ RowsLocked
  /\ Leave(s)
  /\ UNCHANGED <<client, current, sched, jobs, losses, saves>>

-----------------------------------------------------------------------------
(* initialize_connection.                                                  *)

\* route_update_settings, after the commit.
SaveSettings(t) ==
  /\ t \in Callers
  /\ At(t, "idle")
  /\ losses + saves < MaxUpsets
  /\ saves' = saves + 1
  /\ call' = [call EXCEPT ![t].pc = "shutdown", ![t].why = "save"]
  /\ UNCHANGED <<client, current, sched, jobs, losses>>

CurrentRuns == current # NoScheduler /\ sched[current] = "running"

\* Slip: shutdown(wait=False).
ShutdownCurrentNoWait(t) ==
  /\ sched' = [sched EXCEPT ![current] = "stopped"]
  /\ IF t = current
     THEN Raise(t)
     ELSE call' = [call EXCEPT ![t].pc = "connect", ![t].waited = current]

\* Slip: a scan waits for itself instead of failing.
ShutdownCurrentOrHang(t) ==
  /\ sched' = [sched EXCEPT ![current] = "stopped"]
  /\ call' = [call EXCEPT ![t].pc = "join", ![t].waited = current]

\* shutdown() stops the scheduler, then joins its thread pool.  A thread of
\* the pool cannot join itself: the RuntimeError ends initialize_connection.
ShutdownCurrent(t) ==
  /\ sched' = [sched EXCEPT ![current] = "stopped"]
  /\ IF t = current
     THEN Raise(t)
     ELSE call' = [call EXCEPT ![t].pc = "join", ![t].waited = current]

Shutdown(t) ==
  /\ At(t, "shutdown")
  /\ CurrentRuns
  /\ ShutdownCurrent(t)
  /\ UNCHANGED <<client, current, jobs, losses, saves>>

\* SchedulerNotRunningError, or no attribute yet.
NothingToShutDown(t) ==
  /\ At(t, "shutdown")
  /\ ~CurrentRuns
  /\ Goto(t, "connect")
  /\ UNCHANGED <<client, current, sched, jobs, losses, saves>>

Joined(t) ==
  /\ At(t, "join")
  /\ ~Busy(call[t].waited)
  /\ Goto(t, "connect")
  /\ UNCHANGED <<client, current, sched, jobs, losses, saves>>

Connect(t) ==
  /\ At(t, "connect")
  /\ client' = TRUE
  /\ Goto(t, "verify")
  /\ UNCHANGED <<current, sched, jobs, losses, saves>>

\* ping, info, the network: they are asked of whatever self.client is now.
Verify(t) ==
  /\ At(t, "verify")
  /\ client
  /\ Goto(t, "install")
  /\ UNCHANGED <<client, current, sched, jobs, losses, saves>>

\* _mark_connection_failure and the exception.
ConnectFails(t) ==
  /\ call[t].pc \in {"connect", "verify"}
  /\ Lose
  /\ client' = FALSE
  /\ Raise(t)
  /\ UNCHANGED <<current, sched, jobs, saves>>

\* A transport error of requests or paramiko, or an AttributeError after
\* another thread's failure, is in none of the except clauses: the client
\* stays as it is.
ConnectRaises(t) ==
  /\ \/ call[t].pc \in {"connect", "verify"} /\ Lose
     \/ At(t, "verify") /\ ~client /\ UNCHANGED losses
  /\ Raise(t)
  /\ UNCHANGED <<client, current, sched, jobs, saves>>

\* A new object; for TLC, one that is forgotten may be named again.
Fresh(s) == /\ sched[s] # "running"
            /\ s # current
            /\ ~Busy(s)
            /\ \A t \in Threads : call[t].waited # s

\* self.expiration_scheduler = BackgroundScheduler()
Install(t, s) ==
  /\ At(t, "install")
  /\ Fresh(s)
  /\ current' = s
  /\ sched' = [sched EXCEPT ![s] = "new"]
  /\ jobs' = jobs \ {s}
  /\ Goto(t, "addjob")
  /\ UNCHANGED <<client, losses, saves>>

\* self.expiration_scheduler.add_job(): here, and in start(), it may be
\* another thread's object by now.
AddJob(t) ==
  /\ At(t, "addjob")
  /\ jobs' = jobs \cup {current}
  /\ Goto(t, "start")
  /\ UNCHANGED <<client, current, sched, losses, saves>>

\* The end of a successful initialize_connection: the guarded call goes on,
\* a lost one raises "Please try your request again later".
Connected(t) ==
  CASE call[t].why = "guard" ->
         call' = [call EXCEPT ![t].pc = "ping", ![t].why = "none",
                              ![t].waited = NoScheduler]
    [] call[t].why = "recover" -> Raise(t)
    [] OTHER -> Leave(t)

\* Slip: a scheduler is started only if the thread has shut one down.
StartIfReplaced(t) ==
  /\ At(t, "start")
  /\ sched[current] # "running"
  /\ sched' = IF sched[current] = "new" /\ call[t].waited # NoScheduler
              THEN [sched EXCEPT ![current] = "running"] ELSE sched
  /\ Connected(t)
  /\ UNCHANGED <<client, current, jobs, losses, saves>>

\* One that was shut down starts with a dead thread pool.
Start(t) ==
  /\ At(t, "start")
  /\ sched[current] # "running"
  /\ sched' = IF sched[current] = "new"
              THEN [sched EXCEPT ![current] = "running"] ELSE sched
  /\ Connected(t)
  /\ UNCHANGED <<client, current, jobs, losses, saves>>

\* SchedulerAlreadyRunningError: another thread started it.
StartRefused(t) ==
  /\ At(t, "start")
  /\ sched[current] = "running"
  /\ Raise(t)
  /\ UNCHANGED <<client, current, sched, jobs, losses, saves>>

-----------------------------------------------------------------------------
\* ContainerManager() at startup: connected, or "service is unavailable".
Init ==
  /\ \/ /\ client = TRUE
        /\ current \in Schedulers
        /\ sched = [s \in Schedulers |->
                      IF s = current THEN "running" ELSE "new"]
        /\ jobs = {current}
     \/ /\ client = FALSE
        /\ current = NoScheduler
        /\ sched = [s \in Schedulers |-> "new"]
        /\ jobs = {}
  /\ call = [t \in Threads |-> Rest]
  /\ losses = 0
  /\ saves = 0
  /\ entangled = FALSE

Initialize(t) ==
  \/ Shutdown(t) \/ NothingToShutDown(t) \/ Joined(t)
  \/ Connect(t) \/ Verify(t) \/ ConnectFails(t) \/ ConnectRaises(t)
  \/ (\E s \in Schedulers : Install(t, s)) \/ AddJob(t)
  \/ Start(t) \/ StartRefused(t)

RunCommand(t) ==
  \/ Guard(t) \/ Ping(t) \/ ClientGone(t) \/ Lost(t) \/ NestedKill(t)
  \/ Succeed(t) \/ RowBlocked(t) \/ RowFree(t) \/ RowTimeout(t)

Arrive(t) == Request(t) \/ SaveSettings(t) \/ Scan(t)

Initializing(t) ==
  call[t].pc \in {"shutdown", "join", "connect", "verify", "install", "addjob", "start"}

Tangle == \E t \in Threads :
            /\ Initializing(t)
            /\ t \in Schedulers \/ \E u \in Threads \ {t} : Initializing(u)

Remember == entangled' = (entangled \/ Tangle')

Advance(t) == (RunCommand(t) \/ Initialize(t)) /\ Remember

Next == \E t \in Threads : Advance(t) \/ (Arrive(t) /\ Remember)

Spec == Init /\ [][Next]_vars

\* A thread that was started runs on; InnoDB gives up on a lock after 50 s.
FairSpec == Spec /\ \A t \in Threads : WF_vars(Advance(t))

-----------------------------------------------------------------------------
\* The shared attributes and the threads' progress keep their shape.
TypeOK ==
  /\ client \in BOOLEAN
  /\ current \in Schedulers \cup {NoScheduler}
  /\ sched \in [Schedulers -> {"new", "running", "stopped"}]
  /\ jobs \subseteq Schedulers
  /\ call \in [Threads -> Calls]
  /\ {losses, saves} \subseteq 0..MaxUpsets
  /\ entangled \in BOOLEAN

\* No call hangs: threads that wait in shutdown() for the scans of each
\* other's schedulers, scans that reconnect, and scans that wait for a row the
\* prune of such a thread has locked, never wait in a circle for good.
CallsReturn == \A t \in Threads : Busy(t) ~> ~Busy(t)

\* Once shutdown() is over and the old scheduler's scan with it, no scan runs
\* in the whole process until the new scheduler starts, so that none goes on
\* with the next client; and no scheduler but the manager's own ever runs.
\* Holds, lost connections included, as long as initialize_connection runs in
\* web threads, one after another.
ReplacementIsClean ==
  ~entangled =>
    /\ \A s \in Schedulers : sched[s] = "running" => s = current
    /\ \A t \in Threads :
         Initializing(t) /\ call[t].pc \notin {"shutdown", "join"} =>
           \A s \in Schedulers : ~Busy(s)

\* However settings saves and first calls overlap, once they are through, a
\* manager that reports "ready" has a scheduler that runs and that has its job.
\* Holds as long as the daemon has answered.
ReadyMeansExpiring ==
  losses = 0 /\ client /\ (\A t \in Threads : ~Initializing(t)) =>
    CurrentRuns /\ current \in jobs

\* A call that lost its connection fails only after it has tried to connect
\* ("Try to reconnect before failing").
ReconnectTried ==
  [][\A t \in Threads :
       At(t, "shutdown") /\ call[t].why = "recover" => Initializing(t)']_vars
=============================================================================
