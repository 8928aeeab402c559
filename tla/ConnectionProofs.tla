--------------------------- MODULE ConnectionProofs ---------------------------
(***************************************************************************)
(* One worker's connection manager, proved for any number of threads,      *)
(* schedulers, settings saves, lost exchanges and expired containers.      *)
(***************************************************************************)
EXTENDS Connection, TLAPS

\* Where initialize_connection is once it has shut the old scheduler down.
Replacing == {"join", "connect", "verify", "install", "addjob", "start"}

\* A scheduler that a thread has shut down stays down until that thread is
\* through, and has no scan once it was joined.
WaitedInv(t) ==
  /\ call[t].waited # NoScheduler =>
       /\ call[t].pc \in Replacing
       /\ sched[call[t].waited] = "stopped"
       /\ ~At(t, "join") => ~Busy(call[t].waited)
  /\ At(t, "join") => call[t].waited # NoScheduler
  /\ call[t].pc \in {"addjob", "start"} => current # NoScheduler

JoinInv == \A t \in Threads : WaitedInv(t)

\* As long as the daemon answers, only web threads replace the connection,
\* and a client that is there stays.
AnsweringInv ==
  /\ \A s \in Schedulers : /\ ~Initializing(s)
                           /\ Busy(s) \/ sched[s] = "running" => client
  /\ \A t \in Threads :
       call[t].pc \in {"verify", "install", "addjob", "start"} => client

\* Whoever left the manager without a running scheduler, or the scheduler
\* without its job, is still at work.
Successor ==
  /\ current = NoScheduler /\ client =>
       \E t \in Threads : call[t].pc \in {"verify", "install"}
  /\ current # NoScheduler /\ sched[current] = "new" =>
       \E t \in Threads : call[t].pc \in {"addjob", "start"}
  /\ current # NoScheduler /\ sched[current] = "stopped" =>
       \E t \in Threads : /\ call[t].waited = current
                          /\ call[t].pc \in {"join", "connect", "verify", "install"}
  /\ current # NoScheduler /\ current \notin jobs =>
       \E t \in Threads : At(t, "addjob")

\* One thread replaces the connection, and it is not a scan's: then a scan
\* runs in a running scheduler or is waited for, no scheduler but the current
\* one runs, and none at all from its shutdown to the start of the next.
CleanInv ==
  ~entangled =>
    /\ ~Tangle
    /\ \A s \in Schedulers : sched[s] = "running" => s = current
    /\ \A s \in Schedulers : Busy(s) =>
         \/ sched[s] = "running"
         \/ \E t \in Threads : At(t, "join") /\ call[t].waited = s
    /\ \A t \in Threads : call[t].pc \in Replacing =>
         \A s \in Schedulers : sched[s] # "running"

IInv ==
  /\ TypeOK
  /\ JoinInv
  /\ losses = 0 => AnsweringInv /\ Successor

-----------------------------------------------------------------------------
(* The calls.                                                              *)

LEMMA CallFacts ==
  ASSUME TypeOK, NEW t \in Threads
  PROVE  /\ call[t] \in Calls /\ call[t].pc \in PCs /\ call[t].nested \in BOOLEAN
         /\ call[t].waited \in Schedulers \cup {NoScheduler}
         /\ call[t].due \in 0..MaxDue
BY DEF TypeOK, Calls

LEMMA ThreadFacts ==
  /\ Callers \subseteq Threads /\ Schedulers \subseteq Threads
  /\ NoScheduler \notin Threads /\ Callers \cap Schedulers = {}
BY ConnectionAssumption DEF Threads

LEMMA RestFacts == Rest \in Calls /\ Rest.pc = "idle" /\ Rest.waited = NoScheduler
BY ConnectionAssumption DEF Rest, Calls, PCs

\* One thread's call is replaced by another one.
Replaced(t) ==
  /\ call' \in [Threads -> Calls]
  /\ \A u \in Threads : u # t => call'[u] = call[u]

LEMMA ReplacedBy ==
  ASSUME TypeOK, NEW t \in Threads, NEW c \in Calls, call' = [call EXCEPT ![t] = c]
  PROVE  Replaced(t) /\ call'[t] = c
BY DEF TypeOK, Replaced

LEMMA GotoStep ==
  ASSUME TypeOK, NEW t \in Threads, NEW p \in PCs, Goto(t, p)
  PROVE  /\ Replaced(t) /\ call'[t].pc = p
         /\ call'[t].waited = call[t].waited /\ call'[t].nested = call[t].nested
<1> DEFINE c == [call[t] EXCEPT !.pc = p]
<1>1. /\ c \in Calls /\ c.pc = p /\ c.waited = call[t].waited
      /\ c.nested = call[t].nested
  BY CallFacts DEF Calls
<1>2. call' = [call EXCEPT ![t] = c]
  BY DEF Goto
<1> HIDE DEF c
<1> QED
  BY <1>1, <1>2, ReplacedBy

LEMMA LeaveStep ==
  ASSUME TypeOK, NEW t \in Threads, Leave(t)
  PROVE  Replaced(t) /\ call'[t].pc = "idle" /\ call'[t].waited = NoScheduler
BY RestFacts, ReplacedBy DEF Leave

LEMMA RaiseStep ==
  ASSUME TypeOK, NEW t \in Threads, Raise(t)
  PROVE  /\ Replaced(t) /\ call'[t].pc \in {"idle", "body"}
         /\ call'[t].waited = NoScheduler
<1>1. CASE call[t].nested
  <2> DEFINE c == [call[t] EXCEPT !.pc = "body", !.why = "none",
                                  !.nested = FALSE, !.waited = NoScheduler]
  <2>1. c \in Calls /\ c.pc = "body" /\ c.waited = NoScheduler
    BY CallFacts DEF Calls, PCs
  <2>2. call' = [call EXCEPT ![t] = c]
    BY <1>1 DEF Raise
  <2> HIDE DEF c
  <2> QED
    BY <2>1, <2>2, ReplacedBy
<1>2. CASE ~call[t].nested
  BY <1>2, LeaveStep DEF Raise
<1> QED
  BY <1>1, <1>2

\* The end of a successful initialize_connection.
LEMMA ConnectedStep ==
  ASSUME TypeOK, NEW t \in Threads, Connected(t)
  PROVE  /\ Replaced(t) /\ call'[t].pc \in {"idle", "body", "ping"}
         /\ call'[t].waited = NoScheduler
<1>1. CASE call[t].why = "guard"
  <2> DEFINE c == [call[t] EXCEPT !.pc = "ping", !.why = "none",
                                  !.waited = NoScheduler]
  <2>1. c \in Calls /\ c.pc = "ping" /\ c.waited = NoScheduler
    BY CallFacts DEF Calls, PCs
  <2>2. call' = [call EXCEPT ![t] = c]
    BY <1>1 DEF Connected
  <2> HIDE DEF c
  <2> QED
    BY <2>1, <2>2, ReplacedBy
<1>2. CASE call[t].why # "guard"
  <2>1. Raise(t) \/ Leave(t)
    BY <1>2 DEF Connected
  <2> QED
    BY <2>1, RaiseStep, LeaveStep
<1> QED
  BY <1>1, <1>2

\* Losses only grow, and stay within the bound.
LEMMA LoseStep ==
  ASSUME TypeOK, Lose, UNCHANGED saves
  PROVE  losses' # 0 /\ {losses', saves'} \subseteq 0..MaxUpsets
BY ConnectionAssumption DEF TypeOK, Lose

-----------------------------------------------------------------------------
(* run_command and the entries: nothing shared changes, and the thread     *)
(* stays outside of what comes after the shutdown.                         *)

Outside == {"idle", "guard", "ping", "body", "rowwait", "shutdown"}

Quiet(t) ==
  /\ UNCHANGED <<client, current, sched, jobs>>
  /\ {losses', saves'} \subseteq 0..MaxUpsets
  /\ losses' = 0 => losses = 0
  /\ Replaced(t)
  /\ call[t].pc \in Outside /\ call'[t].pc \in Outside
  /\ call'[t].waited = NoScheduler
  /\ Busy(t) \/ t \in Callers \/ sched[t] = "running"
  /\ losses' = 0 /\ t \in Schedulers => call'[t].pc # "shutdown" \/ ~client

LEMMA QuietKeeps ==
  ASSUME IInv, entangled' \in BOOLEAN, NEW t \in Threads, Quiet(t)
  PROVE  IInv'
<1> USE ThreadFacts
<1>1. TypeOK /\ JoinInv
  BY DEF IInv
<1>2. TypeOK'
  BY <1>1 DEF TypeOK, Quiet, Replaced
<1>3. call[t].waited = NoScheduler /\ ~At(t, "join") /\ call[t].pc \notin {"addjob", "start"}
  BY <1>1, CallFacts DEF JoinInv, WaitedInv, Outside, Replacing, Quiet, At
<1>4. JoinInv'
  <2> SUFFICES ASSUME NEW u \in Threads PROVE WaitedInv(u)'
    BY DEF JoinInv
  <2>1. CASE u = t
    BY <2>1 DEF Quiet, WaitedInv, At, Outside
  <2>2. CASE u # t
    <3>1. call'[u] = call[u] /\ WaitedInv(u)
      BY <1>1, <2>2 DEF Quiet, Replaced, JoinInv
    <3>2. PICK w \in Schedulers \cup {NoScheduler} : w = call[u].waited
      BY <1>1, CallFacts
    <3>3. ASSUME w # NoScheduler, ~At(u, "join") PROVE ~Busy(w)'
      <4>1. w \in Schedulers /\ sched[w] = "stopped" /\ ~Busy(w)
        BY <1>1, <3>1, <3>2, <3>3 DEF WaitedInv
      <4>2. w # t
        BY <4>1 DEF Quiet
      <4> QED
        BY <4>1, <4>2 DEF Quiet, Replaced, Busy, At
    <3> QED
      BY <3>1, <3>2, <3>3 DEF WaitedInv, Quiet, At, Busy
  <2> QED
    BY <2>1, <2>2
<1>5. ASSUME losses' = 0 PROVE AnsweringInv' /\ Successor'
  <2>1. AnsweringInv /\ Successor
    BY <1>5 DEF IInv, Quiet
  <2>2. \A s \in Schedulers : /\ ~Initializing(s)'
                              /\ Busy(s)' \/ sched'[s] = "running" => client'
    <3> TAKE s \in Schedulers
    <3>1. CASE s = t
      <4>1. client
        BY <2>1, <3>1 DEF AnsweringInv, Quiet
      <4> QED
        BY <1>5, <3>1, <4>1 DEF Quiet, Initializing, Outside
    <3>2. CASE s # t
      BY <2>1, <3>2 DEF AnsweringInv, Quiet, Replaced, Initializing, Busy, At
    <3> QED
      BY <3>1, <3>2
  <2>3. \A u \in Threads : call'[u].pc \in {"verify", "install", "addjob", "start"} => client'
    BY <2>1 DEF AnsweringInv, Quiet, Replaced, Outside
  <2>4. Successor'
    <3>1. \A u \in Threads : u # t => call'[u] = call[u]
      BY DEF Quiet, Replaced
    <3>2. call[t].pc \notin {"verify", "install", "addjob", "start", "join", "connect"}
      BY DEF Quiet, Outside
    <3>3. UNCHANGED <<client, current, sched, jobs>>
      BY DEF Quiet
    <3> QED
      BY <2>1, <3>1, <3>2, <3>3 DEF Successor, At
  <2> QED
    BY <2>2, <2>3, <2>4 DEF AnsweringInv
<1> QED
  BY <1>2, <1>4, <1>5 DEF IInv

LEMMA EntryQuiet ==
  ASSUME IInv, NEW t \in Threads, Request(t) \/ SaveSettings(t) \/ Scan(t)
  PROVE  Quiet(t)
<1>1. TypeOK /\ JoinInv /\ call[t] \in Calls
  BY CallFacts DEF IInv
<1>2. call[t].waited = NoScheduler /\ call[t].pc = "idle"
  BY <1>1, CallFacts DEF Request, SaveSettings, Scan, JoinInv, WaitedInv, Replacing, At
<1>3. CASE Request(t)
  <2>1. PICK locks \in BOOLEAN :
          call' = [call EXCEPT ![t].pc = "guard", ![t].locks = locks]
    BY <1>3 DEF Request
  <2> DEFINE c == [call[t] EXCEPT !.pc = "guard", !.locks = locks]
  <2>2. c \in Calls /\ c.pc = "guard" /\ c.waited = NoScheduler
    BY <1>1, <1>2 DEF Calls, PCs
  <2>3. call' = [call EXCEPT ![t] = c]
    BY <2>1
  <2> HIDE DEF c
  <2>4. Replaced(t) /\ call'[t] = c
    BY <1>1, <2>2, <2>3, ReplacedBy
  <2> QED
    BY <1>1, <1>2, <1>3, <2>2, <2>4 DEF Request, Quiet, Outside, TypeOK
<1>4. CASE SaveSettings(t)
  <2> DEFINE c == [call[t] EXCEPT !.pc = "shutdown", !.why = "save"]
  <2>2. c \in Calls /\ c.pc = "shutdown" /\ c.waited = NoScheduler
    BY <1>1, <1>2 DEF Calls, PCs
  <2>3. call' = [call EXCEPT ![t] = c]
    BY <1>4 DEF SaveSettings
  <2> HIDE DEF c
  <2>4. Replaced(t) /\ call'[t] = c
    BY <1>1, <2>2, <2>3, ReplacedBy
  <2>5. {losses', saves'} \subseteq 0..MaxUpsets
    BY <1>1, <1>4, ConnectionAssumption DEF SaveSettings, TypeOK
  <2>6. t \in Callers /\ t \notin Schedulers
    BY <1>4, ThreadFacts DEF SaveSettings
  <2> QED
    BY <1>2, <1>4, <2>2, <2>4, <2>5, <2>6 DEF SaveSettings, Quiet, Outside
<1>5. CASE Scan(t)
  <2>1. PICK n \in 0..MaxDue : call' = [call EXCEPT ![t].pc = "guard", ![t].due = n]
    BY <1>5 DEF Scan
  <2> DEFINE c == [call[t] EXCEPT !.pc = "guard", !.due = n]
  <2>2. c \in Calls /\ c.pc = "guard" /\ c.waited = NoScheduler
    BY <1>1, <1>2 DEF Calls, PCs
  <2>3. call' = [call EXCEPT ![t] = c]
    BY <2>1
  <2> HIDE DEF c
  <2>4. Replaced(t) /\ call'[t] = c
    BY <1>1, <2>2, <2>3, ReplacedBy
  <2> QED
    BY <1>1, <1>2, <1>5, <2>2, <2>4 DEF Scan, Quiet, Outside, TypeOK
<1> QED
  BY <1>3, <1>4, <1>5

LEMMA RunCommandQuiet ==
  ASSUME IInv, NEW t \in Threads, RunCommand(t)
  PROVE  Quiet(t)
<1>1. TypeOK /\ JoinInv /\ call[t] \in Calls
  BY CallFacts DEF IInv
<1>2. call[t].pc \in {"guard", "ping", "body", "rowwait"}
  BY DEF RunCommand, Guard, Ping, ClientGone, Lost, NestedKill, Succeed, RowBlocked,
     RowFree, RowTimeout, InExchange, At
<1>3. call[t].waited = NoScheduler
  BY <1>1, <1>2 DEF JoinInv, WaitedInv, Replacing
<1>4. Busy(t) /\ call[t].pc \in Outside
  BY <1>2 DEF Busy, At, Outside
<1>5. UNCHANGED <<client, current, sched, jobs, saves>>
  BY DEF RunCommand, Guard, Ping, ClientGone, Lost, NestedKill, Succeed, RowBlocked,
     RowFree, RowTimeout
<1>6. CASE Guard(t)
  <2> DEFINE c == IF client THEN [call[t] EXCEPT !.pc = "ping"]
                  ELSE [call[t] EXCEPT !.pc = "shutdown", !.why = "guard"]
  <2>1. /\ c \in Calls /\ c.waited = NoScheduler
        /\ c.pc = IF client THEN "ping" ELSE "shutdown"
    BY <1>1, <1>3 DEF Calls, PCs
  <2>2. call' = [call EXCEPT ![t] = c]
    BY <1>6 DEF Guard
  <2> HIDE DEF c
  <2>3. Replaced(t) /\ call'[t] = c
    BY <1>1, <2>1, <2>2, ReplacedBy
  <2>4. losses' = losses /\ {losses', saves'} \subseteq 0..MaxUpsets
    BY <1>1, <1>5, <1>6 DEF Guard, TypeOK
  <2>5. call'[t].pc \in Outside /\ (call'[t].pc # "shutdown" \/ ~client)
    BY <2>1, <2>3 DEF Outside
  <2> QED
    BY <1>4, <1>5, <2>1, <2>3, <2>4, <2>5 DEF Quiet
<1>7. CASE Lost(t)
  <2> DEFINE c == [call[t] EXCEPT !.pc = "shutdown", !.why = "recover"]
  <2>1. c \in Calls /\ c.waited = NoScheduler /\ c.pc = "shutdown"
    BY <1>1, <1>3 DEF Calls, PCs
  <2>2. call' = [call EXCEPT ![t] = c] /\ Lose
    BY <1>7 DEF Lost
  <2> HIDE DEF c
  <2>3. Replaced(t) /\ call'[t] = c
    BY <1>1, <2>1, <2>2, ReplacedBy
  <2>4. losses' # 0 /\ {losses', saves'} \subseteq 0..MaxUpsets
    BY <1>1, <1>5, <2>2, LoseStep
  <2> QED
    BY <1>4, <1>5, <2>1, <2>3, <2>4 DEF Quiet, Outside
<1>8. CASE NestedKill(t)
  <2>0. PICK due \in 0..MaxDue : due = call[t].due - 1
    BY <1>1, <1>8, CallFacts, ConnectionAssumption DEF NestedKill
  <2> DEFINE c == [call[t] EXCEPT !.pc = "guard", !.nested = TRUE, !.due = due]
  <2>1. c \in Calls /\ c.waited = NoScheduler /\ c.pc = "guard"
    BY <1>1, <1>3 DEF Calls, PCs
  <2>2. call' = [call EXCEPT ![t] = c]
    BY <1>8, <2>0 DEF NestedKill
  <2> HIDE DEF c
  <2>3. Replaced(t) /\ call'[t] = c
    BY <1>1, <2>1, <2>2, ReplacedBy
  <2> QED
    BY <1>1, <1>4, <1>5, <1>8, <2>1, <2>3 DEF NestedKill, Quiet, Outside, TypeOK
<1>9. CASE Ping(t) \/ RowBlocked(t)
  <2>1. PICK p \in {"body", "rowwait"} : Goto(t, p)
    BY <1>9 DEF Ping, RowBlocked
  <2>2. Replaced(t) /\ call'[t].pc = p /\ call'[t].waited = NoScheduler
    BY <1>1, <1>3, <2>1, GotoStep DEF PCs
  <2> QED
    BY <1>1, <1>4, <1>5, <1>9, <2>2 DEF Ping, RowBlocked, Quiet, Outside, TypeOK
<1>10. CASE ClientGone(t) \/ Succeed(t) \/ RowFree(t) \/ RowTimeout(t)
  <2>1. Raise(t) \/ Leave(t)
    BY <1>10 DEF ClientGone, Succeed, RowFree, RowTimeout
  <2>2. /\ Replaced(t) /\ call'[t].pc \in {"idle", "body"}
        /\ call'[t].waited = NoScheduler
    BY <1>1, <2>1, RaiseStep, LeaveStep
  <2>3. UNCHANGED losses
    BY <1>10 DEF ClientGone, Succeed, RowFree, RowTimeout
  <2> QED
    BY <1>1, <1>4, <1>5, <2>2, <2>3 DEF Quiet, Outside, TypeOK
<1> QED
  BY <1>6, <1>7, <1>8, <1>9, <1>10 DEF RunCommand

-----------------------------------------------------------------------------
(* initialize_connection.                                                  *)

LEMMA JoinKept ==
  ASSUME TypeOK, JoinInv, NEW t \in Threads, Initializing(t), Replaced(t),
         WaitedInv(t)', current # NoScheduler => current' # NoScheduler,
         \A s \in Schedulers : \A u \in Threads :
           call[u].waited = s /\ sched[s] = "stopped" => sched'[s] = "stopped"
  PROVE  JoinInv'
<1> SUFFICES ASSUME NEW u \in Threads, u # t PROVE WaitedInv(u)'
  BY DEF JoinInv
<1>1. call'[u] = call[u] /\ WaitedInv(u)
  BY DEF JoinInv, Replaced
<1>2. PICK w \in Schedulers \cup {NoScheduler} : w = call[u].waited
  BY CallFacts
<1>3. ASSUME w # NoScheduler PROVE sched'[w] = "stopped"
  BY <1>1, <1>2, <1>3 DEF WaitedInv
<1>4. ASSUME w # NoScheduler, ~At(u, "join") PROVE ~Busy(w)'
  <2>1. w \in Schedulers /\ ~Busy(w)
    BY <1>1, <1>2, <1>4 DEF WaitedInv
  <2>2. w # t
    BY <2>1 DEF Busy, Initializing, At
  <2> QED
    BY <2>1, <2>2, ThreadFacts DEF Replaced, Busy, At
<1> QED
  BY <1>1, <1>2, <1>3, <1>4 DEF WaitedInv, At

LEMMA AnsweringKept ==
  ASSUME AnsweringInv, NEW t \in Threads, Initializing(t), Replaced(t),
         client => client',
         call'[t].pc \in {"verify", "install", "addjob", "start"} => client',
         \A s \in Schedulers : sched'[s] = "running" => sched[s] = "running" \/ client'
  PROVE  AnsweringInv' /\ t \notin Schedulers
<1>1. t \notin Schedulers
  BY DEF AnsweringInv
<1>2. \A s \in Schedulers : call'[s] = call[s] /\ s \in Threads
  BY <1>1, ThreadFacts DEF Replaced
<1>3. \A s \in Schedulers : /\ ~Initializing(s)'
                            /\ Busy(s)' \/ sched'[s] = "running" => client'
  BY <1>2 DEF AnsweringInv, Initializing, Busy, At
<1> QED
  BY <1>1, <1>3 DEF AnsweringInv, Replaced

LEMMA ShutdownKeeps ==
  ASSUME IInv, entangled' \in BOOLEAN, NEW t \in Threads, Shutdown(t)
  PROVE  IInv'
<1>1. TypeOK /\ JoinInv /\ call[t] \in Calls
  BY CallFacts DEF IInv
<1>2. PICK s \in Schedulers : s = current /\ sched[s] = "running"
  BY <1>1 DEF Shutdown, CurrentRuns, TypeOK
<1>3. /\ sched' = [sched EXCEPT ![s] = "stopped"]
      /\ IF t = s THEN Raise(t)
         ELSE call' = [call EXCEPT ![t].pc = "join", ![t].waited = s]
      /\ UNCHANGED <<client, current, jobs, losses, saves>>
      /\ Initializing(t) /\ call[t].pc = "shutdown"
  BY <1>2 DEF Shutdown, ShutdownCurrent, Initializing, At
<1>4. CASE t = s
  <2>1. Replaced(t) /\ call'[t].pc \in {"idle", "body"} /\ call'[t].waited = NoScheduler
    BY <1>1, <1>3, <1>4, RaiseStep
  <2>2. WaitedInv(t)'
    BY <2>1 DEF WaitedInv, At
  <2>3. JoinInv'
    BY <1>1, <1>3, <2>1, <2>2, JoinKept DEF TypeOK
  <2>4. losses # 0
    BY <1>3, <1>4 DEF IInv, AnsweringInv
  <2>5. TypeOK'
    BY <1>1, <1>3, <2>1 DEF TypeOK, Replaced
  <2> QED
    BY <1>3, <2>3, <2>4, <2>5 DEF IInv
<1>5. CASE t # s
  <2> DEFINE c == [call[t] EXCEPT !.pc = "join", !.waited = s]
  <2>1. c \in Calls /\ c.pc = "join" /\ c.waited = s
    BY <1>1 DEF Calls, PCs
  <2>2. call' = [call EXCEPT ![t] = c]
    BY <1>3, <1>5
  <2> HIDE DEF c
  <2>3. Replaced(t) /\ call'[t].pc = "join" /\ call'[t].waited = s
    BY <1>1, <2>1, <2>2, ReplacedBy
  <2>4. sched'[s] = "stopped" /\ s # NoScheduler
    BY <1>1, <1>3, ConnectionAssumption DEF TypeOK
  <2>5. JoinInv'
    <3>1. WaitedInv(t)'
      BY <2>3, <2>4 DEF WaitedInv, At, Replacing
    <3> QED
      BY <1>1, <1>3, <2>3, <3>1, JoinKept DEF TypeOK
  <2>6. TypeOK'
    BY <1>1, <1>3, <2>3 DEF TypeOK, Replaced
  <2>7. ASSUME losses' = 0 PROVE AnsweringInv' /\ Successor'
    <3>1. AnsweringInv /\ Successor
      BY <1>3, <2>7 DEF IInv
    <3>2. \A z \in Schedulers : sched'[z] = "running" => sched[z] = "running"
      BY <1>1, <1>3 DEF TypeOK
    <3>3. AnsweringInv'
      BY <1>3, <2>3, <3>1, <3>2, AnsweringKept
    <3>4. current' \notin jobs' => \E u \in Threads : At(u, "addjob")'
      BY <1>2, <1>3, <2>3, <2>4, <3>1 DEF Successor, Replaced, At
    <3>5. current' = s /\ sched'[s] = "stopped" /\ s # NoScheduler
      BY <1>2, <1>3, <2>4
    <3>6. \E u \in Threads : call'[u].waited = s /\ call'[u].pc = "join"
      BY <2>3
    <3>7. Successor'
      BY <3>4, <3>5, <3>6 DEF Successor
    <3> QED
      BY <3>3, <3>7
  <2> QED
    BY <2>5, <2>6, <2>7 DEF IInv
<1> QED
  BY <1>4, <1>5

\* A step forward that leaves the schedulers alone.
LEMMA ForwardKeeps ==
  ASSUME IInv, entangled' \in BOOLEAN, NEW t \in Threads,
         NothingToShutDown(t) \/ Joined(t) \/ Connect(t) \/ Verify(t)
  PROVE  IInv'
<1>1. TypeOK /\ JoinInv /\ call[t] \in Calls /\ WaitedInv(t)
  BY CallFacts DEF IInv, JoinInv
<1>2. PICK p \in {"connect", "verify", "install"} : Goto(t, p)
  BY DEF NothingToShutDown, Joined, Connect, Verify
<1>3. Replaced(t) /\ call'[t].pc = p /\ call'[t].waited = call[t].waited
  BY <1>1, <1>2, GotoStep DEF PCs
<1>4. /\ UNCHANGED <<current, sched, jobs, losses, saves>>
      /\ Initializing(t) /\ client' \in BOOLEAN /\ (client => client')
  BY <1>1 DEF NothingToShutDown, Joined, Connect, Verify, Initializing, TypeOK, At
<1>5. \/ NothingToShutDown(t) /\ p = "connect" /\ call[t].pc = "shutdown"
      \/ Joined(t) /\ p = "connect" /\ call[t].pc = "join"
      \/ Connect(t) /\ p = "verify" /\ call[t].pc = "connect" /\ client'
      \/ Verify(t) /\ p = "install" /\ call[t].pc = "verify" /\ client
  <2>1. ASSUME NEW q \in {"connect", "verify", "install"}, Goto(t, q) PROVE q = p
    BY <1>1, <1>3, <2>1, GotoStep DEF PCs
  <2> QED
    BY <2>1 DEF NothingToShutDown, Joined, Connect, Verify, At
<1>6. TypeOK'
  BY <1>1, <1>3, <1>4 DEF TypeOK, Replaced
<1>7. JoinInv'
  <2>1. PICK w \in Schedulers \cup {NoScheduler} : w = call[t].waited
    BY <1>1, CallFacts
  <2>2. w # NoScheduler => sched'[w] = "stopped" /\ ~Busy(w)
    BY <1>1, <1>4, <1>5, <2>1 DEF WaitedInv, Joined, At
  <2>3. w # NoScheduler => ~Busy(w)'
    <3>1. w # NoScheduler => w # t /\ w \in Threads
      BY <1>4, <2>2, ThreadFacts DEF Busy, Initializing, At
    <3> QED
      BY <1>3, <2>2, <3>1 DEF Replaced, Busy, At
  <2>4. WaitedInv(t)'
    BY <1>3, <2>1, <2>2, <2>3 DEF WaitedInv, At, Replacing
  <2> QED
    BY <1>1, <1>3, <1>4, <2>4, JoinKept
<1>8. ASSUME losses' = 0 PROVE AnsweringInv' /\ Successor'
  <2>1. AnsweringInv /\ Successor
    BY <1>4, <1>8 DEF IInv
  <2>2. AnsweringInv'
    <3>1. p \in {"verify", "install", "addjob", "start"} => client'
      BY <1>4, <1>5
    <3> QED
      BY <1>3, <1>4, <2>1, <3>1, AnsweringKept
  <2>3. current = NoScheduler /\ client' =>
          \E u \in Threads : call'[u].pc \in {"verify", "install"}
    <3>1. CASE p \in {"verify", "install"}
      BY <1>3, <3>1
    <3>2. CASE p = "connect"
      <4>1. client' = client /\ call[t].pc \notin {"verify", "install"}
        BY <1>5, <3>2 DEF NothingToShutDown, Joined
      <4> QED
        BY <1>3, <2>1, <4>1 DEF Successor, Replaced
    <3> QED
      BY <3>1, <3>2
  <2>4. call[t].pc \notin {"addjob", "start"}
    BY <1>5
  <2>7. current # NoScheduler /\ current \notin jobs =>
          \E u \in Threads : At(u, "addjob")'
    BY <1>3, <2>1, <2>4 DEF Successor, Replaced, At
  <2>5. current # NoScheduler /\ sched[current] = "new" =>
          \E u \in Threads : call'[u].pc \in {"addjob", "start"}
    BY <1>3, <2>1, <2>4 DEF Successor, Replaced, At
  <2>6. current # NoScheduler /\ sched[current] = "stopped" =>
       \E u \in Threads : /\ call'[u].waited = current
                          /\ call'[u].pc \in {"join", "connect", "verify", "install"}
    BY <1>3, <2>1 DEF Successor, Replaced
  <2> QED
    BY <1>4, <2>2, <2>3, <2>5, <2>6, <2>7 DEF Successor
<1> QED
  BY <1>6, <1>7, <1>8 DEF IInv

\* The daemon did not answer, or the client was gone.
LEMMA FailureKeeps ==
  ASSUME IInv, entangled' \in BOOLEAN, NEW t \in Threads, ConnectFails(t) \/ ConnectRaises(t)
  PROVE  IInv'
<1>1. TypeOK /\ JoinInv /\ call[t] \in Calls
  BY CallFacts DEF IInv
<1>2. /\ Raise(t) /\ call[t].pc \in {"connect", "verify"}
      /\ UNCHANGED <<current, sched, jobs, saves>> /\ client' \in BOOLEAN
  BY <1>1 DEF ConnectFails, ConnectRaises, At, TypeOK
<1>3. Initializing(t)
  BY <1>2 DEF Initializing
<1>4. Replaced(t) /\ call'[t].pc \in {"idle", "body"} /\ call'[t].waited = NoScheduler
  BY <1>1, <1>2, RaiseStep
<1>5. losses' # 0 /\ {losses', saves'} \subseteq 0..MaxUpsets
  <2>1. CASE Lose
    BY <1>1, <1>2, <2>1, LoseStep
  <2>2. CASE ~Lose
    <3>1. At(t, "verify") /\ ~client /\ losses' = losses
      BY <2>2 DEF ConnectFails, ConnectRaises
    <3>2. losses # 0
      BY <3>1 DEF IInv, AnsweringInv, At
    <3> QED
      BY <1>1, <1>2, <3>1, <3>2 DEF TypeOK
  <2> QED
    BY <2>1, <2>2
<1>6. TypeOK'
  BY <1>1, <1>2, <1>4, <1>5 DEF TypeOK, Replaced
<1>7. WaitedInv(t)'
  BY <1>4 DEF WaitedInv, At
<1>8. JoinInv'
  BY <1>1, <1>2, <1>3, <1>4, <1>7, JoinKept
<1> QED
  BY <1>5, <1>6, <1>8 DEF IInv

LEMMA InstallKeeps ==
  ASSUME IInv, entangled' \in BOOLEAN, NEW t \in Threads, NEW s \in Schedulers, Install(t, s)
  PROVE  IInv'
<1>1. TypeOK /\ JoinInv /\ call[t] \in Calls /\ WaitedInv(t)
  BY CallFacts DEF IInv, JoinInv
<1>2. /\ Fresh(s) /\ current' = s /\ sched' = [sched EXCEPT ![s] = "new"]
      /\ jobs' = jobs \ {s} /\ UNCHANGED <<client, losses, saves>>
      /\ call[t].pc = "install"
      /\ Initializing(t) /\ s # NoScheduler
  BY ConnectionAssumption DEF Install, Initializing, At
<1>3. Replaced(t) /\ call'[t].pc = "addjob" /\ call'[t].waited = call[t].waited
  BY <1>1, GotoStep DEF Install, PCs
<1>4. TypeOK'
  BY <1>1, <1>2, <1>3 DEF TypeOK, Replaced
<1>5. JoinInv'
  <2>1. PICK w \in Schedulers \cup {NoScheduler} : w = call[t].waited
    BY <1>1, CallFacts
  <2>2. w # NoScheduler => sched'[w] = "stopped" /\ ~Busy(w) /\ w \in Threads
    BY <1>1, <1>2, <2>1, ThreadFacts DEF WaitedInv, At, Fresh, TypeOK
  <2>3. w # NoScheduler => ~Busy(w)'
    <3>1. w # NoScheduler => w # t
      BY <1>2, <2>2 DEF Busy, At
    <3> QED
      BY <1>3, <2>2, <3>1 DEF Replaced, Busy, At
  <2>4. WaitedInv(t)'
    BY <1>2, <1>3, <2>1, <2>2, <2>3 DEF WaitedInv, At, Replacing
  <2>5. \A z \in Schedulers : \A u \in Threads :
           call[u].waited = z /\ sched[z] = "stopped" => sched'[z] = "stopped"
    BY <1>1, <1>2 DEF Fresh, TypeOK
  <2> QED
    BY <1>1, <1>2, <1>3, <2>4, <2>5, JoinKept
<1>6. ASSUME losses' = 0 PROVE AnsweringInv' /\ Successor'
  <2>1. AnsweringInv
    BY <1>2, <1>6 DEF IInv
  <2>2. client
    BY <1>2, <2>1 DEF AnsweringInv
  <2>3. \A z \in Schedulers : sched'[z] = "running" => sched[z] = "running"
    BY <1>1, <1>2 DEF TypeOK
  <2>4. AnsweringInv'
    BY <1>2, <1>3, <2>1, <2>2, <2>3, AnsweringKept
  <2>5. sched'[s] = "new"
    BY <1>1, <1>2 DEF TypeOK
  <2>6. Successor'
    BY <1>2, <1>3, <2>5 DEF Successor, At
  <2> QED
    BY <2>4, <2>6
<1> QED
  BY <1>4, <1>5, <1>6 DEF IInv

LEMMA AddJobKeeps ==
  ASSUME IInv, entangled' \in BOOLEAN, NEW t \in Threads, AddJob(t)
  PROVE  IInv'
<1>1. TypeOK /\ JoinInv /\ call[t] \in Calls /\ WaitedInv(t)
  BY CallFacts DEF IInv, JoinInv
<1>2. /\ UNCHANGED <<client, current, sched, losses, saves>>
      /\ jobs' = jobs \cup {current} /\ call[t].pc = "addjob" /\ Initializing(t)
  BY DEF AddJob, Initializing, At
<1>3. PICK s \in Schedulers : s = current
  BY <1>1, <1>2 DEF WaitedInv, TypeOK
<1>4. Replaced(t) /\ call'[t].pc = "start" /\ call'[t].waited = call[t].waited
  BY <1>1, GotoStep DEF AddJob, PCs
<1>5. TypeOK'
  BY <1>1, <1>2, <1>3, <1>4 DEF TypeOK, Replaced
<1>6. JoinInv'
  <2>1. PICK w \in Schedulers \cup {NoScheduler} : w = call[t].waited
    BY <1>1, CallFacts
  <2>2. w # NoScheduler => sched[w] = "stopped" /\ ~Busy(w) /\ w \in Threads /\ w # t
    BY <1>1, <1>2, <2>1, ThreadFacts DEF WaitedInv, At, Busy
  <2>3. w # NoScheduler => ~Busy(w)'
    BY <1>4, <2>2 DEF Replaced, Busy, At
  <2>4. WaitedInv(t)'
    BY <1>1, <1>2, <1>4, <2>1, <2>2, <2>3 DEF WaitedInv, At, Replacing
  <2> QED
    BY <1>1, <1>2, <1>4, <2>4, JoinKept
<1>7. ASSUME losses' = 0 PROVE AnsweringInv' /\ Successor'
  <2>1. AnsweringInv /\ Successor /\ client
    BY <1>2, <1>7 DEF IInv, AnsweringInv
  <2>2. AnsweringInv'
    BY <1>2, <1>4, <2>1, AnsweringKept
  <2>3. s # NoScheduler /\ current \in jobs'
    BY <1>2, <1>3, ConnectionAssumption
  <2>4. sched[s] = "stopped" =>
       \E u \in Threads : /\ call'[u].waited = s
                          /\ call'[u].pc \in {"join", "connect", "verify", "install"}
    BY <1>2, <1>3, <1>4, <2>1, <2>3 DEF Successor, Replaced
  <2>5. Successor'
    BY <1>2, <1>3, <1>4, <2>3, <2>4 DEF Successor
  <2> QED
    BY <2>2, <2>5
<1> QED
  BY <1>5, <1>6, <1>7 DEF IInv

LEMMA StartKeeps ==
  ASSUME IInv, entangled' \in BOOLEAN, NEW t \in Threads, Start(t) \/ StartRefused(t)
  PROVE  IInv'
<1>1. TypeOK /\ JoinInv /\ call[t] \in Calls /\ WaitedInv(t)
  BY CallFacts DEF IInv, JoinInv
<1>2. /\ call[t].pc = "start" /\ Initializing(t)
      /\ UNCHANGED <<client, current, jobs, losses, saves>>
  BY DEF Start, StartRefused, Initializing, At
<1>3. PICK s \in Schedulers : s = current
  BY <1>1, <1>2 DEF WaitedInv, At, TypeOK
<1>4. /\ Replaced(t) /\ call'[t].pc \in {"idle", "body", "ping"}
      /\ call'[t].waited = NoScheduler
  BY <1>1, RaiseStep, ConnectedStep DEF Start, StartRefused
<1>5. \/ sched[s] = "running" /\ sched' = sched
      \/ sched[s] = "stopped" /\ sched' = sched
      \/ sched[s] = "new" /\ sched' = [sched EXCEPT ![s] = "running"]
  BY <1>1, <1>3 DEF Start, StartRefused, TypeOK
<1>6. TypeOK'
  BY <1>1, <1>2, <1>4, <1>5 DEF TypeOK, Replaced
<1>7. JoinInv'
  <2>1. WaitedInv(t)'
    BY <1>4 DEF WaitedInv, At
  <2>2. \A z \in Schedulers : \A u \in Threads :
           call[u].waited = z /\ sched[z] = "stopped" => sched'[z] = "stopped"
    BY <1>1, <1>5 DEF TypeOK
  <2> QED
    BY <1>1, <1>2, <1>4, <2>1, <2>2, JoinKept
<1>8. ASSUME losses' = 0 PROVE AnsweringInv' /\ Successor'
  <2>1. AnsweringInv /\ Successor /\ client
    BY <1>2, <1>8 DEF IInv, AnsweringInv
  <2>2. AnsweringInv'
    BY <1>2, <1>4, <2>1, AnsweringKept
  <2>3. s # NoScheduler /\ sched'[s] # "new"
    BY <1>1, <1>5, ConnectionAssumption DEF TypeOK
  <2>4. sched'[s] = "stopped" => sched[s] = "stopped"
    BY <1>1, <1>5 DEF TypeOK
  <2>5. sched'[s] = "stopped" =>
       \E u \in Threads : /\ call'[u].waited = s
                          /\ call'[u].pc \in {"join", "connect", "verify", "install"}
    <3> SUFFICES ASSUME sched'[s] = "stopped"
                 PROVE  \E u \in Threads : /\ call'[u].waited = s
                          /\ call'[u].pc \in {"join", "connect", "verify", "install"}
      OBVIOUS
    <3>1. PICK u \in Threads : /\ call[u].waited = s
                          /\ call[u].pc \in {"join", "connect", "verify", "install"}
      BY <1>3, <2>1, <2>3, <2>4 DEF Successor
    <3> QED
      BY <1>2, <1>4, <3>1 DEF Replaced
  <2>7. current \notin jobs => \E u \in Threads : At(u, "addjob")'
    BY <1>2, <1>3, <1>4, <2>1, <2>3 DEF Successor, Replaced, At
  <2>6. Successor'
    BY <1>2, <1>3, <2>3, <2>5, <2>7 DEF Successor
  <2> QED
    BY <2>2, <2>6
<1> QED
  BY <1>6, <1>7, <1>8 DEF IInv

-----------------------------------------------------------------------------
(* Replacements one at a time, outside of scans.                           *)

\* Nobody else is in initialize_connection, and the scans go on undisturbed.
LEMMA Alone ==
  ASSUME CleanInv, ~entangled, NEW t \in Threads, Initializing(t), Replaced(t)
  PROVE  /\ t \notin Schedulers
         /\ \A u \in Threads : u # t => ~Initializing(u) /\ ~Initializing(u)'
         /\ \A s \in Schedulers : Busy(s)' <=> Busy(s)
<1>1. ~Tangle
  BY DEF CleanInv
<1>2. t \notin Schedulers /\ \A u \in Threads : u # t => ~Initializing(u)
  BY <1>1 DEF Tangle
<1>3. \A u \in Threads : u # t => ~Initializing(u)'
  BY <1>2 DEF Replaced, Initializing
<1>4. \A s \in Schedulers : Busy(s)' <=> Busy(s)
  BY <1>2, ThreadFacts DEF Replaced, Busy, At
<1> QED
  BY <1>2, <1>3, <1>4

\* Who has joined the old scheduler meets no scan and no running scheduler.
LEMMA NoScanLeft ==
  ASSUME CleanInv, ~entangled, NEW t \in Threads,
         call[t].pc \in Replacing, ~At(t, "join")
  PROVE  \A s \in Schedulers : sched[s] # "running" /\ ~Busy(s)
<1>1. /\ ~Tangle /\ Initializing(t)
      /\ \A s \in Schedulers : sched[s] # "running"
  BY DEF CleanInv, Replacing, Initializing
<1>2. \A u \in Threads : ~At(u, "join")
  BY <1>1 DEF Tangle, Initializing, At
<1> QED
  BY <1>1, <1>2 DEF CleanInv

\* What is left to show when no scan runs after a step.
LEMMA CleanWithoutScan ==
  ASSUME ~Tangle',
         \A s \in Schedulers : ~Busy(s)' /\ (sched'[s] = "running" => s = current'),
         \A u \in Threads : call'[u].pc \in Replacing =>
           \A s \in Schedulers : sched'[s] # "running"
  PROVE  CleanInv'
BY DEF CleanInv

LEMMA QuietClean ==
  ASSUME CleanInv, NEW t \in Threads, Quiet(t), ~entangled, ~Tangle'
  PROVE  CleanInv'
<1> USE ThreadFacts
<1>1. /\ \A u \in Threads : u # t => call'[u] = call[u]
      /\ UNCHANGED <<current, sched>>
      /\ call[t].pc \notin Replacing /\ call'[t].pc \notin Replacing
  BY DEF Quiet, Replaced, Outside, Replacing
<1>2. \A s \in Schedulers : sched[s] = "running" => s = current
  BY DEF CleanInv
<1>3. ASSUME NEW s \in Schedulers, Busy(s)'
      PROVE  \/ sched[s] = "running"
             \/ \E u \in Threads : At(u, "join")' /\ call'[u].waited = s
  <2>1. Busy(s) \/ sched[s] = "running"
    BY <1>1, <1>3 DEF Quiet, Busy, At
  <2>2. CASE Busy(s) /\ sched[s] # "running"
    <3>1. PICK u \in Threads : At(u, "join") /\ call[u].waited = s
      BY <2>2 DEF CleanInv
    <3>2. u # t
      BY <1>1, <3>1 DEF At, Replacing
    <3> QED
      BY <1>1, <3>1, <3>2 DEF At
  <2> QED
    BY <2>1, <2>2
<1>4. \A u \in Threads : call'[u].pc \in Replacing =>
        \A s \in Schedulers : sched'[s] # "running"
  BY <1>1 DEF CleanInv
<1> QED
  BY <1>1, <1>2, <1>3, <1>4 DEF CleanInv

LEMMA InitializeClean ==
  ASSUME IInv, CleanInv, NEW t \in Threads, Initialize(t), ~entangled, ~Tangle'
  PROVE  CleanInv'
<1>1. TypeOK /\ WaitedInv(t) /\ call[t] \in Calls
  BY CallFacts DEF IInv, JoinInv
<1>2. \A s \in Schedulers : sched[s] = "running" => s = current
  BY DEF CleanInv
<1>3. CASE Shutdown(t)
  <2>1. PICK s \in Schedulers : s = current /\ sched[s] = "running"
    BY <1>1, <1>3 DEF Shutdown, CurrentRuns, TypeOK
  <2>2. t \notin Schedulers
    BY <1>3 DEF CleanInv, Tangle, Shutdown, Initializing, At
  <2> DEFINE c == [call[t] EXCEPT !.pc = "join", !.waited = s]
  <2>3. c \in Calls /\ c.pc = "join" /\ c.waited = s
    BY <1>1 DEF Calls, PCs
  <2>4. /\ call' = [call EXCEPT ![t] = c] /\ current' = current
        /\ sched' = [sched EXCEPT ![s] = "stopped"]
    BY <1>3, <2>1, <2>2 DEF Shutdown, ShutdownCurrent
  <2> HIDE DEF c
  <2>5. Replaced(t) /\ At(t, "join")' /\ call'[t].waited = s
    BY <1>1, <2>3, <2>4, ReplacedBy DEF At
  <2>6. Initializing(t)
    BY <1>3 DEF Shutdown, Initializing, At
  <2>7. /\ \A u \in Threads : u # t => ~Initializing(u)
        /\ \A z \in Schedulers : Busy(z)' <=> Busy(z)
    BY <2>5, <2>6, Alone
  <2>8. \A z \in Schedulers : sched'[z] # "running"
    BY <1>1, <1>2, <2>1, <2>4 DEF TypeOK
  <2>9. \A z \in Schedulers : Busy(z) => z = s
    <3>1. \A u \in Threads : ~At(u, "join")
      BY <1>3, <2>7 DEF Shutdown, Initializing, At
    <3> QED
      BY <1>2, <2>1, <3>1 DEF CleanInv
  <2> QED
    BY <2>5, <2>7, <2>8, <2>9 DEF CleanInv
<1>4. CASE NothingToShutDown(t)
  <2>1. Replaced(t) /\ call[t].pc = "shutdown" /\ Initializing(t)
    BY <1>1, <1>4, GotoStep DEF NothingToShutDown, PCs, Initializing, At
  <2>2. \A s \in Schedulers : sched[s] # "running"
    BY <1>2, <1>4, ConnectionAssumption DEF NothingToShutDown, CurrentRuns
  <2>3. \A u \in Threads : ~At(u, "join")
    BY <2>1, Alone DEF Initializing, At
  <2>4. \A s \in Schedulers : ~Busy(s)
    BY <2>2, <2>3 DEF CleanInv
  <2>5. \A s \in Schedulers : ~Busy(s)'
    BY <2>1, <2>4, Alone
  <2>6. UNCHANGED <<sched, current>>
    BY <1>4 DEF NothingToShutDown
  <2> QED
    BY <2>2, <2>5, <2>6, CleanWithoutScan
<1>5. CASE Joined(t)
  <2>1. /\ Replaced(t) /\ At(t, "join") /\ Initializing(t) /\ ~Busy(call[t].waited)
        /\ UNCHANGED <<sched, current>>
    BY <1>1, <1>5, GotoStep DEF Joined, PCs, Initializing, At
  <2>2. \A s \in Schedulers : sched[s] # "running"
    BY <2>1 DEF CleanInv, Replacing, At
  <2>3. \A u \in Threads : At(u, "join") => u = t
    BY <2>1, Alone DEF Initializing, At
  <2>4. \A s \in Schedulers : ~Busy(s)
    BY <2>1, <2>2, <2>3 DEF CleanInv
  <2>5. \A s \in Schedulers : ~Busy(s)'
    BY <2>1, <2>4, Alone
  <2> QED
    BY <2>1, <2>2, <2>5, CleanWithoutScan
<1>6. ASSUME Replaced(t), call[t].pc \in Replacing, ~At(t, "join"), Initializing(t),
             \/ \A s \in Schedulers : sched'[s] # "running"
             \/ /\ \A s \in Schedulers : sched'[s] = "running" => s = current'
                /\ call'[t].pc \notin Replacing
      PROVE  CleanInv'
  <2>1. \A s \in Schedulers : ~Busy(s)'
    BY <1>6, NoScanLeft, Alone
  <2>2. \A u \in Threads : u # t => call'[u].pc \notin Replacing
    BY <1>6, Alone DEF Initializing, Replacing
  <2> QED
    BY <1>6, <2>1, <2>2, CleanWithoutScan
<1>7. CASE Connect(t) \/ Verify(t) \/ AddJob(t)
  <2>1. PICK p \in {"verify", "install", "start"} : Goto(t, p)
    BY <1>7 DEF Connect, Verify, AddJob
  <2>2. /\ Replaced(t) /\ call[t].pc \in {"connect", "verify", "addjob"}
        /\ sched' = sched
    BY <1>1, <1>7, <2>1, GotoStep DEF Connect, Verify, AddJob, PCs, At
  <2>3. call[t].pc \in Replacing /\ ~At(t, "join") /\ Initializing(t)
    BY <2>2 DEF Replacing, At, Initializing
  <2> QED
    BY <1>6, <2>2, <2>3, NoScanLeft
<1>8. CASE ConnectFails(t) \/ ConnectRaises(t)
  <2>1. Replaced(t) /\ call[t].pc \in {"connect", "verify"} /\ sched' = sched
    BY <1>1, <1>8, RaiseStep DEF ConnectFails, ConnectRaises, At
  <2>2. call[t].pc \in Replacing /\ ~At(t, "join") /\ Initializing(t)
    BY <2>1 DEF Replacing, At, Initializing
  <2> QED
    BY <1>6, <2>1, <2>2, NoScanLeft
<1>9. ASSUME NEW s \in Schedulers, Install(t, s) PROVE CleanInv'
  <2>1. /\ Replaced(t) /\ call[t].pc = "install"
        /\ sched' = [sched EXCEPT ![s] = "new"]
    BY <1>1, <1>9, GotoStep DEF Install, PCs, At
  <2>2. call[t].pc \in Replacing /\ ~At(t, "join") /\ Initializing(t)
    BY <2>1 DEF Replacing, At, Initializing
  <2>3. \A z \in Schedulers : sched[z] # "running"
    BY <2>2, NoScanLeft
  <2>4. \A z \in Schedulers : sched'[z] # "running"
    BY <1>1, <2>1, <2>3 DEF TypeOK
  <2> QED
    BY <1>6, <2>1, <2>2, <2>4
<1>10. CASE Start(t) \/ StartRefused(t)
  <2>1. /\ Replaced(t) /\ call'[t].pc \in {"idle", "body", "ping"}
        /\ call[t].pc = "start"
    BY <1>1, <1>10, RaiseStep, ConnectedStep DEF Start, StartRefused, At
  <2>2. /\ call[t].pc \in Replacing /\ ~At(t, "join") /\ Initializing(t)
        /\ call'[t].pc \notin Replacing
    BY <2>1 DEF Replacing, At, Initializing
  <2>3. \A z \in Schedulers : sched[z] # "running"
    BY <2>2, NoScanLeft
  <2>4. \A z \in Schedulers : sched'[z] = "running" => z = current'
    BY <1>1, <1>10, <2>3 DEF TypeOK, Start, StartRefused
  <2> QED
    BY <1>6, <2>1, <2>2, <2>4
<1> QED
  BY <1>3, <1>4, <1>5, <1>7, <1>8, <1>9, <1>10 DEF Initialize

LEMMA CleanKept ==
  ASSUME IInv, CleanInv, Remember, NEW t \in Threads,
         Quiet(t) \/ Initialize(t)
  PROVE  CleanInv'
<1> SUFFICES ASSUME ~entangled' PROVE CleanInv'
  BY DEF CleanInv
<1>1. ~entangled /\ ~Tangle'
  BY DEF Remember
<1> QED
  BY <1>1, QuietClean, InitializeClean

-----------------------------------------------------------------------------
LEMMA Initial == Init => IInv /\ CleanInv
<1> SUFFICES ASSUME Init PROVE IInv /\ CleanInv
  OBVIOUS
<1>1. \A t \in Threads : call[t] = Rest /\ call[t].pc = "idle" /\ call[t].waited = NoScheduler
  BY RestFacts DEF Init
<1>2. TypeOK
  <2>1. sched \in [Schedulers -> {"new", "running", "stopped"}]
    BY DEF Init
  <2>2. call \in [Threads -> Calls]
    BY RestFacts DEF Init
  <2>3. client \in BOOLEAN /\ current \in Schedulers \cup {NoScheduler}
    BY DEF Init
  <2>4. {losses, saves} \subseteq 0..MaxUpsets
    BY ConnectionAssumption DEF Init
  <2>5. jobs \subseteq Schedulers
    BY DEF Init
  <2>6. entangled \in BOOLEAN
    BY DEF Init
  <2> QED
    BY <2>1, <2>2, <2>3, <2>4, <2>5, <2>6 DEF TypeOK
<1>3. JoinInv
  BY <1>1 DEF JoinInv, WaitedInv, At
<1>4. \A t \in Threads : ~Initializing(t) /\ ~Busy(t)
  BY <1>1 DEF Initializing, Busy, At
<1>5. AnsweringInv
  BY <1>1, <1>4, ThreadFacts DEF Init, AnsweringInv
<1>6. Successor
  BY ConnectionAssumption DEF Init, Successor
<1>7. CleanInv
  <2>1. \A s \in Schedulers : sched[s] = "running" => s = current
    BY DEF Init
  <2>2. \A t \in Threads : call[t].pc \notin Replacing
    BY <1>1 DEF Replacing
  <2> QED
    BY <1>4, <2>1, <2>2, ThreadFacts DEF CleanInv, Tangle
<1> QED
  BY <1>2, <1>3, <1>5, <1>6, <1>7 DEF IInv

LEMMA InvariantHolds == Spec => [](IInv /\ CleanInv)
<1>1. IInv /\ CleanInv /\ [Next]_vars => IInv' /\ CleanInv'
  <2> SUFFICES ASSUME IInv, CleanInv, [Next]_vars PROVE IInv' /\ CleanInv'
    OBVIOUS
  <2>1. CASE UNCHANGED vars
    BY <2>1 DEF vars, IInv, TypeOK, JoinInv, WaitedInv, AnsweringInv, Successor, At,
       Busy, Initializing, CleanInv, Tangle
  <2>2. ASSUME NEW t \in Threads, Remember,
               Arrive(t) \/ RunCommand(t) \/ Initialize(t)
        PROVE  IInv' /\ CleanInv'
    <3>1. entangled' \in BOOLEAN
      BY <2>2 DEF Remember, IInv, TypeOK
    <3>2. CASE Arrive(t) \/ RunCommand(t)
      <4>1. Quiet(t)
        BY <3>2, EntryQuiet, RunCommandQuiet DEF Arrive
      <4> QED
        BY <2>2, <3>1, <4>1, QuietKeeps, CleanKept
    <3>3. CASE Initialize(t)
      <4>1. IInv'
        BY <3>1, <3>3, ShutdownKeeps, ForwardKeeps, FailureKeeps, InstallKeeps,
           AddJobKeeps, StartKeeps DEF Initialize
      <4> QED
        BY <2>2, <3>3, <4>1, CleanKept
    <3> QED
      BY <2>2, <3>2, <3>3
  <2> QED
    BY <2>1, <2>2 DEF Next, Advance
<1> QED
  BY <1>1, Initial, PTL DEF Spec

-----------------------------------------------------------------------------
(* Theorems.                                                               *)

\* The shared attributes and every thread's progress stay well formed.
THEOREM TypeCorrect == Spec => []TypeOK
BY InvariantHolds, PTL DEF IInv

\* Saves, first calls and reconnecting requests, any number of them one after
\* another: no scan goes on with the next client, and no second scheduler runs.
THEOREM ReplacementsAreClean == Spec => []ReplacementIsClean
<1>1. CleanInv => ReplacementIsClean
  <2> SUFFICES ASSUME CleanInv, ~entangled PROVE ReplacementIsClean
    BY DEF ReplacementIsClean
  <2>1. \A s \in Schedulers : sched[s] = "running" => s = current
    BY DEF CleanInv
  <2>2. ASSUME NEW t \in Threads, Initializing(t), call[t].pc \notin {"shutdown", "join"}
        PROVE  \A s \in Schedulers : ~Busy(s)
    <3>1. call[t].pc \in Replacing /\ ~At(t, "join")
      BY <2>2 DEF Initializing, Replacing, At
    <3> QED
      BY <3>1, NoScanLeft
  <2> QED
    BY <2>1, <2>2 DEF ReplacementIsClean
<1> QED
  BY <1>1, InvariantHolds, PTL

\* As long as the daemon answers, each manager that reports "ready" and is not
\* just being replaced has a scheduler that runs and has the scan job.
THEOREM ReadyIsExpiring == Spec => []ReadyMeansExpiring
<1>1. IInv => ReadyMeansExpiring
  <2> SUFFICES ASSUME IInv, losses = 0, client, \A t \in Threads : ~Initializing(t)
               PROVE  CurrentRuns /\ current \in jobs
    BY DEF ReadyMeansExpiring
  <2>1. Successor /\ TypeOK
    BY DEF IInv
  <2>2. /\ current # NoScheduler
        /\ sched[current] # "new" /\ sched[current] # "stopped"
        /\ current \in jobs
    BY <2>1 DEF Successor, Initializing, At
  <2> QED
    BY <2>1, <2>2 DEF CurrentRuns, TypeOK
<1> QED
  BY <1>1, InvariantHolds, PTL
=============================================================================
