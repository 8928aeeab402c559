------------------------------- MODULE Flags -------------------------------
(***************************************************************************)
(* The flags of one container challenge: issued with an instance, kept or  *)
(* deleted with it, submitted by accounts, and recorded as evidence when   *)
(* one account submits another's.  An instance appears and disappears here *)
(* by the one commit that records or cleans it up (see Instances).         *)
(***************************************************************************)
EXTENDS Naturals, FiniteSets

CONSTANTS
  Accounts,
  Requests,      \* web requests in progress, over all worker processes
  Containers,
  RandomFlags,   \* what generate_random_flag can draw
  StaticFlag,    \* the challenge's flag with its prefix and suffix
  MaxSwitches,   \* bound on changes of flag_mode
  NoContainer, NoFlag, NoAccount

AllFlags == RandomFlags \cup {StaticFlag}

ASSUME FlagAssumption ==
  /\ StaticFlag \notin RandomFlags
  /\ NoFlag \notin AllFlags
  /\ MaxSwitches \in Nat
  /\ NoContainer \notin Containers
  /\ NoAccount \notin Accounts

VARIABLES
  mode,     \* the challenge's flag_mode
  switches, \* its changes so far
  live,     \* the account's container_info row, by its container
  flagOf,   \* the flag column of a container's row
  rows,     \* container_flag_model
  log,      \* container_cheat_log
  issued,   \* random flags handed out with an instance (history)
  dropped,  \* those deleted by a teardown in static mode (history)
  solved,   \* accounts whose solve CTFd recorded
  task      \* what each request is doing

vars == <<mode, switches, live, flagOf, rows, log, issued, dropped, solved, task>>

\* born tells two rows apart: the container a launch made the row for.
Rows == [owner : Accounts, flag : AllFlags,
         born : Containers \cup {NoContainer},
         container : Containers \cup {NoContainer}]

NoRow == [owner |-> NoAccount, flag |-> NoFlag,
          born |-> NoContainer, container |-> NoContainer]

\* row: the row a submission marks used, NoRow if it is a new one.
Tasks == [pc : {"idle", "launch", "use", "evidence", "kill"},
          account : Accounts \cup {NoAccount}, flag : AllFlags \cup {NoFlag},
          container : Containers \cup {NoContainer}, row : Rows \cup {NoRow}]

Job(pc, a, f, c, row) ==
  [pc |-> pc, account |-> a, flag |-> f, container |-> c, row |-> row]

Idle == Job("idle", NoAccount, NoFlag, NoContainer, NoRow)

At(r, pc) == task[r].pc = pc
Begin(r, t) == task' = [task EXCEPT ![r] = t]
Return(r) == Begin(r, Idle)

-----------------------------------------------------------------------------
(* Launching: the flag is drawn first, and its row written only when the   *)
(* container is healthy.                                                   *)

\* _generate_unique_random_flag, or the static flag.
Drawn(f) == IF mode = "random"
            THEN f \in RandomFlags /\ \A row \in rows : row.flag # f
            ELSE f = StaticFlag

Launch(r, a, f) ==
  /\ At(r, "idle")
  /\ a \notin solved
  /\ live[a] = NoContainer
  /\ Drawn(f)
  /\ Begin(r, Job("launch", a, f, NoContainer, NoRow))
  /\ UNCHANGED <<mode, switches, live, flagOf, rows, log, issued, dropped, solved>>

LaunchFails(r) ==
  /\ At(r, "launch")
  /\ Return(r)
  /\ UNCHANGED <<mode, switches, live, flagOf, rows, log, issued, dropped, solved>>

\* The container_info row and the flag row, in one commit.
RecordFlag(r, c) ==
  LET a == task[r].account
      f == task[r].flag
  IN /\ live' = [live EXCEPT ![a] = c]
     /\ flagOf' = [flagOf EXCEPT ![c] = f]
     /\ rows' = rows \cup
          {[owner |-> a, flag |-> f, born |-> c, container |-> c]}
     /\ issued' = IF f = StaticFlag THEN issued ELSE issued \cup {<<a, f>>}

Record(r, c) ==
  /\ At(r, "launch")
  /\ live[task[r].account] = NoContainer
  /\ flagOf[c] = NoFlag
  /\ RecordFlag(r, c)
  /\ Return(r)
  /\ UNCHANGED <<mode, switches, log, dropped, solved>>

-----------------------------------------------------------------------------
(* cleanup_container_records, from whichever teardown path.                *)

Attached(c) == {row \in rows : row.container = c}

\* Slip: the flags go with the instance in both modes.
FlagsAfterDeleted(c) == rows \ Attached(c)

\* Slip: a kept flag loses its team as well.
FlagsAfterDisowned(c) ==
  IF mode = "static" THEN rows \ Attached(c)
  ELSE (rows \ Attached(c)) \cup
       {[row EXCEPT !.container = NoContainer, !.owner = NoAccount] :
          row \in Attached(c)}

FlagsAfter(c) ==
  IF mode = "static" THEN rows \ Attached(c)
  ELSE (rows \ Attached(c)) \cup
       {[row EXCEPT !.container = NoContainer] : row \in Attached(c)}

CleanUp(c) ==
  /\ rows' = FlagsAfter(c)
  /\ live' = [a \in Accounts |-> IF live[a] = c THEN NoContainer ELSE live[a]]
  /\ dropped' = IF mode = "random" THEN dropped
                ELSE dropped \cup {<<row.owner, row.flag>> : row \in Attached(c)}

\* Stop, purge, view, prune or the expiry scan.
TearDown(a) ==
  /\ live[a] # NoContainer
  /\ CleanUp(live[a])
  /\ UNCHANGED <<mode, switches, flagOf, log, issued, solved, task>>

-----------------------------------------------------------------------------
(* ContainerChallenge.attempt.                                             *)

HoldsInstanceFlag(a, f) == live[a] # NoContainer /\ flagOf[live[a]] = f

InstanceFlag(a, f) == {row \in rows : row.container = live[a] /\ row.flag = f}

\* Slip: only the flags of running instances are looked up.
OwnedAttached(a, f) ==
  {row \in rows : row.owner = a /\ row.flag = f /\ row.container # NoContainer}

\* Slip: the owner filter is missing.
OwnedByAnyone(a, f) == {row \in rows : row.flag = f}

Owned(a, f) == {row \in rows : row.owner = a /\ row.flag = f}

Expected(f) == mode = "static" /\ f = StaticFlag

\* get_container_flag: the row to mark used, a new row, or "Incorrect".  The
\* flag of the account's instance is looked for among that instance's rows only.
Found(a, f) ==
  IF HoldsInstanceFlag(a, f) THEN InstanceFlag(a, f) ELSE Owned(a, f)

Matches(r, a, f) ==
  \/ \E row \in Found(a, f) : Begin(r, Job("use", a, f, live[a], row))
  \/ /\ Found(a, f) = {}
     /\ HoldsInstanceFlag(a, f) \/ Expected(f)
     /\ Begin(r, Job("use", a, f, live[a], NoRow))

\* Another account's row with this flag, which is evidence in random mode.
Reused(a, f) ==
  {row \in rows : mode = "random" /\ row.flag = f /\ row.owner # a}

Evidence(row, a) == [flag |-> row.flag, original |-> row.owner, second |-> a]

\* A wrong flag: "Incorrect", after evidence that is not there yet.
Mismatch(r, a, f) ==
  /\ Found(a, f) = {}
  /\ ~HoldsInstanceFlag(a, f) /\ ~Expected(f)
  /\ \/ \E row \in Reused(a, f) :
          IF Evidence(row, a) \in log THEN Return(r)
          ELSE Begin(r, Job("evidence", a, f, NoContainer, row))
     \/ Reused(a, f) = {} /\ Return(r)

Submit(r, a, f) ==
  /\ At(r, "idle")
  /\ a \notin solved
  /\ Matches(r, a, f) \/ Mismatch(r, a, f)
  /\ UNCHANGED <<mode, switches, live, flagOf, rows, log, issued, dropped, solved>>

CommitEvidence(r) ==
  /\ At(r, "evidence")
  /\ log' = log \cup {Evidence(task[r].row, task[r].account)}
  /\ Return(r)
  /\ UNCHANGED <<mode, switches, live, flagOf, rows, issued, dropped, solved>>

\* The row is still there; a teardown may have taken its container_id.
StillThere(row) ==
  \E other \in rows : /\ other.flag = row.flag
                      /\ other.born = row.born
                      /\ other.container \in {row.container, NoContainer}

\* used = True and its commit; a new row needs its container to exist.
CommitUse(r) ==
  /\ At(r, "use")
  /\ LET t == task[r]
         attached == t.container = NoContainer \/ live[t.account] = t.container
     IN \/ /\ t.row # NoRow /\ StillThere(t.row)
           /\ UNCHANGED rows
           /\ Begin(r, [t EXCEPT !.pc = "kill"])
        \/ /\ t.row = NoRow /\ attached
           /\ rows' = rows \cup {[owner |-> t.account, flag |-> t.flag,
                                  born |-> NoContainer,
                                  container |-> t.container]}
           /\ Begin(r, [t EXCEPT !.pc = "kill"])
        \/ /\ IF t.row = NoRow THEN ~attached ELSE ~StillThere(t.row)
           /\ UNCHANGED rows
           /\ Return(r)
  /\ UNCHANGED <<mode, switches, live, flagOf, log, issued, dropped, solved>>

\* The instance is killed, unless that is refused; then CTFd records the
\* solve.
Score(r) ==
  /\ At(r, "kill")
  /\ IF live[task[r].account] = task[r].container
        /\ task[r].container # NoContainer
     THEN CleanUp(task[r].container) ELSE UNCHANGED <<rows, live, dropped>>
  /\ solved' = solved \cup {task[r].account}
  /\ Return(r)
  /\ UNCHANGED <<mode, switches, flagOf, log, issued>>

KillRefused(r) ==
  /\ At(r, "kill")
  /\ task[r].container # NoContainer
  /\ Return(r)
  /\ UNCHANGED <<mode, switches, live, flagOf, rows, log, issued, dropped, solved>>

\* ContainerChallenge.update by an admin.
SwitchMode ==
  /\ switches < MaxSwitches
  /\ switches' = switches + 1
  /\ mode' = IF mode = "random" THEN "static" ELSE "random"
  /\ UNCHANGED <<live, flagOf, rows, log, issued, dropped, solved, task>>

-----------------------------------------------------------------------------
Init ==
  /\ mode \in {"random", "static"}
  /\ switches = 0
  /\ live = [a \in Accounts |-> NoContainer]
  /\ flagOf = [c \in Containers |-> NoFlag]
  /\ rows = {}
  /\ log = {}
  /\ issued = {}
  /\ dropped = {}
  /\ solved = {}
  /\ task = [r \in Requests |-> Idle]

Next ==
  \/ \E r \in Requests, a \in Accounts, f \in AllFlags :
       Launch(r, a, f) \/ Submit(r, a, f)
  \/ \E r \in Requests :
       \/ LaunchFails(r) \/ (\E c \in Containers : Record(r, c))
       \/ CommitEvidence(r) \/ CommitUse(r) \/ Score(r) \/ KillRefused(r)
  \/ \E a \in Accounts : TearDown(a)
  \/ SwitchMode

Spec == Init /\ [][Next]_vars

-----------------------------------------------------------------------------
\* The tables keep their columns.
TypeOK ==
  /\ mode \in {"random", "static"}
  /\ switches \in 0..MaxSwitches
  /\ live \in [Accounts -> Containers \cup {NoContainer}]
  /\ flagOf \in [Containers -> AllFlags \cup {NoFlag}]
  /\ rows \subseteq Rows
  /\ log \subseteq [flag : AllFlags, original : Accounts, second : Accounts]
  /\ issued \subseteq Accounts \X RandomFlags
  /\ dropped \subseteq Accounts \X AllFlags
  /\ solved \subseteq Accounts
  /\ task \in [Requests -> Tasks]

Kept == issued \ dropped

\* A random flag stays on record with its owner after its instance is gone,
\* unless that was torn down in static mode (cleanup_container_records:
\* "Preserve issued random flags after teardown").
IssuedFlagKept ==
  \A p \in Kept : \E row \in rows : row.owner = p[1] /\ row.flag = p[2]

\* A flag an account was given and that was kept is never called incorrect,
\* before or after the teardown of its instance, whatever was launched,
\* submitted or switched since; nor is the static flag in static mode.
OwnFlagAccepted ==
  [][\A r \in Requests, a \in Accounts, f \in AllFlags :
       Submit(r, a, f) /\ (<<a, f>> \in Kept \/ Expected(f))
         => At(r, "use")']_vars

\* An account scores only with a flag it was given, or the static flag:
\* another account's random flag never counts, its instance running or not.
OnlyOwnFlagScores ==
  [][\A r \in Requests :
       Score(r) => \/ task[r].flag = StaticFlag
                   \/ <<task[r].account, task[r].flag>> \in issued]_vars

\* What is logged as evidence of a random flag is real: it was given to the
\* original owner, and is not one that was given to the account that
\* submitted it and kept.
EvidenceIsReuse ==
  [][\A r \in Requests, a \in Accounts, f \in RandomFlags :
       Submit(r, a, f) /\ At(r, "evidence")' =>
         /\ <<task'[r].row.owner, f>> \in issued
         /\ <<a, f>> \notin Kept]_vars
=============================================================================
