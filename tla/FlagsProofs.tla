----------------------------- MODULE FlagsProofs -----------------------------
(***************************************************************************)
(* What a submission can and cannot score with, proved for any number of   *)
(* accounts, requests, containers and flags, and however the flag mode is  *)
(* switched.                                                               *)
(***************************************************************************)
EXTENDS Flags, TLAPS

\* A flag that may count for an account: the static flag, or one that was
\* issued to it.
Rightful(a, f) == f = StaticFlag \/ <<a, f>> \in issued

\* A request past its first step knows for which account and flag it works;
\* evidence names a row of the table.
TaskInv ==
  \A r \in Requests : ~At(r, "idle") =>
    /\ task[r].account \in Accounts
    /\ task[r].flag \in AllFlags
    /\ At(r, "evidence") => task[r].row \in Rows

\* The flags on the rows, on the running instances and in the hands of the
\* requests that are about to score are rightful.
FlagInv ==
  /\ \A row \in rows : Rightful(row.owner, row.flag)
  /\ \A a \in Accounts :
       live[a] # NoContainer => Rightful(a, flagOf[live[a]])
  /\ \A r \in Requests :
       At(r, "use") \/ At(r, "kill") => Rightful(task[r].account, task[r].flag)

IInv == TypeOK /\ TaskInv /\ FlagInv /\ IssuedFlagKept

-----------------------------------------------------------------------------
(* Steps of the actions.                                                   *)

\* What Begin leaves of the tasks.
LEMMA BeginTask ==
  ASSUME TypeOK, NEW r \in Requests, NEW t \in Tasks, Begin(r, t)
  PROVE  /\ task' \in [Requests -> Tasks]
         /\ task'[r] = t
         /\ \A q \in Requests : q # r => task'[q] = task[q]
BY DEF TypeOK, Begin

\* A task made of values of the tables.
LEMMA JobTask ==
  ASSUME NEW pc \in {"idle", "launch", "use", "evidence", "kill"},
         NEW a \in Accounts \cup {NoAccount},
         NEW f \in AllFlags \cup {NoFlag},
         NEW c \in Containers \cup {NoContainer},
         NEW row \in Rows \cup {NoRow}
  PROVE  /\ Job(pc, a, f, c, row) \in Tasks
         /\ Job(pc, a, f, c, row).pc = pc
         /\ Job(pc, a, f, c, row).account = a
         /\ Job(pc, a, f, c, row).flag = f
         /\ Job(pc, a, f, c, row).container = c
         /\ Job(pc, a, f, c, row).row = row
BY DEF Job, Tasks

LEMMA IdleTask == Idle \in Tasks /\ Idle.pc = "idle"
BY JobTask DEF Idle

\* A request that returns disturbs neither TaskInv nor what FlagInv says of
\* the tasks.
LEMMA ReturnTask ==
  ASSUME TypeOK, TaskInv, NEW r \in Requests, Return(r)
  PROVE  /\ task' \in [Requests -> Tasks]
         /\ TaskInv'
         /\ task'[r].pc = "idle"
         /\ \A q \in Requests : q # r => task'[q] = task[q]
<1>1. /\ task' \in [Requests -> Tasks]
      /\ task'[r] = Idle
      /\ \A q \in Requests : q # r => task'[q] = task[q]
  BY IdleTask, BeginTask DEF Return
<1> QED
  BY <1>1, IdleTask DEF TaskInv, At

\* What a teardown does to the table: it adds no owner and no flag, and a row
\* that it deletes is accounted for in dropped.
LEMMA CleanUpRows ==
  ASSUME TypeOK, NEW c \in Containers, CleanUp(c)
  PROVE  /\ rows' \subseteq Rows
         /\ live' \in [Accounts -> Containers \cup {NoContainer}]
         /\ dropped' \subseteq Accounts \X AllFlags
         /\ dropped \subseteq dropped'
         /\ \A a \in Accounts : live'[a] # NoContainer => live'[a] = live[a]
         /\ \A new \in rows' : \E row \in rows :
              new.owner = row.owner /\ new.flag = row.flag
         /\ \A row \in rows :
              \/ \E new \in rows' : new.owner = row.owner /\ new.flag = row.flag
              \/ <<row.owner, row.flag>> \in dropped'
<1> DEFINE Freed == {[row EXCEPT !.container = NoContainer] : row \in Attached(c)}
<1>1. rows \subseteq Rows /\ Attached(c) \subseteq rows
  BY DEF TypeOK, Attached
<1>2. \A row \in Rows :
        LET new == [row EXCEPT !.container = NoContainer]
        IN new \in Rows /\ new.owner = row.owner /\ new.flag = row.flag
  BY DEF Rows
<1>3. \A row \in Rows : row.owner \in Accounts /\ row.flag \in AllFlags
  BY DEF Rows
<1>4. live' = [a \in Accounts |-> IF live[a] = c THEN NoContainer ELSE live[a]]
  BY DEF CleanUp
<1>5. live' \in [Accounts -> Containers \cup {NoContainer}]
  BY <1>4 DEF TypeOK
<1>6. \A a \in Accounts : live'[a] # NoContainer => live'[a] = live[a]
  BY <1>4 DEF TypeOK
<1>7. CASE mode = "static"
  <2>1. rows' = rows \ Attached(c)
    BY <1>7 DEF CleanUp, FlagsAfter
  <2>2. dropped' = dropped \cup {<<row.owner, row.flag>> : row \in Attached(c)}
    BY <1>7 DEF CleanUp
  <2> QED
    BY <1>1, <1>3, <1>5, <1>6, <2>1, <2>2 DEF TypeOK
<1>8. CASE mode = "random"
  <2>1. rows' = (rows \ Attached(c)) \cup Freed
    BY <1>8 DEF CleanUp, FlagsAfter
  <2>2. dropped' = dropped
    BY <1>8 DEF CleanUp
  <2>3. Freed \subseteq Rows
    BY <1>1, <1>2
  <2>4. \A new \in rows' : \E row \in rows :
          new.owner = row.owner /\ new.flag = row.flag
    <3> TAKE new \in rows'
    <3>1. CASE new \in rows
      BY <3>1
    <3>2. CASE new \notin rows
      <4>1. PICK row \in Attached(c) : new = [row EXCEPT !.container = NoContainer]
        BY <2>1, <3>2
      <4>2. new.owner = row.owner /\ new.flag = row.flag
        BY <1>1, <1>2, <4>1
      <4> QED
        BY <1>1, <4>2
    <3> QED
      BY <3>1, <3>2
  <2>5. \A row \in rows :
          \E new \in rows' : new.owner = row.owner /\ new.flag = row.flag
    <3> TAKE row \in rows
    <3>1. CASE row \in Attached(c)
      <4> DEFINE new == [row EXCEPT !.container = NoContainer]
      <4>1. new \in rows'
        BY <2>1, <3>1
      <4>2. new.owner = row.owner /\ new.flag = row.flag
        BY <1>1, <1>2
      <4> HIDE DEF new
      <4> QED
        BY <4>1, <4>2
    <3>2. CASE row \notin Attached(c)
      BY <2>1, <3>2
    <3> QED
      BY <3>1, <3>2
  <2> QED
    BY <1>1, <1>5, <1>6, <2>1, <2>2, <2>3, <2>4, <2>5 DEF TypeOK
<1> QED
  BY <1>7, <1>8 DEF TypeOK

-----------------------------------------------------------------------------
(* Type correctness.                                                       *)

\* The row that a matching flag finds is one of the table, for this flag.
LEMMA FoundRows ==
  ASSUME NEW a \in Accounts, NEW f \in AllFlags
  PROVE  Found(a, f) \subseteq {row \in rows : row.flag = f}
BY DEF Found, InstanceFlag, Owned

\* What a submission makes of its request.
LEMMA SubmitTask ==
  ASSUME TypeOK, TaskInv, NEW r \in Requests, NEW a \in Accounts,
         NEW f \in AllFlags, Submit(r, a, f)
  PROVE  /\ task' \in [Requests -> Tasks]
         /\ \A q \in Requests : q # r => task'[q] = task[q]
         /\ \/ /\ Matches(r, a, f)
               /\ task'[r].pc = "use"
               /\ task'[r].account = a
               /\ task'[r].flag = f
            \/ /\ Mismatch(r, a, f)
               /\ task'[r].pc = "evidence"
               /\ task'[r].account = a
               /\ task'[r].flag = f
               /\ task'[r].row \in Reused(a, f)
            \/ /\ Mismatch(r, a, f)
               /\ task'[r].pc = "idle"
<1>1. rows \subseteq Rows /\ live[a] \in Containers \cup {NoContainer}
  BY DEF TypeOK
<1>2. CASE Matches(r, a, f)
  <2>1. PICK row \in Rows \cup {NoRow} : Begin(r, Job("use", a, f, live[a], row))
    BY <1>1, <1>2, FoundRows DEF Matches
  <2>2. PICK c \in Containers \cup {NoContainer} : c = live[a]
    BY <1>1
  <2> DEFINE t == Job("use", a, f, c, row)
  <2>3. t \in Tasks /\ t.pc = "use" /\ t.account = a /\ t.flag = f
    BY JobTask
  <2>4. Begin(r, t)
    BY <2>1, <2>2
  <2> HIDE DEF t
  <2> QED
    BY <1>2, <2>3, <2>4, BeginTask
<1>3. CASE Mismatch(r, a, f)
  <2>1. \/ \E row \in Reused(a, f) :
             Begin(r, Job("evidence", a, f, NoContainer, row))
        \/ Return(r)
    BY <1>3 DEF Mismatch
  <2>2. CASE Return(r)
    BY <1>3, <2>2, ReturnTask
  <2>3. CASE ~Return(r)
    <3>1. PICK row \in Reused(a, f) :
            Begin(r, Job("evidence", a, f, NoContainer, row))
      BY <2>1, <2>3
    <3>2. row \in Rows
      BY <1>1 DEF Reused
    <3> QED
      BY <1>3, <3>1, <3>2, JobTask, BeginTask
  <2> QED
    BY <2>2, <2>3
<1> QED
  BY <1>2, <1>3 DEF Submit

LEMMA TypeInitial == Init => TypeOK /\ TaskInv
<1> SUFFICES ASSUME Init PROVE TypeOK /\ TaskInv
  OBVIOUS
<1>1. TypeOK
  BY IdleTask, FlagAssumption DEF Init, TypeOK
<1>2. TaskInv
  BY IdleTask DEF Init, TaskInv, At
<1> QED
  BY <1>1, <1>2

LEMMA TypeStep == TypeOK /\ TaskInv /\ [Next]_vars => TypeOK' /\ TaskInv'
<1> SUFFICES ASSUME TypeOK, TaskInv, [Next]_vars PROVE TypeOK' /\ TaskInv'
  OBVIOUS
<1>1. ASSUME NEW r \in Requests, NEW a \in Accounts, NEW f \in AllFlags,
             Launch(r, a, f)
      PROVE  TypeOK' /\ TaskInv'
  <2> DEFINE t == Job("launch", a, f, NoContainer, NoRow)
  <2>1. t \in Tasks /\ t.pc = "launch" /\ t.account = a /\ t.flag = f
    BY JobTask
  <2> HIDE DEF t
  <2>2. Begin(r, t)
    BY <1>1 DEF Launch, t
  <2>3. /\ task' \in [Requests -> Tasks] /\ task'[r] = t
        /\ \A q \in Requests : q # r => task'[q] = task[q]
    BY <2>1, <2>2, BeginTask
  <2> QED
    BY <1>1, <2>1, <2>3 DEF Launch, TypeOK, TaskInv, At
<1>2. ASSUME NEW r \in Requests, LaunchFails(r)
      PROVE  TypeOK' /\ TaskInv'
  BY <1>2, ReturnTask DEF LaunchFails, TypeOK
<1>3. ASSUME NEW r \in Requests, NEW c \in Containers, Record(r, c)
      PROVE  TypeOK' /\ TaskInv'
  <2> DEFINE a == task[r].account
             f == task[r].flag
             row == [owner |-> a, flag |-> f, born |-> c, container |-> c]
  <2>1. a \in Accounts /\ f \in AllFlags
    BY <1>3 DEF TaskInv, Record, At
  <2>2. row \in Rows
    BY <2>1 DEF Rows
  <2>3. /\ live' = [live EXCEPT ![a] = c]
        /\ flagOf' = [flagOf EXCEPT ![c] = f]
        /\ rows' = rows \cup {row}
        /\ issued' = IF f = StaticFlag THEN issued ELSE issued \cup {<<a, f>>}
    BY <1>3 DEF Record, RecordFlag
  <2>4. f # StaticFlag => f \in RandomFlags
    BY <2>1 DEF AllFlags
  <2> HIDE DEF a, f, row
  <2>5. issued' \subseteq Accounts \X RandomFlags
    BY <2>1, <2>3, <2>4 DEF TypeOK
  <2>6. task' \in [Requests -> Tasks] /\ TaskInv'
    BY <1>3, ReturnTask DEF Record
  <2> QED
    BY <1>3, <2>1, <2>2, <2>3, <2>5, <2>6 DEF Record, TypeOK
<1>4. ASSUME NEW r \in Requests, NEW a \in Accounts, NEW f \in AllFlags,
             Submit(r, a, f)
      PROVE  TypeOK' /\ TaskInv'
  <2>1. Reused(a, f) \subseteq Rows
    BY DEF Reused, TypeOK
  <2> QED
    BY <1>4, <2>1, SubmitTask DEF Submit, TypeOK, TaskInv, At
<1>5. ASSUME NEW r \in Requests, CommitEvidence(r)
      PROVE  TypeOK' /\ TaskInv'
  <2>1. task[r].account \in Accounts /\ task[r].row \in Rows
    BY <1>5 DEF CommitEvidence, TaskInv, At
  <2>2. Evidence(task[r].row, task[r].account) \in
          [flag : AllFlags, original : Accounts, second : Accounts]
    BY <2>1 DEF Evidence, Rows
  <2> QED
    BY <1>5, <2>2, ReturnTask DEF CommitEvidence, TypeOK
<1>6. ASSUME NEW r \in Requests, CommitUse(r)
      PROVE  TypeOK' /\ TaskInv'
  <2> DEFINE t == task[r]
             row == [owner |-> t.account, flag |-> t.flag,
                     born |-> NoContainer, container |-> t.container]
             used == [t EXCEPT !.pc = "kill"]
  <2>1. t \in Tasks /\ t.account \in Accounts /\ t.flag \in AllFlags
    BY <1>6 DEF CommitUse, TaskInv, TypeOK, At
  <2>2. row \in Rows
    BY <2>1 DEF Rows, Tasks
  <2>3. /\ used \in Tasks /\ used.pc = "kill" /\ used.account = t.account
        /\ used.flag = t.flag
    BY <2>1 DEF Tasks
  <2>4. rows' = rows \/ rows' = rows \cup {row}
    BY <1>6 DEF CommitUse
  <2>5. Return(r) \/ Begin(r, used)
    BY <1>6 DEF CommitUse
  <2> HIDE DEF row
  <2>6. rows' \subseteq Rows
    BY <2>2, <2>4 DEF TypeOK
  <2>7. CASE Return(r)
    BY <1>6, <2>6, <2>7, ReturnTask DEF CommitUse, TypeOK
  <2>8. CASE Begin(r, used)
    <3> HIDE DEF used
    <3>1. /\ task' \in [Requests -> Tasks] /\ task'[r] = used
          /\ \A q \in Requests : q # r => task'[q] = task[q]
      BY <2>3, <2>8, BeginTask
    <3> QED
      BY <1>6, <2>1, <2>3, <2>6, <3>1 DEF CommitUse, TypeOK, TaskInv, At
  <2> QED
    BY <2>5, <2>7, <2>8
<1>7. ASSUME NEW r \in Requests, Score(r)
      PROVE  TypeOK' /\ TaskInv'
  <2>1. task[r].account \in Accounts /\ task[r] \in Tasks
    BY <1>7 DEF Score, TaskInv, TypeOK, At
  <2>2. PICK c \in Containers \cup {NoContainer} : c = task[r].container
    BY <2>1 DEF Tasks
  <2>3. \/ c \in Containers /\ CleanUp(c)
        \/ UNCHANGED <<rows, live, dropped>>
    BY <1>7, <2>2 DEF Score
  <2>4. /\ rows' \subseteq Rows
        /\ live' \in [Accounts -> Containers \cup {NoContainer}]
        /\ dropped' \subseteq Accounts \X AllFlags
    BY <2>3, CleanUpRows DEF TypeOK
  <2>5. solved' \subseteq Accounts
    BY <1>7, <2>1 DEF Score, TypeOK
  <2> QED
    BY <1>7, <2>4, <2>5, ReturnTask DEF Score, TypeOK
<1>8. ASSUME NEW r \in Requests, KillRefused(r)
      PROVE  TypeOK' /\ TaskInv'
  BY <1>8, ReturnTask DEF KillRefused, TypeOK
<1>9. ASSUME NEW a \in Accounts, TearDown(a)
      PROVE  TypeOK' /\ TaskInv'
  <2>1. PICK c \in Containers : c = live[a]
    BY <1>9 DEF TearDown, TypeOK
  <2>2. CleanUp(c)
    BY <1>9, <2>1 DEF TearDown
  <2> QED
    BY <1>9, <2>2, CleanUpRows DEF TearDown, TypeOK, TaskInv, At
<1>10. CASE SwitchMode
  BY <1>10, FlagAssumption DEF SwitchMode, TypeOK, TaskInv, At
<1>11. CASE UNCHANGED vars
  BY <1>11 DEF vars, TypeOK, TaskInv, At
<1> QED
  BY <1>1, <1>2, <1>3, <1>4, <1>5, <1>6, <1>7, <1>8, <1>9, <1>10, <1>11 DEF Next

-----------------------------------------------------------------------------
(* The flags.                                                              *)

LEMMA FlagInitial == Init => FlagInv /\ IssuedFlagKept
BY IdleTask DEF Init, FlagInv, IssuedFlagKept, Kept, At

\* A flag on record that is rightful stays so, whatever is issued next.
LEMMA StaysRightful ==
  ASSUME issued \subseteq issued', NEW a, NEW f, Rightful(a, f)
  PROVE  Rightful(a, f)'
BY DEF Rightful

\* The container of a launch is new: no running instance is in it.
LEMMA FreshContainer ==
  ASSUME TypeOK, FlagInv, NEW c \in Containers, flagOf[c] = NoFlag
  PROVE  \A a \in Accounts : live[a] # c
<1> SUFFICES ASSUME NEW a \in Accounts, live[a] = c PROVE FALSE
  OBVIOUS
<1>1. Rightful(a, NoFlag)
  BY FlagAssumption DEF FlagInv
<1> QED
  BY <1>1, FlagAssumption DEF Rightful, TypeOK, AllFlags

\* A teardown leaves what FlagInv says of the tables, and keeps what was kept.
LEMMA CleanUpFlags ==
  ASSUME TypeOK, FlagInv, IssuedFlagKept, NEW c \in Containers, CleanUp(c),
         UNCHANGED <<issued, flagOf>>
  PROVE  /\ \A row \in rows' : Rightful(row.owner, row.flag)'
         /\ \A a \in Accounts :
              live'[a] # NoContainer => Rightful(a, flagOf[live[a]])'
         /\ IssuedFlagKept'
<1> USE CleanUpRows
<1>1. \A row \in rows' : Rightful(row.owner, row.flag)'
  BY DEF FlagInv, Rightful
<1>2. \A a \in Accounts :
        live'[a] # NoContainer => Rightful(a, flagOf[live[a]])'
  BY DEF FlagInv, Rightful
<1>3. IssuedFlagKept'
  <2> SUFFICES ASSUME NEW p \in Kept'
               PROVE  \E new \in rows' : new.owner = p[1] /\ new.flag = p[2]
    BY DEF IssuedFlagKept
  <2>1. p \in Kept /\ p \notin dropped' /\ p = <<p[1], p[2]>>
    BY DEF Kept, TypeOK
  <2>2. PICK row \in rows : row.owner = p[1] /\ row.flag = p[2]
    BY <2>1 DEF IssuedFlagKept
  <2> QED
    BY <2>1, <2>2
<1> QED
  BY <1>1, <1>2, <1>3

LEMMA FlagStep ==
  IInv /\ [Next]_vars /\ TypeOK' /\ TaskInv' => FlagInv' /\ IssuedFlagKept'
<1> SUFFICES ASSUME TypeOK, TaskInv, FlagInv, IssuedFlagKept, [Next]_vars,
                    TypeOK', TaskInv'
             PROVE  FlagInv' /\ IssuedFlagKept'
  BY DEF IInv
<1> USE DEF Rightful
<1>1. ASSUME NEW r \in Requests, NEW a \in Accounts, NEW f \in AllFlags,
             Launch(r, a, f)
      PROVE  FlagInv' /\ IssuedFlagKept'
  <2> DEFINE t == Job("launch", a, f, NoContainer, NoRow)
  <2>1. t \in Tasks /\ t.pc = "launch"
    BY JobTask
  <2> HIDE DEF t
  <2>2. task'[r] = t /\ \A q \in Requests : q # r => task'[q] = task[q]
    BY <1>1, <2>1, BeginTask DEF Launch, t
  <2> QED
    BY <1>1, <2>1, <2>2 DEF Launch, FlagInv, IssuedFlagKept, Kept, At
<1>2. ASSUME NEW r \in Requests, LaunchFails(r)
      PROVE  FlagInv' /\ IssuedFlagKept'
  BY <1>2, ReturnTask DEF LaunchFails, FlagInv, IssuedFlagKept, Kept, At
<1>3. ASSUME NEW r \in Requests, NEW c \in Containers, Record(r, c)
      PROVE  FlagInv' /\ IssuedFlagKept'
  <2> DEFINE row == [owner |-> task[r].account, flag |-> task[r].flag,
                     born |-> c, container |-> c]
  <2>1. PICK a \in Accounts, f \in AllFlags :
          a = task[r].account /\ f = task[r].flag
    BY <1>3 DEF TaskInv, Record, At
  <2>2. row.owner = a /\ row.flag = f
    BY <2>1
  <2>3. /\ live' = [live EXCEPT ![a] = c]
        /\ flagOf' = [flagOf EXCEPT ![c] = f]
        /\ rows' = rows \cup {row}
        /\ issued' = IF f = StaticFlag THEN issued ELSE issued \cup {<<a, f>>}
    BY <1>3, <2>1 DEF Record, RecordFlag
  <2> HIDE DEF row
  <2>4. Rightful(a, f)' /\ issued \subseteq issued'
    BY <2>3
  <2>5. \A new \in rows' : Rightful(new.owner, new.flag)'
    BY <2>2, <2>3, <2>4 DEF FlagInv
  <2>6. \A b \in Accounts : live'[b] # NoContainer => Rightful(b, flagOf[live[b]])'
    <3> TAKE b \in Accounts
    <3>1. CASE b = a
      BY <2>3, <2>4, <3>1 DEF TypeOK
    <3>2. CASE b # a
      <4>1. live'[b] = live[b] /\ live[b] # c
        BY <1>3, <2>3, <3>2, FreshContainer DEF TypeOK, Record
      <4>2. live[b] # NoContainer => flagOf'[live'[b]] = flagOf[live[b]]
        BY <2>3, <4>1 DEF TypeOK
      <4> QED
        BY <2>4, <4>1, <4>2 DEF FlagInv
    <3> QED
      BY <3>1, <3>2
  <2>7. \A q \in Requests :
          At(q, "use")' \/ At(q, "kill")' =>
            Rightful(task[q].account, task[q].flag)'
    BY <1>3, <2>4, ReturnTask DEF Record, FlagInv, At
  <2>8. IssuedFlagKept'
    <3> SUFFICES ASSUME NEW p \in Kept'
                 PROVE  \E new \in rows' : new.owner = p[1] /\ new.flag = p[2]
      BY DEF IssuedFlagKept
    <3>1. p \in Kept \/ p = <<a, f>>
      BY <1>3, <2>3 DEF Kept, Record
    <3> QED
      BY <2>2, <2>3, <3>1 DEF IssuedFlagKept
  <2> QED
    BY <2>5, <2>6, <2>7, <2>8 DEF FlagInv
<1>4. ASSUME NEW r \in Requests, NEW a \in Accounts, NEW f \in AllFlags,
             Submit(r, a, f)
      PROVE  FlagInv' /\ IssuedFlagKept'
  <2>1. Matches(r, a, f) => Rightful(a, f)
    <3> SUFFICES ASSUME Matches(r, a, f) PROVE Rightful(a, f)
      OBVIOUS
    <3>1. \/ \E row \in rows : row.owner = a /\ row.flag = f
          \/ HoldsInstanceFlag(a, f)
          \/ Expected(f)
      BY DEF Matches, Found, InstanceFlag, Owned, HoldsInstanceFlag
    <3> QED
      BY <3>1 DEF FlagInv, HoldsInstanceFlag, Expected
  <2> QED
    BY <1>4, <2>1, SubmitTask DEF Submit, FlagInv, IssuedFlagKept, Kept, At
<1>5. ASSUME NEW r \in Requests, CommitEvidence(r)
      PROVE  FlagInv' /\ IssuedFlagKept'
  BY <1>5, ReturnTask DEF CommitEvidence, FlagInv, IssuedFlagKept, Kept, At
<1>6. ASSUME NEW r \in Requests, CommitUse(r)
      PROVE  FlagInv' /\ IssuedFlagKept'
  <2> DEFINE t == task[r]
             row == [owner |-> t.account, flag |-> t.flag,
                     born |-> NoContainer, container |-> t.container]
             used == [t EXCEPT !.pc = "kill"]
  <2>1. t \in Tasks /\ Rightful(t.account, t.flag)
    BY <1>6 DEF CommitUse, FlagInv, TypeOK
  <2>2. row.owner = t.account /\ row.flag = t.flag
    OBVIOUS
  <2>3. /\ used \in Tasks /\ used.account = t.account /\ used.flag = t.flag
    BY <2>1 DEF Tasks
  <2>4. rows' = rows \/ rows' = rows \cup {row}
    BY <1>6 DEF CommitUse
  <2>5. Return(r) \/ Begin(r, used)
    BY <1>6 DEF CommitUse
  <2> HIDE DEF row, used
  <2>6. \A new \in rows' : Rightful(new.owner, new.flag)'
    BY <1>6, <2>1, <2>2, <2>4 DEF CommitUse, FlagInv
  <2>7. IssuedFlagKept'
    BY <1>6, <2>4 DEF CommitUse, IssuedFlagKept, Kept
  <2>8. \A q \in Requests :
          At(q, "use")' \/ At(q, "kill")' =>
            Rightful(task[q].account, task[q].flag)'
    <3>1. CASE Return(r)
      BY <1>6, <3>1, ReturnTask DEF CommitUse, FlagInv, At
    <3>2. CASE Begin(r, used)
      BY <1>6, <2>1, <2>3, <3>2, BeginTask DEF CommitUse, FlagInv, At
    <3> QED
      BY <2>5, <3>1, <3>2
  <2> QED
    BY <1>6, <2>6, <2>7, <2>8 DEF CommitUse, FlagInv
<1>7. ASSUME NEW r \in Requests, Score(r)
      PROVE  FlagInv' /\ IssuedFlagKept'
  <2>1. PICK c \in Containers \cup {NoContainer} : c = task[r].container
    BY DEF TypeOK, Tasks
  <2>2. \/ c \in Containers /\ CleanUp(c)
        \/ UNCHANGED <<rows, live, dropped>>
    BY <1>7, <2>1 DEF Score
  <2>3. \A q \in Requests :
          At(q, "use")' \/ At(q, "kill")' =>
            Rightful(task[q].account, task[q].flag)'
    BY <1>7, ReturnTask DEF Score, FlagInv, At
  <2>4. CASE c \in Containers /\ CleanUp(c)
    BY <1>7, <2>3, <2>4, CleanUpFlags DEF Score, FlagInv
  <2>5. CASE UNCHANGED <<rows, live, dropped>>
    BY <1>7, <2>3, <2>5 DEF Score, FlagInv, IssuedFlagKept, Kept
  <2> QED
    BY <2>2, <2>4, <2>5
<1>8. ASSUME NEW r \in Requests, KillRefused(r)
      PROVE  FlagInv' /\ IssuedFlagKept'
  BY <1>8, ReturnTask DEF KillRefused, FlagInv, IssuedFlagKept, Kept, At
<1>9. ASSUME NEW a \in Accounts, TearDown(a)
      PROVE  FlagInv' /\ IssuedFlagKept'
  <2>1. PICK c \in Containers : c = live[a]
    BY <1>9 DEF TearDown, TypeOK
  <2>2. CleanUp(c)
    BY <1>9, <2>1 DEF TearDown
  <2> QED
    BY <1>9, <2>2, CleanUpFlags DEF TearDown, FlagInv, At
<1>10. CASE SwitchMode
  BY <1>10 DEF SwitchMode, FlagInv, IssuedFlagKept, Kept, At
<1>11. CASE UNCHANGED vars
  BY <1>11 DEF vars, FlagInv, IssuedFlagKept, Kept, At
<1> QED
  BY <1>1, <1>2, <1>3, <1>4, <1>5, <1>6, <1>7, <1>8, <1>9, <1>10, <1>11 DEF Next

LEMMA InvariantHolds == Spec => []IInv
<1>1. Init => IInv
  BY TypeInitial, FlagInitial DEF IInv
<1>2. IInv /\ [Next]_vars => IInv'
  BY TypeStep, FlagStep DEF IInv
<1> QED
  BY <1>1, <1>2, PTL DEF Spec

-----------------------------------------------------------------------------
(* Theorems.                                                               *)

\* The tables keep their columns, whatever is launched, submitted, torn down
\* and switched at the same time.
THEOREM TypeCorrect == Spec => []TypeOK
BY InvariantHolds, PTL DEF IInv

\* cleanup_container_records never loses a random flag that was handed out,
\* except with an instance it tears down in static mode.
THEOREM IssuedFlagsStay == Spec => []IssuedFlagKept
BY InvariantHolds, PTL DEF IInv

\* attempt() finds a flag that the account was given and that was kept.
THEOREM OwnFlagsAreAccepted == Spec => OwnFlagAccepted
<1> DEFINE A == \A r \in Requests, a \in Accounts, f \in AllFlags :
                  Submit(r, a, f) /\ (<<a, f>> \in Kept \/ Expected(f))
                    => At(r, "use")'
<1>1. IInv /\ [Next]_vars => A
  <2> SUFFICES ASSUME IInv,
                      NEW r \in Requests, NEW a \in Accounts, NEW f \in AllFlags,
                      Submit(r, a, f), <<a, f>> \in Kept \/ Expected(f)
               PROVE  At(r, "use")'
    OBVIOUS
  <2>1. ~Mismatch(r, a, f)
    <3>1. <<a, f>> \in Kept /\ ~HoldsInstanceFlag(a, f) => Found(a, f) # {}
      BY DEF IInv, IssuedFlagKept, Found, Owned
    <3> QED
      BY <3>1 DEF Mismatch
  <2> QED
    BY <2>1, SubmitTask DEF IInv, At
<1> HIDE DEF A
<1>2. IInv /\ [Next]_vars => [A]_vars
  BY <1>1
<1>3. [][A]_vars => OwnFlagAccepted
  BY DEF A, OwnFlagAccepted
<1> QED
  BY <1>2, <1>3, InvariantHolds, PTL DEF Spec

\* A solve is recorded for an account's own flag or the static one, even when
\* the flag's instance is another's, is gone, or was replaced meanwhile.
THEOREM OnlyOwnFlagsScore == Spec => OnlyOwnFlagScores
<1> DEFINE A == \A r \in Requests :
                  Score(r) => \/ task[r].flag = StaticFlag
                              \/ <<task[r].account, task[r].flag>> \in issued
<1>1. IInv => A
  BY DEF IInv, FlagInv, Rightful, Score
<1> HIDE DEF A
<1>2. IInv /\ [Next]_vars => [A]_vars
  BY <1>1
<1>3. [][A]_vars => OnlyOwnFlagScores
  BY DEF A, OnlyOwnFlagScores
<1> QED
  BY <1>2, <1>3, InvariantHolds, PTL DEF Spec

\* Nobody is accused over a flag that was never issued to its recorded owner,
\* or that was their own.
THEOREM EvidenceIsReal == Spec => EvidenceIsReuse
<1> DEFINE A == \A r \in Requests, a \in Accounts, f \in RandomFlags :
                  Submit(r, a, f) /\ At(r, "evidence")' =>
                    /\ <<task'[r].row.owner, f>> \in issued
                    /\ <<a, f>> \notin Kept
<1>1. IInv => A
  <2> SUFFICES ASSUME IInv,
                      NEW r \in Requests, NEW a \in Accounts, NEW f \in RandomFlags,
                      Submit(r, a, f), At(r, "evidence")'
               PROVE  /\ <<task'[r].row.owner, f>> \in issued
                      /\ <<a, f>> \notin Kept
    OBVIOUS
  <2>1. f \in AllFlags /\ f # StaticFlag
    BY FlagAssumption DEF AllFlags
  <2>2. Mismatch(r, a, f) /\ task'[r].row \in Reused(a, f)
    BY <2>1, SubmitTask DEF IInv, At
  <2>3. <<task'[r].row.owner, f>> \in issued
    BY <2>1, <2>2 DEF Reused, IInv, FlagInv, Rightful
  <2>4. <<a, f>> \notin Kept
    BY <2>2 DEF Mismatch, Found, Owned, IInv, IssuedFlagKept
  <2> QED
    BY <2>3, <2>4
<1> HIDE DEF A
<1>2. IInv /\ [Next]_vars => [A]_vars
  BY <1>1
<1>3. [][A]_vars => EvidenceIsReuse
  BY DEF A, EvidenceIsReuse
<1> QED
  BY <1>2, <1>3, InvariantHolds, PTL DEF Spec
=============================================================================
