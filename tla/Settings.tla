------------------------------ MODULE Settings ------------------------------
(***************************************************************************)
(* The container_settings_model table and the copy each worker process     *)
(* enforces: seeded and migrated when a worker starts, replaced in the     *)
(* worker that serves an admin's save.  Transactions read a snapshot       *)
(* (REPEATABLE READ), and the ORM writes only the columns that changed     *)
(* against it.                                                             *)
(***************************************************************************)
EXTENDS Migrations, FiniteSets

CONSTANTS
  Keys,      \* the settings
  SafeKeys,  \* SECURE_NONZERO_DEFAULTS
  Choices,   \* what an admin may save: validated, not zero
  Missing,   \* there is no row
  Zero,      \* "", "0" or "0.0", which earlier versions accepted
  Default

ASSUME SettingsAssumption ==
  /\ SafeKeys \subseteq Keys
  /\ Missing \notin Choices
  /\ Zero \notin Choices
  /\ Default \notin {Missing, Zero}
  /\ Missing # Zero

Values == Choices \cup {Missing, Zero, Default}
Table == [Keys -> Values]

VARIABLES
  db,     \* the committed table
  used,   \* the settings each worker enforces
  pc,     \* what each worker's main or admin thread is doing
  snap,   \* the snapshot its transaction reads
  form    \* the payload it saves

settingsVars == <<db, used, pc, snap, form>>

PCs == {"down", "seed", "load", "serve", "save", "reload"}

Goto(w, p) == pc' = [pc EXCEPT ![w] = p]

\* A worker enforces settings once load() has returned.
Serving(w) == pc[w] \in {"serve", "save", "reload"}

Blank == [k \in Keys |-> Missing]

\* settings_to_dict: defaults for what the table does not have.
Merged(t) == [k \in Keys |-> IF t[k] = Missing THEN Default ELSE t[k]]

Use(w, t) == used' = [used EXCEPT ![w] = Merged(t)]

Forget(w) == snap' = [snap EXCEPT ![w] = Blank]

-----------------------------------------------------------------------------
(* load(): seed_default_settings, then ContainerManager(settings).         *)

BeginSeed(w) ==
  /\ pc[w] = "down"
  /\ snap' = [snap EXCEPT ![w] = db]
  /\ Goto(w, "seed")
  /\ UNCHANGED <<db, used, form>>

\* Slip: the sentinels of earlier versions are kept.
InsecureKept(w) == {}

\* What the seeding writes, by the rows it read.
Absent(w) == {k \in Keys : snap[w][k] = Missing}
Insecure(w) == {k \in SafeKeys : snap[w][k] = Zero}

\* Slip: the rows read before the commit are used.
SeedCommitsStale(w) ==
  /\ pc[w] = "seed"
  /\ \A k \in Absent(w) : db[k] = Missing
  /\ db' = [k \in Keys |-> IF k \in Absent(w) \cup Insecure(w)
                           THEN Default ELSE db[k]]
  /\ Goto(w, "serve") /\ Use(w, snap[w])
  /\ Forget(w)
  /\ UNCHANGED form

\* One commit of inserts and updates; without any, the query that follows
\* still reads the old snapshot.
SeedCommits(w) ==
  /\ pc[w] = "seed"
  /\ \A k \in Absent(w) : db[k] = Missing
  /\ db' = [k \in Keys |-> IF k \in Absent(w) \cup Insecure(w)
                           THEN Default ELSE db[k]]
  /\ IF Absent(w) \cup Insecure(w) = {}
     THEN Goto(w, "serve") /\ Use(w, snap[w])
     ELSE Goto(w, "load") /\ UNCHANGED used
  /\ Forget(w)
  /\ UNCHANGED form

\* Another worker inserted the row first: IntegrityError, load() fails.
SeedFails(w) ==
  /\ pc[w] = "seed"
  /\ \E k \in Absent(w) : db[k] # Missing
  /\ Goto(w, "down")
  /\ Forget(w)
  /\ UNCHANGED <<db, used, form>>

LoadSettings(w) ==
  /\ pc[w] = "load"
  /\ Use(w, db)
  /\ Goto(w, "serve")
  /\ UNCHANGED <<db, snap, form>>

-----------------------------------------------------------------------------
(* route_update_settings.                                                  *)

SubmitForm(w, f) ==
  /\ pc[w] = "serve"
  /\ form' = [form EXCEPT ![w] = f]
  /\ snap' = [snap EXCEPT ![w] = db]
  /\ Goto(w, "save")
  /\ UNCHANGED <<db, used>>

\* Slip: a changed row is deleted first, to be inserted again later.
WrittenDropped(w) ==
  [k \in Keys |-> IF form[w][k] # snap[w][k] THEN Missing ELSE db[k]]

\* setting.value = value writes nothing if the snapshot had that value.
Written(w) ==
  [k \in Keys |-> IF form[w][k] # snap[w][k] THEN form[w][k] ELSE db[k]]

Save(w) ==
  /\ pc[w] = "save"
  /\ \A k \in Keys : snap[w][k] = Missing => db[k] = Missing
  /\ db' = Written(w)
  /\ form' = [form EXCEPT ![w] = Blank]
  /\ Forget(w)
  /\ Goto(w, "reload")
  /\ UNCHANGED used

\* container_manager.settings = settings_to_dict(all rows), and the
\* initialize_connection that derives the limits from it.
Reload(w) ==
  /\ pc[w] = "reload"
  /\ Use(w, db)
  /\ Goto(w, "serve")
  /\ UNCHANGED <<db, snap, form>>

\* What a process knows ends with it.
Lose(w) ==
  /\ Goto(w, "down")
  /\ used' = [used EXCEPT ![w] = Blank]
  /\ Forget(w)
  /\ form' = [form EXCEPT ![w] = Blank]
  /\ UNCHANGED db

SettingsInit ==
  /\ db \in [Keys -> {Missing, Zero, Default}]
  /\ used = [w \in Workers |-> Blank]
  /\ pc = [w \in Workers |-> "down"]
  /\ snap = [w \in Workers |-> Blank]
  /\ form = [w \in Workers |-> Blank]
=============================================================================
