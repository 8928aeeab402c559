------------------------------ MODULE Startup ------------------------------
(***************************************************************************)
(* load() of several workers, which start, fail, die and start again while *)
(* others already serve: the schema first, then the settings.              *)
(***************************************************************************)
EXTENDS Settings

vars == <<schemaVars, settingsVars>>

Init == MigrationsInit /\ SettingsInit

UpgradeSchema(w) ==
  /\ Migrate(w)
  /\ UNCHANGED settingsVars

\* seed_default_settings() follows upgrade().
Boot(w) ==
  /\ at[w] = Done
  /\ BeginSeed(w)
  /\ UNCHANGED schemaVars

Seed(w) ==
  /\ SeedCommits(w) \/ LoadSettings(w)
  /\ UNCHANGED schemaVars

\* load() ends by the exception, and the worker with it.
SeedingFails(w) ==
  /\ SeedFails(w)
  /\ EndLoad(w)

Administer(w) ==
  /\ (\E f \in [Keys -> Choices] : SubmitForm(w, f)) \/ Save(w) \/ Reload(w)
  /\ UNCHANGED schemaVars

\* A process may end between any two steps.
Stop(w) ==
  /\ at[w] # 0
  /\ Lose(w)
  /\ EndLoad(w)

Next ==
  \E w \in Workers :
    \/ UpgradeSchema(w) \/ Boot(w) \/ Seed(w) \/ SeedingFails(w)
    \/ Administer(w) \/ Stop(w)

Spec == Init /\ [][Next]_vars

-----------------------------------------------------------------------------
\* The schema, the table and the workers' copies hold known values, and once
\* a worker serves every setting has its row.
TypeOK ==
  /\ schema \subseteq Objects
  /\ duplicates \in BOOLEAN
  /\ version \in 0..3
  /\ at \in [Workers -> 0..Done]
  /\ seen \in [Workers -> SUBSET Objects]
  /\ disturbed \subseteq Workers
  /\ cut \in BOOLEAN
  /\ db \in Table
  /\ used \in [Workers -> Table]
  /\ pc \in [Workers -> PCs]
  /\ snap \in [Workers -> Table]
  /\ form \in [Workers -> Table]
  /\ (\E w \in Workers : Serving(w)) => \A k \in Keys : db[k] # Missing

\* Whatever version the database comes from, and wherever earlier upgrades
\* were interrupted or overtaken: when a worker serves, no key of the cheat
\* log still refuses the deletion of a team, and every table, column, index
\* and unique constraint of the models is there.  The indexes on challenge_id,
\* team_id and user_id alone may be missing, and only where a create_all ended
\* between their table and them, or is still there in another worker: no
\* revision makes them again.
SchemaMatchesModels ==
  (\E w \in Workers : Serving(w)) =>
    /\ Objects \ (ForeignKeys \cup {"key_indexes"}) \subseteq schema
    /\ "fk_restrict" \notin schema
    /\ "key_indexes" \in schema \/ cut \/ \E w \in Workers : Midway(w)

\* An upgrade can always be run again: without another worker's statement in
\* between, only rows that violate the new constraints make one of its own
\* fail.
UpgradeIsRepeatable ==
  \A w \in Workers \ disturbed :
    Statement(w) /\ Runs(w) /\ Clashes(w) =>
      duplicates /\ LoadSteps[at[w]].object = "info_uniques"

\* No worker that serves ever enforces a zero or missing safety limit, from
\* whatever version the table comes and however boots and saves interleave.
LimitsEnforced ==
  \A w \in Workers : Serving(w) =>
    \A k \in SafeKeys : used[w][k] \notin {Zero, Missing}

\* Once one worker serves, the table has no disabled limit left for a worker
\* that starts later, or reloads, to pick up.
TableMigrated ==
  (\E w \in Workers : Serving(w)) => \A k \in SafeKeys : db[k] # Zero
=============================================================================
