----------------------------- MODULE Migrations -----------------------------
(***************************************************************************)
(* The schema a worker brings up to date before it serves: create_all, and *)
(* CTFd's upgrade() running the plugin's revisions.  DDL commits by        *)
(* itself, so an upgrade may be interrupted or overtaken between any two   *)
(* statements.  One object stands for a group that is made, and made again *)
(* after an interruption, alike; it is there when all of its members are.  *)
(***************************************************************************)
EXTENDS Integers, Sequences

CONSTANT Workers

VARIABLES
  schema,      \* the objects in the database
  duplicates,  \* rows of earlier versions that violate the unique constraints
  version,     \* the number of the revision in CTFd's config, 0 if there is none
  at,          \* the next step of load() in each worker, 0 if it is not running
  seen,        \* what its inspections found
  disturbed,   \* workers during whose load() another has run a statement
  cut          \* history: a create_all ended between a table and its indexes

schemaVars == <<schema, duplicates, version, at, seen, disturbed, cut>>

\* Both forms of a foreign key have the same name.
ForeignKeys == {"fk_restrict", "fk_set_null"}

\* info_indexes are those of container_info_model that a revision makes again,
\* key_indexes those on challenge_id, team_id and user_id, which none does.
Objects == {"tables", "capabilities", "hostname", "info_indexes", "key_indexes",
            "info_uniques", "flag_table", "flag_indexes"} \cup ForeignKeys

\* A statement runs unless (or, to relax a key, only if) its object was seen.
Step(do, object, key) == [do |-> do, object |-> object, key |-> key]
Look(o) == Step("look", o, o)
Add(o) == Step("make", o, o)
Record(r) == [do |-> "record", object |-> r, key |-> "none"]

\* db.create_all() looks for every table first; each new one is complete, and
\* its indexes follow it, whether or not they are there.
CreateAll ==
  <<Look("tables"), Look("flag_table"),
    Add("tables"), Step("make", "info_indexes", "tables"),
    Step("make", "key_indexes", "tables"),
    Add("flag_table"), Step("make", "flag_indexes", "flag_table")>>

AddCapabilities == <<Look("capabilities"), Add("capabilities"), Record(1)>>

AddIndexesAndHostname ==
  <<Look("hostname"), Add("hostname"),
    Look("info_indexes"), Look("info_uniques"),
    Add("info_indexes"), Add("info_uniques"),
    Look("flag_indexes"), Add("flag_indexes"), Record(2)>>

RelaxForeignKeys ==
  <<Look("fk_restrict"), Step("drop", "fk_restrict", "fk_restrict"),
    Step("remake", "fk_set_null", "fk_restrict"), Record(3)>>

LoadSteps == CreateAll \o <<Step("start", "version", "none")>>
          \o AddCapabilities \o AddIndexesAndHostname \o RelaxForeignKeys

Done == Len(LoadSteps) + 1
Loading(w) == at[w] \in 1..Len(LoadSteps)
Does(w, do) == Loading(w) /\ LoadSteps[at[w]].do = do

Advance(w, i) == at' = [at EXCEPT ![w] = i]

\* What a statement leaves in the schema.
Made(o) == IF o = "tables"
           THEN {"tables", "capabilities", "hostname", "info_uniques", "fk_set_null"}
           ELSE {o}

-----------------------------------------------------------------------------
BeginLoad(w) ==
  /\ at[w] = 0
  /\ Advance(w, 1)
  /\ disturbed' = disturbed \ {w}
  /\ UNCHANGED <<schema, duplicates, version, seen, cut>>

Inspect(w) ==
  /\ Does(w, "look")
  /\ seen' = [seen EXCEPT ![w] = @ \cup (schema \cap {LoadSteps[at[w]].key})]
  /\ Advance(w, at[w] + 1)
  /\ UNCHANGED <<schema, duplicates, version, disturbed, cut>>

\* Slip: revisions add without looking.
RunsAlways(w) == TRUE

Runs(w) ==
  IF Does(w, "make") THEN LoadSteps[at[w]].key \notin seen[w]
                     ELSE LoadSteps[at[w]].key \in seen[w]

Statement(w) == \E do \in {"make", "drop", "remake"} : Does(w, do)

\* Errors: the object is there already, or is not, or the rows do not fit.
Clashes(w) ==
  LET o == LoadSteps[at[w]].object IN
  CASE Does(w, "drop")   -> ForeignKeys \cap schema = {}
    [] Does(w, "remake") -> ForeignKeys \cap schema # {}
    [] OTHER             -> o \in schema \/ (o = "info_uniques" /\ duplicates)

SkipStatement(w) ==
  /\ Statement(w)
  /\ ~Runs(w)
  /\ Advance(w, at[w] + 1)
  /\ UNCHANGED <<schema, duplicates, version, seen, disturbed, cut>>

RunStatement(w) ==
  /\ Statement(w)
  /\ Runs(w)
  /\ ~Clashes(w)
  /\ schema' = LET o == LoadSteps[at[w]].object IN
               IF Does(w, "drop") THEN schema \ ForeignKeys ELSE schema \cup Made(o)
  /\ Advance(w, at[w] + 1)
  /\ disturbed' = disturbed \cup {v \in Workers \ {w} : Loading(v)}
  /\ UNCHANGED <<duplicates, version, seen, cut>>

\* Slip: an error is taken for "exists already".
StatementFailsIgnored(w) ==
  /\ Statement(w)
  /\ Runs(w)
  /\ Clashes(w)
  /\ Advance(w, at[w] + 1)
  /\ UNCHANGED <<schema, duplicates, version, seen, disturbed, cut>>

\* Has made container_info_model, and not yet the last of its indexes.
Midway(w) ==
  /\ Does(w, "make")
  /\ LoadSteps[at[w]].key = "tables" /\ LoadSteps[at[w]].object # "tables"
  /\ Runs(w)

\* The worker that runs load() ends.
EndLoad(w) ==
  /\ Advance(w, 0)
  /\ seen' = [seen EXCEPT ![w] = {}]
  /\ cut' = (cut \/ Midway(w))
  /\ UNCHANGED <<schema, duplicates, version, disturbed>>

\* load() ends by the exception, and the worker with it.
StatementFails(w) ==
  /\ Statement(w)
  /\ Runs(w)
  /\ Clashes(w)
  /\ EndLoad(w)

-----------------------------------------------------------------------------
(* CTFd.plugins.migrations.upgrade: the revisions after the recorded one.  *)

FirstStep(v) ==
  Len(CreateAll) + 2
    + (IF v > 0 THEN Len(AddCapabilities) ELSE 0)
    + (IF v > 1 THEN Len(AddIndexesAndHostname) ELSE 0)
    + (IF v > 2 THEN Len(RelaxForeignKeys) ELSE 0)

StartUpgrade(w) ==
  /\ Does(w, "start")
  /\ Advance(w, FirstStep(version))
  /\ seen' = [seen EXCEPT ![w] = {}]
  /\ UNCHANGED <<schema, duplicates, version, disturbed, cut>>

\* A worker that was overtaken records the older revision again.
RecordRevision(w) ==
  /\ Does(w, "record")
  /\ version' = LoadSteps[at[w]].object
  /\ Advance(w, at[w] + 1)
  /\ seen' = [seen EXCEPT ![w] = {}]
  /\ UNCHANGED <<schema, duplicates, disturbed, cut>>

Migrate(w) ==
  \/ BeginLoad(w) \/ Inspect(w) \/ SkipStatement(w) \/ RunStatement(w)
  \/ StatementFails(w) \/ StartUpgrade(w) \/ RecordRevision(w)

-----------------------------------------------------------------------------
\* A fresh database, one of an earlier version, or one whose tables are
\* current although no revision was ever recorded.  Its create_all may have
\* been cut short.
MigrationsInit ==
  /\ \/ version = 0 /\ schema = {}
     \/ \E keys \in {{}, {"key_indexes"}} :
          LET old == {"tables", "flag_table", "fk_restrict"} \cup keys
              current == (Objects \ (ForeignKeys \cup {"key_indexes"})) \cup keys
          IN \/ version = 0 /\ schema = old
             \/ version = 1 /\ schema = old \cup {"capabilities"}
             \/ version = 2 /\ schema = current \cup {"fk_restrict"}
             \/ version \in {0, 3} /\ schema = current \cup {"fk_set_null"}
  /\ cut = (schema # {} /\ "key_indexes" \notin schema)
  /\ duplicates \in IF "tables" \in schema /\ "info_uniques" \notin schema
                    THEN BOOLEAN ELSE {FALSE}
  /\ at = [w \in Workers |-> 0]
  /\ seen = [w \in Workers |-> {}]
  /\ disturbed = {}
=============================================================================
