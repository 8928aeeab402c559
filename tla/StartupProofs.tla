--------------------------- MODULE StartupProofs ---------------------------
(***************************************************************************)
(* Theorems about the settings and the schema of workers that start, serve *)
(* and stop, for any workers, settings and choices.                        *)
(***************************************************************************)
EXTENDS Startup, TLAPS

SettingsType ==
  /\ db \in Table
  /\ used \in [Workers -> Table]
  /\ pc \in [Workers -> PCs]
  /\ snap \in [Workers -> Table]
  /\ form \in [Workers -> Table]

\* A value that enforces a limit.
Enforcing == Values \ {Missing, Zero}

\* No setting is missing, and no limit is disabled.
Complete(t) ==
  /\ \A k \in Keys : t[k] # Missing
  /\ \A k \in SafeKeys : t[k] \in Enforcing

\* Rows are never deleted and limits never disabled again: what a snapshot had
\* of either, the table still has.
SnapshotKept(w) ==
  /\ \A k \in Keys : snap[w][k] # Missing => db[k] # Missing
  /\ \A k \in SafeKeys : snap[w][k] \in Enforcing => db[k] \in Enforcing

WorkerOK(w) ==
  /\ pc[w] \in {"seed", "save"} => SnapshotKept(w)
  /\ pc[w] = "save" => form[w] \in [Keys -> Choices]
  /\ pc[w] = "load" \/ Serving(w) => Complete(db)
  /\ Serving(w) => \A k \in SafeKeys : used[w][k] \in Enforcing

SettingsInv == SettingsType /\ \A w \in Workers : WorkerOK(w)

-----------------------------------------------------------------------------
LEMMA ValueFacts ==
  /\ Choices \subseteq Enforcing
  /\ Default \in Enforcing
  /\ Missing \in Values
  /\ SafeKeys \subseteq Keys
  BY SettingsAssumption DEF Values, Enforcing

LEMMA BlankType == Blank \in Table
  BY ValueFacts DEF Blank, Table

LEMMA MergedType ==
  ASSUME NEW t \in Table
  PROVE  Merged(t) \in Table
  BY ValueFacts DEF Merged, Table, Enforcing

\* Defaults fill what is missing, so only a disabled limit would show.
LEMMA MergedEnforces ==
  ASSUME NEW t \in Table, \A k \in SafeKeys : t[k] # Zero
  PROVE  \A k \in SafeKeys : Merged(t)[k] \in Enforcing
  BY ValueFacts DEF Merged, Table, Enforcing

\* A step that keeps or completes rows, and leaves the other workers alone,
\* leaves them right.
LEMMA OthersKept ==
  ASSUME SettingsInv, NEW w \in Workers, SettingsType',
         \A k \in Keys : db[k] # Missing => db'[k] # Missing,
         \A k \in SafeKeys : db[k] \in Enforcing => db'[k] \in Enforcing,
         \A v \in Workers \ {w} : /\ used'[v] = used[v] /\ pc'[v] = pc[v]
                                  /\ snap'[v] = snap[v] /\ form'[v] = form[v],
         WorkerOK(w)'
  PROVE  SettingsInv'
<1>. SUFFICES ASSUME NEW v \in Workers \ {w} PROVE WorkerOK(v)'
  BY DEF SettingsInv
<1>1. SnapshotKept(v) => SnapshotKept(v)'
  BY ValueFacts DEF SnapshotKept, SettingsInv, SettingsType
<1>2. Complete(db) => Complete(db)'
  BY ValueFacts DEF Complete
<1>. QED
  BY <1>1, <1>2 DEF SettingsInv, WorkerOK, Serving

LEMMA SettingsInitial == Init => SettingsInv
<1>. SUFFICES ASSUME Init PROVE SettingsInv
  OBVIOUS
<1>1. SettingsType
  BY BlankType, ValueFacts
     DEF Init, SettingsInit, SettingsType, Table, Values, Enforcing, PCs
<1>2. \A w \in Workers : WorkerOK(w)
  BY DEF Init, SettingsInit, WorkerOK, Serving
<1>. QED
  BY <1>1, <1>2 DEF SettingsInv

-----------------------------------------------------------------------------
(* One lemma for each step of a worker.                                    *)

LEMMA BeginSeedKeeps ==
  ASSUME SettingsInv, NEW w \in Workers, BeginSeed(w)
  PROVE  SettingsInv'
<1>1. SettingsType'
  BY DEF BeginSeed, Goto, SettingsInv, SettingsType, PCs
<1>2. WorkerOK(w)'
  BY DEF BeginSeed, Goto, SettingsInv, SettingsType, WorkerOK, Serving, SnapshotKept
<1>. QED
  BY <1>1, <1>2, OthersKept DEF BeginSeed, Goto, SettingsInv, SettingsType

LEMMA SeedCommitsKeeps ==
  ASSUME SettingsInv, NEW w \in Workers, SeedCommits(w)
  PROVE  SettingsInv'
<1>1. db' \in Table /\ used' \in [Workers -> Table]
  <2>1. db' \in Table
    BY ValueFacts DEF SeedCommits, SettingsInv, SettingsType, Table, Enforcing
  <2>2. Merged(snap[w]) \in Table
    BY MergedType DEF SettingsInv, SettingsType
  <2>3. used' = used \/ used' = [used EXCEPT ![w] = Merged(snap[w])]
    BY DEF SeedCommits, Use
  <2>. QED
    BY <2>1, <2>2, <2>3 DEF SettingsInv, SettingsType
<1>2. SettingsType'
  BY <1>1, BlankType DEF SeedCommits, Goto, Forget, SettingsInv, SettingsType, PCs
<1>3. /\ \A k \in Keys : db[k] # Missing => db'[k] # Missing
      /\ \A k \in SafeKeys : db[k] \in Enforcing => db'[k] \in Enforcing
  BY ValueFacts DEF SeedCommits, Enforcing
<1>4. SnapshotKept(w)
  BY DEF SeedCommits, SettingsInv, WorkerOK
<1>5. Complete(db)'
  <2>1. ASSUME NEW k \in Keys PROVE db'[k] # Missing
    BY <1>4, ValueFacts DEF SeedCommits, SnapshotKept, Absent, Enforcing
  <2>2. ASSUME NEW k \in SafeKeys PROVE db'[k] \in Enforcing
    <3>1. CASE k \in Absent(w) \cup Insecure(w)
      BY <3>1, ValueFacts DEF SeedCommits
    <3>2. CASE k \notin Absent(w) \cup Insecure(w)
      <4>1. snap[w][k] \in Enforcing
        BY <3>2, ValueFacts DEF Absent, Insecure, Enforcing, SettingsInv, SettingsType, Table
      <4>. QED
        BY <1>4, <3>2, <4>1, ValueFacts DEF SeedCommits, SnapshotKept
    <3>. QED
      BY <3>1, <3>2
  <2>. QED
    BY <2>1, <2>2 DEF Complete
<1>6. WorkerOK(w)'
  <2>1. CASE Absent(w) \cup Insecure(w) = {}
    <3>1. \A k \in SafeKeys : snap[w][k] # Zero
      BY <2>1 DEF Insecure
    <3>2. \A k \in SafeKeys : used'[w][k] \in Enforcing
      BY <2>1, <3>1, MergedEnforces DEF SeedCommits, Use, SettingsInv, SettingsType
    <3>3. pc'[w] = "serve"
      BY <2>1 DEF SeedCommits, Goto, SettingsInv, SettingsType
    <3>. QED
      BY <1>5, <3>2, <3>3 DEF WorkerOK, Serving
  <2>2. CASE Absent(w) \cup Insecure(w) # {}
    <3>1. pc'[w] = "load"
      BY <2>2 DEF SeedCommits, Goto, SettingsInv, SettingsType
    <3>. QED
      BY <1>5, <3>1 DEF WorkerOK, Serving
  <2>. QED
    BY <2>1, <2>2
<1>7. \A v \in Workers \ {w} : /\ used'[v] = used[v] /\ pc'[v] = pc[v]
                               /\ snap'[v] = snap[v] /\ form'[v] = form[v]
  BY DEF SeedCommits, Goto, Use, Forget, SettingsInv, SettingsType
<1>. QED
  BY <1>2, <1>3, <1>6, <1>7, OthersKept

\* load() and a save's reload end alike.
LEMMA ReadKeeps ==
  ASSUME SettingsInv, NEW w \in Workers, pc[w] \in {"load", "reload"},
         Use(w, db), Goto(w, "serve"), UNCHANGED <<db, snap, form>>
  PROVE  SettingsInv'
<1>1. SettingsType'
  BY MergedType DEF Use, Goto, SettingsInv, SettingsType, PCs
<1>2. Complete(db)
  BY DEF SettingsInv, WorkerOK, Serving
<1>3. \A k \in SafeKeys : used'[w][k] \in Enforcing
  BY <1>2, MergedEnforces DEF Use, Complete, Enforcing, SettingsInv, SettingsType
<1>4. WorkerOK(w)'
  BY <1>2, <1>3 DEF Goto, SettingsInv, SettingsType, WorkerOK, Serving, Complete
<1>. QED
  BY <1>1, <1>4, OthersKept DEF Use, Goto, SettingsInv, SettingsType

LEMMA SubmitKeeps ==
  ASSUME SettingsInv, NEW w \in Workers, NEW f \in [Keys -> Choices], SubmitForm(w, f)
  PROVE  SettingsInv'
<1>1. f \in Table
  BY DEF Table, Values
<1>2. SettingsType'
  BY <1>1 DEF SubmitForm, Goto, SettingsInv, SettingsType, PCs
<1>3. WorkerOK(w)'
  BY DEF SubmitForm, Goto, SettingsInv, SettingsType, WorkerOK, Serving, SnapshotKept,
     Complete
<1>. QED
  BY <1>2, <1>3, OthersKept DEF SubmitForm, Goto, SettingsInv, SettingsType

LEMMA SaveKeeps ==
  ASSUME SettingsInv, NEW w \in Workers, Save(w)
  PROVE  SettingsInv'
<1>1. form[w] \in [Keys -> Choices] /\ Complete(db)
  BY DEF Save, SettingsInv, WorkerOK, Serving
<1>2. db' \in Table /\ Complete(db)'
  BY <1>1, ValueFacts DEF Save, Written, Complete, SettingsInv, SettingsType, Table, Enforcing
<1>3. SettingsType'
  BY <1>2, BlankType DEF Save, Goto, Forget, SettingsInv, SettingsType, PCs
<1>4. WorkerOK(w)'
  BY <1>2 DEF Save, Goto, SettingsInv, SettingsType, WorkerOK, Serving
<1>. QED
  BY <1>2, <1>3, <1>4, OthersKept DEF Save, Goto, Forget, SettingsInv, SettingsType, Complete

\* A worker that ends, whether its seeding failed or not.
LEMMA LeavingKeeps ==
  ASSUME SettingsInv, NEW w \in Workers, Goto(w, "down"), Forget(w), UNCHANGED db,
         used' = used \/ used' = [used EXCEPT ![w] = Blank],
         form' = form \/ form' = [form EXCEPT ![w] = Blank]
  PROVE  SettingsInv'
<1>1. SettingsType'
  BY BlankType DEF Goto, Forget, SettingsInv, SettingsType, PCs
<1>2. WorkerOK(w)'
  BY DEF Goto, SettingsInv, SettingsType, WorkerOK, Serving
<1>. QED
  BY <1>1, <1>2, OthersKept DEF Goto, Forget, SettingsInv, SettingsType

LEMMA SettingsNext == SettingsInv /\ [Next]_vars => SettingsInv'
<1>. SUFFICES ASSUME SettingsInv, [Next]_vars PROVE SettingsInv'
  OBVIOUS
<1>1. CASE UNCHANGED settingsVars
  BY <1>1 DEF settingsVars, SettingsInv, SettingsType, WorkerOK, Serving, SnapshotKept,
     Complete
<1>2. ASSUME NEW w \in Workers, UpgradeSchema(w)
      PROVE  SettingsInv'
  BY <1>1, <1>2 DEF UpgradeSchema
<1>3. ASSUME NEW w \in Workers, Boot(w)
      PROVE  SettingsInv'
  BY <1>3, BeginSeedKeeps DEF Boot
<1>4. ASSUME NEW w \in Workers, Seed(w)
      PROVE  SettingsInv'
  BY <1>4, SeedCommitsKeeps, ReadKeeps DEF Seed, LoadSettings
<1>5. ASSUME NEW w \in Workers, SeedingFails(w)
      PROVE  SettingsInv'
  BY <1>5, LeavingKeeps DEF SeedingFails, SeedFails
<1>6. ASSUME NEW w \in Workers, Administer(w)
      PROVE  SettingsInv'
  BY <1>6, SubmitKeeps, SaveKeeps, ReadKeeps DEF Administer, Reload
<1>7. ASSUME NEW w \in Workers, Stop(w)
      PROVE  SettingsInv'
  BY <1>7, LeavingKeeps DEF Stop, Lose
<1>. QED
  BY <1>1, <1>2, <1>3, <1>4, <1>5, <1>6, <1>7 DEF Next, vars

LEMMA SettingsInvariant == Spec => []SettingsInv
<1>. QED
  BY SettingsInitial, SettingsNext, PTL DEF Spec

\* No worker that serves ever runs with a disabled or missing safety limit,
\* however many start, save and stop in whatever order.
THEOREM LimitsAreEnforced == Spec => []LimitsEnforced
<1>1. SettingsInv => LimitsEnforced
  BY DEF SettingsInv, WorkerOK, LimitsEnforced, Enforcing
<1>. QED
  BY <1>1, SettingsInvariant, PTL

\* Once any worker serves, no disabled limit is left in the table.
THEOREM TableIsMigrated == Spec => []TableMigrated
<1>1. SettingsInv => TableMigrated
  BY DEF SettingsInv, WorkerOK, TableMigrated, Complete, Enforcing
<1>. QED
  BY <1>1, SettingsInvariant, PTL

(***************************************************************************)
(* The schema.                                                             *)
(***************************************************************************)
SchemaType ==
  /\ schema \subseteq Objects
  /\ duplicates \in BOOLEAN
  /\ version \in 0..3
  /\ at \in [Workers -> 0..Done]
  /\ seen \in [Workers -> SUBSET Objects]
  /\ disturbed \subseteq Workers
  /\ cut \in BOOLEAN

\* What the revisions leave behind, whatever they find, foreign keys apart.
Declared == Objects \ (ForeignKeys \cup {"key_indexes"})

\* Tables come first, and the revision on record has done its work, whoever
\* recorded it last.
DatabaseInv ==
  /\ schema # {} => "tables" \in schema
  /\ "flag_indexes" \in schema => "flag_table" \in schema
  /\ version > 0 => "capabilities" \in schema
  /\ version > 1 => Declared \subseteq schema
  /\ version > 2 => "fk_restrict" \notin schema

\* Whoever makes container_info_model goes on to its indexes, or is cut short.
KeysInv ==
  "tables" \in schema =>
    "key_indexes" \in schema \/ cut \/ \E w \in Workers : Midway(w)

\* What load() has established by its at[w]-th step.
Reached(w) ==
  /\ at[w] > 3 => "tables" \in schema
  /\ at[w] > 6 => "flag_table" \in schema
  /\ at[w] > 10 => "capabilities" \in schema
  /\ at[w] > 13 => "hostname" \in schema
  /\ at[w] > 16 => "info_indexes" \in schema
  /\ at[w] > 17 => "info_uniques" \in schema
  /\ at[w] > 19 => "flag_indexes" \in schema
  /\ at[w] > 22 => "fk_restrict" \notin schema
  /\ at[w] = 22 /\ "fk_restrict" \notin seen[w] => "fk_restrict" \notin schema
  /\ seen[w] \ ForeignKeys \subseteq schema
  /\ "fk_restrict" \in seen[w] => at[w] \in 22..24
  /\ pc[w] # "down" => at[w] = Done

\* What w has seen, or not seen, is still so at the statement it decides.
Fresh(w) ==
  /\ at[w] \in 2..3 /\ "tables" \in schema => "tables" \in seen[w]
  /\ at[w] \in 3..6 /\ "flag_table" \in schema => "flag_table" \in seen[w]
  /\ at[w] = 4 /\ "tables" \notin seen[w] => "info_indexes" \notin schema
  /\ at[w] \in 4..5 /\ "tables" \notin seen[w] => "key_indexes" \notin schema
  /\ at[w] = 7 /\ "flag_table" \notin seen[w] => "flag_indexes" \notin schema
  /\ at[w] = 10 /\ "capabilities" \in schema => "capabilities" \in seen[w]
  /\ at[w] = 13 /\ "hostname" \in schema => "hostname" \in seen[w]
  /\ at[w] \in 15..16 /\ "info_indexes" \in schema => "info_indexes" \in seen[w]
  /\ at[w] \in 16..17 /\ "info_uniques" \in schema => "info_uniques" \in seen[w]
  /\ at[w] = 19 /\ "flag_indexes" \in schema => "flag_indexes" \in seen[w]
  /\ at[w] = 22 /\ "fk_restrict" \in seen[w] => "fk_restrict" \in schema
  /\ at[w] = 23 /\ "fk_restrict" \in seen[w] => ForeignKeys \cap schema = {}

SchemaInv ==
  /\ SchemaType
  /\ DatabaseInv
  /\ KeysInv
  /\ \A w \in Workers : Reached(w) /\ (w \notin disturbed => Fresh(w))

-----------------------------------------------------------------------------
\* The statements of load(), one by one.
LEMMA StepFacts ==
  /\ Len(LoadSteps) = 24 /\ Done = 25
  /\ LoadSteps[1] = Look("tables") /\ LoadSteps[2] = Look("flag_table")
  /\ LoadSteps[3] = Add("tables")
  /\ LoadSteps[4] = Step("make", "info_indexes", "tables")
  /\ LoadSteps[5] = Step("make", "key_indexes", "tables")
  /\ LoadSteps[6] = Add("flag_table")
  /\ LoadSteps[7] = Step("make", "flag_indexes", "flag_table")
  /\ LoadSteps[8] = Step("start", "version", "none")
  /\ LoadSteps[9] = Look("capabilities") /\ LoadSteps[10] = Add("capabilities")
  /\ LoadSteps[11] = Record(1)
  /\ LoadSteps[12] = Look("hostname") /\ LoadSteps[13] = Add("hostname")
  /\ LoadSteps[14] = Look("info_indexes") /\ LoadSteps[15] = Look("info_uniques")
  /\ LoadSteps[16] = Add("info_indexes") /\ LoadSteps[17] = Add("info_uniques")
  /\ LoadSteps[18] = Look("flag_indexes") /\ LoadSteps[19] = Add("flag_indexes")
  /\ LoadSteps[20] = Record(2)
  /\ LoadSteps[21] = Look("fk_restrict")
  /\ LoadSteps[22] = Step("drop", "fk_restrict", "fk_restrict")
  /\ LoadSteps[23] = Step("remake", "fk_set_null", "fk_restrict")
  /\ LoadSteps[24] = Record(3)
BY DEF LoadSteps, CreateAll, AddCapabilities, AddIndexesAndHostname, RelaxForeignKeys,
   Done

LEMMA FirstSteps ==
  /\ FirstStep(0) = 9 /\ FirstStep(1) = 12 /\ FirstStep(2) = 21 /\ FirstStep(3) = 25
BY DEF FirstStep, CreateAll, AddCapabilities, AddIndexesAndHostname, RelaxForeignKeys

\* An object, and the step at which it is looked for, made or left alone.
MakeSteps ==
  {<<3, "tables", "tables">>, <<4, "info_indexes", "tables">>,
   <<5, "key_indexes", "tables">>, <<6, "flag_table", "flag_table">>,
   <<7, "flag_indexes", "flag_table">>, <<10, "capabilities", "capabilities">>,
   <<13, "hostname", "hostname">>, <<16, "info_indexes", "info_indexes">>,
   <<17, "info_uniques", "info_uniques">>, <<19, "flag_indexes", "flag_indexes">>}

LookSteps ==
  {<<1, "tables">>, <<2, "flag_table">>, <<9, "capabilities">>, <<12, "hostname">>,
   <<14, "info_indexes">>, <<15, "info_uniques">>, <<18, "flag_indexes">>,
   <<21, "fk_restrict">>}

LEMMA WhichStep ==
  ASSUME SchemaType, NEW w \in Workers, Loading(w)
  PROVE  LET s == LoadSteps[at[w]] IN
         /\ at[w] \in 1..24
         /\ s.do = "look" => <<at[w], s.key>> \in LookSteps
         /\ s.do = "make" => <<at[w], s.object, s.key>> \in MakeSteps
         /\ s.do = "start" => at[w] = 8
         /\ s.do = "drop" => at[w] = 22 /\ s.key = "fk_restrict"
         /\ s.do = "remake" => at[w] = 23 /\ s.key = "fk_restrict" /\ s.object = "fk_set_null"
         /\ s.do = "record" => <<at[w], s.object>> \in {<<11, 1>>, <<20, 2>>, <<24, 3>>}
<1>1. at[w] \in 1..24
  BY StepFacts DEF Loading
<1>2. PICK i \in 1..24 : i = at[w]
  BY <1>1
<1>3. \/ i \in {1, 2, 9, 12, 14, 15, 18, 21}
      \/ i \in {3, 4, 5, 6, 7, 10, 13, 16, 17, 19}
      \/ i \in {8, 11, 20, 22, 23, 24}
  OBVIOUS
<1>4. CASE i \in {1, 2, 9, 12, 14, 15, 18, 21}
  BY <1>1, <1>2, <1>4, StepFacts DEF Step, Look, LookSteps
<1>5. CASE i \in {3, 4, 5, 6, 7, 10, 13, 16, 17, 19}
  BY <1>1, <1>2, <1>5, StepFacts DEF Step, Add, MakeSteps
<1>6. CASE i \in {8, 11, 20, 22, 23, 24}
  BY <1>1, <1>2, <1>6, StepFacts DEF Step, Record
<1> QED
  BY <1>3, <1>4, <1>5, <1>6

LEMMA WorkerFacts ==
  ASSUME SchemaType, NEW w \in Workers
  PROVE  /\ at[w] \in 0..25 /\ seen[w] \subseteq Objects
         /\ Loading(w) <=> at[w] \in 1..24
BY StepFacts DEF SchemaType, Loading

LEMMA AdvanceStep ==
  ASSUME SchemaType, NEW w \in Workers, NEW i \in 0..25, Advance(w, i)
  PROVE  /\ at' \in [Workers -> 0..Done] /\ at'[w] = i
         /\ \A v \in Workers \ {w} : at'[v] = at[v]
BY StepFacts DEF SchemaType, Advance

LEMMA MidwayFacts ==
  ASSUME NEW w \in Workers
  PROVE  /\ Midway(w) <=> at[w] \in 4..5 /\ "tables" \notin seen[w]
         /\ Midway(w)' <=> at'[w] \in 4..5 /\ "tables" \notin seen'[w]
<1>1. ASSUME NEW i \in 1..24
      PROVE  LET s == LoadSteps[i] IN
             s.do = "make" /\ s.key = "tables" /\ s.object # "tables" <=> i \in 4..5
  <2>1. CASE i \in {1, 2, 9, 12, 14, 15, 18, 21}
    BY <2>1, StepFacts DEF Step, Look
  <2>2. CASE i \in {3, 4, 5, 6, 7, 10, 13, 16, 17, 19}
    BY <2>2, StepFacts DEF Step, Add
  <2>3. CASE i \in {8, 11, 20, 22, 23, 24}
    BY <2>3, StepFacts DEF Step, Record
  <2> QED
    BY <2>1, <2>2, <2>3
<1>2. Midway(w) <=> at[w] \in 4..5 /\ "tables" \notin seen[w]
  BY <1>1, StepFacts DEF Midway, Does, Loading, Runs
<1>3. Midway(w)' <=> at'[w] \in 4..5 /\ "tables" \notin seen'[w]
  BY <1>1, StepFacts DEF Midway, Does, Loading, Runs
<1> QED
  BY <1>2, <1>3

\* Where w makes no table and does not leave its indexes behind.
LEMMA KeysKept ==
  ASSUME KeysInv, NEW w \in Workers,
         \A v \in Workers \ {w} : at'[v] = at[v] /\ seen'[v] = seen[v],
         "tables" \in schema' => "tables" \in schema,
         "key_indexes" \in schema => "key_indexes" \in schema',
         cut => cut',
         Midway(w) => Midway(w)' \/ cut' \/ "key_indexes" \in schema'
  PROVE  KeysInv'
<1>1. \A v \in Workers \ {w} : Midway(v) => Midway(v)'
  BY MidwayFacts
<1> QED
  BY <1>1 DEF KeysInv

\* Nothing goes but foreign keys, and no restricting key comes.
Upward ==
  /\ schema \ ForeignKeys \subseteq schema'
  /\ "fk_restrict" \in schema' => "fk_restrict" \in schema

\* A step of w, which no other worker takes notice of unless it changes the
\* schema, and then each one that is loading is disturbed.
LEMMA OnlyOwn ==
  ASSUME SchemaInv, NEW w \in Workers, Upward,
         SchemaType', DatabaseInv', KeysInv', Reached(w)', w \notin disturbed' => Fresh(w)',
         \A v \in Workers \ {w} :
           /\ at'[v] = at[v] /\ seen'[v] = seen[v] /\ pc'[v] = pc[v]
           /\ v \notin disturbed' => v \notin disturbed
           /\ schema' = schema \/ ~Loading(v) \/ v \in disturbed'
  PROVE  SchemaInv'
<1> SUFFICES ASSUME NEW v \in Workers \ {w}
             PROVE  Reached(v)' /\ (v \notin disturbed' => Fresh(v)')
  BY DEF SchemaInv
<1>1. /\ at'[v] = at[v] /\ seen'[v] = seen[v] /\ pc'[v] = pc[v]
      /\ Reached(v) /\ at[v] \in 0..25 /\ seen[v] \subseteq Objects
      /\ Loading(v) <=> at[v] \in 1..24
  BY WorkerFacts DEF SchemaInv
<1>2. {"tables", "capabilities", "hostname", "info_indexes", "info_uniques",
        "flag_table", "flag_indexes"} \cap ForeignKeys = {}
  BY DEF ForeignKeys
<1>3. Reached(v)'
  BY <1>1, <1>2 DEF Reached, Upward
<1>4. ASSUME v \notin disturbed' PROVE Fresh(v)'
  <2>1. CASE schema' = schema
    BY <1>1, <1>4, <2>1 DEF SchemaInv, Fresh
  <2>2. CASE ~Loading(v)
    BY <1>1, <2>2 DEF Fresh
  <2> QED
    BY <1>4, <2>1, <2>2
<1> QED
  BY <1>3, <1>4

LEMMA BeginLoadKeeps ==
  ASSUME SchemaInv, NEW w \in Workers, BeginLoad(w), UNCHANGED settingsVars
  PROVE  SchemaInv'
<1>1. /\ at' \in [Workers -> 0..Done] /\ at[w] = 0 /\ at'[w] = 1
      /\ \A v \in Workers \ {w} : at'[v] = at[v]
      /\ disturbed' = disturbed \ {w}
      /\ UNCHANGED <<schema, duplicates, version, seen, cut, pc>>
  BY AdvanceStep DEF BeginLoad, SchemaInv, settingsVars
<1>2. SchemaType' /\ DatabaseInv' /\ Upward
  BY <1>1 DEF SchemaInv, SchemaType, DatabaseInv, Upward
<1>3. Reached(w)'
  BY <1>1, StepFacts DEF SchemaInv, Reached
<1>4. Fresh(w)'
  BY <1>1 DEF Fresh
<1>5. KeysInv'
  BY <1>1, KeysKept, MidwayFacts DEF SchemaInv
<1> QED
  BY <1>1, <1>2, <1>3, <1>4, <1>5, OnlyOwn

LEMMA InspectKeeps ==
  ASSUME SchemaInv, NEW w \in Workers, Inspect(w), UNCHANGED settingsVars
  PROVE  SchemaInv'
<1>1. PICK i \in 1..24 : i = at[w]
  BY WorkerFacts DEF SchemaInv, Inspect, Does
<1>2. PICK o \in Objects : o = LoadSteps[at[w]].key /\ <<i, o>> \in LookSteps
  <2>1. <<at[w], LoadSteps[at[w]].key>> \in LookSteps
    BY WhichStep DEF SchemaInv, Inspect, Does
  <2> QED
    BY <1>1, <2>1 DEF LookSteps, Objects, ForeignKeys
<1>3. /\ at' \in [Workers -> 0..Done] /\ at'[w] = i + 1
      /\ \A v \in Workers \ {w} : at'[v] = at[v]
  BY <1>1, AdvanceStep DEF Inspect, SchemaInv
<1>4. /\ seen' = [seen EXCEPT ![w] = @ \cup (schema \cap {o})]
      /\ UNCHANGED <<schema, duplicates, version, disturbed, cut, pc>>
  BY <1>2 DEF Inspect, settingsVars
<1>5. /\ seen' \in [Workers -> SUBSET Objects]
      /\ seen'[w] = seen[w] \cup (schema \cap {o})
      /\ \A v \in Workers \ {w} : seen'[v] = seen[v]
  BY <1>4 DEF SchemaInv, SchemaType
<1>6. SchemaType' /\ DatabaseInv' /\ Upward
  BY <1>3, <1>4, <1>5 DEF SchemaInv, SchemaType, DatabaseInv, Upward
<1>7. Reached(w)'
  BY <1>1, <1>2, <1>3, <1>4, <1>5, StepFacts DEF SchemaInv, Reached, LookSteps
<1>8. w \notin disturbed' => Fresh(w)'
  BY <1>1, <1>2, <1>3, <1>4, <1>5 DEF SchemaInv, Reached, Fresh, DatabaseInv, LookSteps
<1>9. KeysInv'
  <2>1. ~Midway(w)
    BY <1>1, <1>2, MidwayFacts DEF LookSteps
  <2> QED
    BY <1>3, <1>4, <1>5, <2>1, KeysKept DEF SchemaInv
<1> QED
  BY <1>3, <1>4, <1>5, <1>6, <1>7, <1>8, <1>9, OnlyOwn

\* The statement that w runs or leaves out as its i-th step: it makes o, or
\* drops or makes a key, by what it saw of k.
Decides(w, i, o, k) ==
  /\ i = at[w] /\ o = LoadSteps[i].object /\ k = LoadSteps[i].key
  /\ \/ /\ <<i, o, k>> \in MakeSteps
        /\ Does(w, "make") /\ ~Does(w, "drop") /\ ~Does(w, "remake")
     \/ /\ i = 22 /\ k = "fk_restrict"
        /\ Does(w, "drop") /\ ~Does(w, "make") /\ ~Does(w, "remake")
     \/ /\ i = 23 /\ k = "fk_restrict" /\ o = "fk_set_null"
        /\ Does(w, "remake") /\ ~Does(w, "make") /\ ~Does(w, "drop")

LEMMA StatementStep ==
  ASSUME SchemaInv, NEW w \in Workers, Statement(w)
  PROVE  \E i \in 1..24, o \in Objects, k \in Objects : Decides(w, i, o, k)
<1>1. PICK do \in {"make", "drop", "remake"} : Does(w, do)
  BY DEF Statement
<1>2. SchemaType /\ Loading(w) /\ LoadSteps[at[w]].do = do
  BY <1>1 DEF SchemaInv, Does
<1>3. /\ do # "make" => ~Does(w, "make")
      /\ do # "drop" => ~Does(w, "drop")
      /\ do # "remake" => ~Does(w, "remake")
  BY <1>2 DEF Does
<1> DEFINE i == at[w]
           o == LoadSteps[i].object
           k == LoadSteps[i].key
<1>4. i \in 1..24
  BY <1>2, WhichStep
<1>5. CASE do = "make"
  <2>1. <<i, o, k>> \in MakeSteps
    BY <1>2, <1>5, WhichStep
  <2>2. o \in Objects /\ k \in Objects
    BY <2>1 DEF MakeSteps, Objects
  <2>3. Decides(w, i, o, k)
    BY <1>1, <1>3, <1>5, <2>1 DEF Decides
  <2> QED
    BY <1>4, <2>2, <2>3
<1>6. CASE do = "drop"
  <2>1. i = 22 /\ k = "fk_restrict"
    BY <1>2, <1>6, WhichStep
  <2>2. o = "fk_restrict"
    BY <2>1, StepFacts DEF Step
  <2>3. Decides(w, i, o, k)
    BY <1>1, <1>3, <1>6, <2>1 DEF Decides
  <2>4. o \in Objects /\ k \in Objects
    BY <2>1, <2>2 DEF Objects, ForeignKeys
  <2> QED
    BY <1>4, <2>3, <2>4
<1>7. CASE do = "remake"
  <2>1. i = 23 /\ k = "fk_restrict" /\ o = "fk_set_null"
    BY <1>2, <1>7, WhichStep
  <2>2. Decides(w, i, o, k)
    BY <1>1, <1>3, <1>7, <2>1 DEF Decides
  <2>3. o \in Objects /\ k \in Objects
    BY <2>1 DEF Objects, ForeignKeys
  <2> QED
    BY <1>4, <2>2, <2>3
<1> QED
  BY <1>5, <1>6, <1>7

LEMMA SkipKeeps ==
  ASSUME SchemaInv, NEW w \in Workers, SkipStatement(w), UNCHANGED settingsVars
  PROVE  SchemaInv'
<1>1. PICK i \in 1..24, o \in Objects, k \in Objects : Decides(w, i, o, k)
  BY StatementStep DEF SkipStatement
<1> USE DEF Decides
<1>2. \/ <<i, o, k>> \in MakeSteps /\ k \in seen[w]
      \/ i \in {22, 23} /\ "fk_restrict" \notin seen[w]
  BY <1>1 DEF SkipStatement, Runs
<1>3. /\ at' \in [Workers -> 0..Done] /\ at'[w] = i + 1
      /\ \A v \in Workers \ {w} : at'[v] = at[v]
      /\ UNCHANGED <<schema, duplicates, version, seen, disturbed, cut, pc>>
  BY <1>1, AdvanceStep DEF SkipStatement, SchemaInv, settingsVars
<1>4. SchemaType' /\ DatabaseInv' /\ Upward
  BY <1>3 DEF SchemaInv, SchemaType, DatabaseInv, Upward
<1>5. Reached(w)'
  BY <1>1, <1>2, <1>3, StepFacts DEF SchemaInv, Reached, MakeSteps, ForeignKeys
<1>6. w \notin disturbed' => Fresh(w)'
  BY <1>1, <1>2, <1>3 DEF SchemaInv, Reached, Fresh, MakeSteps
<1>7. ~Midway(w)
  BY DEF SkipStatement, Midway
<1>8. KeysInv'
  BY <1>3, <1>7, KeysKept DEF SchemaInv
<1> QED
  BY <1>3, <1>4, <1>5, <1>6, <1>8, OnlyOwn

LEMMA RunKeeps ==
  ASSUME SchemaInv, NEW w \in Workers, RunStatement(w), UNCHANGED settingsVars
  PROVE  SchemaInv'
<1>1. PICK i \in 1..24, o \in Objects, k \in Objects : Decides(w, i, o, k)
  BY StatementStep DEF RunStatement
<1> USE DEF Decides
<1>2. \/ /\ <<i, o, k>> \in MakeSteps /\ k \notin seen[w] /\ o \notin schema
         /\ schema' = schema \cup Made(o)
      \/ i = 22 /\ "fk_restrict" \in seen[w] /\ schema' = schema \ ForeignKeys
      \/ /\ i = 23 /\ "fk_restrict" \in seen[w] /\ o = "fk_set_null"
         /\ schema' = schema \cup Made(o)
  BY <1>1 DEF RunStatement, Runs, Clashes
<1>3. /\ at' \in [Workers -> 0..Done] /\ at'[w] = i + 1
      /\ \A v \in Workers \ {w} : at'[v] = at[v]
      /\ disturbed' = disturbed \cup {v \in Workers \ {w} : Loading(v)}
      /\ UNCHANGED <<duplicates, version, seen, cut, pc>>
  BY <1>1, AdvanceStep DEF RunStatement, SchemaInv, settingsVars
<1>4. SchemaType' /\ Upward
  <2>1. Made(o) \subseteq Objects
    BY DEF Made, Objects, ForeignKeys
  <2>2. i # 22 => "fk_restrict" \notin Made(o)
    BY <1>2 DEF Made, MakeSteps
  <2>3. SchemaType'
    BY <1>2, <1>3, <2>1 DEF SchemaInv, SchemaType
  <2>4. CASE i = 22
    <3>1. schema' = schema \ ForeignKeys
      BY <1>2, <2>4 DEF MakeSteps
    <3> QED
      BY <2>3, <3>1 DEF Upward, Declared, ForeignKeys
  <2>5. CASE i # 22
    <3>1. schema' = schema \cup Made(o)
      BY <1>2, <2>5
    <3> QED
      BY <2>2, <2>3, <2>5, <3>1 DEF Upward
  <2> QED
    BY <2>3, <2>4, <2>5
<1>5. Reached(w) /\ DatabaseInv /\ at[w] = i
  BY <1>1 DEF SchemaInv
<1>6. DatabaseInv'
  <2>1. "tables" \in schema'
    BY <1>2, <1>5 DEF Reached, Made, MakeSteps, ForeignKeys
  <2>2. "flag_indexes" \in schema' => "flag_table" \in schema'
    BY <1>2, <1>5 DEF DatabaseInv, Reached, Made, MakeSteps, ForeignKeys
  <2> QED
    BY <1>3, <1>4, <1>5, <2>1, <2>2 DEF DatabaseInv, Upward, Declared, Objects, ForeignKeys
<1>7. Reached(w)'
  BY <1>2, <1>3, <1>5, StepFacts DEF Reached, Made, MakeSteps, ForeignKeys
<1>8. ASSUME w \notin disturbed' PROVE Fresh(w)'
  <2>1. Fresh(w)
    BY <1>3, <1>8 DEF SchemaInv
  <2>2. i = 3 => schema = {}
    BY <1>2, <1>5 DEF DatabaseInv, MakeSteps
  <2>3. i = 6 => "flag_indexes" \notin schema
    BY <1>2, <1>5 DEF DatabaseInv, MakeSteps
  <2> QED
    BY <1>2, <1>3, <1>5, <2>1, <2>2, <2>3 DEF Fresh, Reached, Made, MakeSteps, ForeignKeys
<1>9. KeysInv'
  <2>1. CASE i = 3
    <3>1. at'[w] = 4 /\ "tables" \notin seen'[w]
      BY <1>2, <1>3, <2>1 DEF MakeSteps
    <3> QED
      BY <3>1, MidwayFacts DEF KeysInv
  <2>2. CASE i # 3
    <3>1. "tables" \in schema' => "tables" \in schema
      BY <1>2, <2>2 DEF Made, MakeSteps
    <3>2. "key_indexes" \in schema => "key_indexes" \in schema'
      BY <1>2 DEF ForeignKeys
    <3>3. Midway(w) => Midway(w)' \/ "key_indexes" \in schema'
      BY <1>2, <1>3, <1>5, MidwayFacts DEF Made, MakeSteps
    <3> QED
      BY <1>3, <3>1, <3>2, <3>3, KeysKept DEF SchemaInv
  <2> QED
    BY <2>1, <2>2
<1> QED
  BY <1>3, <1>4, <1>6, <1>7, <1>8, <1>9, OnlyOwn

LEMMA FailKeeps ==
  ASSUME SchemaInv, NEW w \in Workers, StatementFails(w), UNCHANGED settingsVars
  PROVE  SchemaInv'
<1>1. /\ at' \in [Workers -> 0..Done] /\ at'[w] = 0 /\ seen'[w] = {}
      /\ seen' \in [Workers -> SUBSET Objects]
      /\ \A v \in Workers \ {w} : at'[v] = at[v] /\ seen'[v] = seen[v]
      /\ cut' = (cut \/ Midway(w))
      /\ UNCHANGED <<schema, duplicates, version, disturbed, pc>>
  BY AdvanceStep DEF StatementFails, EndLoad, SchemaInv, SchemaType, settingsVars
<1>2. SchemaType' /\ DatabaseInv' /\ Upward
  BY <1>1 DEF SchemaInv, SchemaType, DatabaseInv, Upward
<1>3. pc[w] = "down"
  BY StepFacts DEF SchemaInv, Reached, StatementFails, Statement, Does, Loading
<1>4. Reached(w)'
  BY <1>1, <1>3 DEF Reached
<1>5. Fresh(w)'
  BY <1>1 DEF Fresh
<1>6. KeysInv'
  BY <1>1, KeysKept DEF SchemaInv
<1> QED
  BY <1>1, <1>2, <1>4, <1>5, <1>6, OnlyOwn

LEMMA StartKeeps ==
  ASSUME SchemaInv, NEW w \in Workers, StartUpgrade(w), UNCHANGED settingsVars
  PROVE  SchemaInv'
<1>1. PICK v \in 0..3 : v = version
  BY DEF SchemaInv, SchemaType
<1>2. PICK i \in {9, 12, 21, 25} :
        i = FirstStep(v) /\ (i > 9 => v > 0) /\ (i > 12 => v > 1) /\ (i > 21 => v > 2)
  BY FirstSteps
<1>3. at[w] = 8
  BY WhichStep DEF SchemaInv, StartUpgrade, Does
<1>4. /\ at' \in [Workers -> 0..Done] /\ at'[w] = i /\ seen'[w] = {}
      /\ seen' \in [Workers -> SUBSET Objects]
      /\ \A u \in Workers \ {w} : at'[u] = at[u] /\ seen'[u] = seen[u]
      /\ UNCHANGED <<schema, duplicates, version, disturbed, cut, pc>>
  BY <1>1, <1>2, AdvanceStep DEF StartUpgrade, SchemaInv, SchemaType, settingsVars
<1>5. SchemaType' /\ DatabaseInv' /\ Upward
  BY <1>4 DEF SchemaInv, SchemaType, DatabaseInv, Upward
<1>6. Reached(w)'
  BY <1>1, <1>2, <1>3, <1>4, StepFacts
     DEF SchemaInv, Reached, DatabaseInv, Declared, Objects, ForeignKeys
<1>7. Fresh(w)'
  BY <1>2, <1>4 DEF Fresh
<1>8. KeysInv'
  BY <1>3, <1>4, KeysKept, MidwayFacts DEF SchemaInv
<1> QED
  BY <1>4, <1>5, <1>6, <1>7, <1>8, OnlyOwn

LEMMA RecordKeeps ==
  ASSUME SchemaInv, NEW w \in Workers, RecordRevision(w), UNCHANGED settingsVars
  PROVE  SchemaInv'
<1>1. PICK i \in 1..24, r \in 1..3 :
        /\ i = at[w] /\ r = LoadSteps[at[w]].object
        /\ <<i, r>> \in {<<11, 1>>, <<20, 2>>, <<24, 3>>}
  <2>1. /\ at[w] \in 1..24
        /\ <<at[w], LoadSteps[at[w]].object>> \in {<<11, 1>>, <<20, 2>>, <<24, 3>>}
    BY WhichStep DEF SchemaInv, RecordRevision, Does
  <2> QED
    BY <2>1
<1>2. /\ at' \in [Workers -> 0..Done] /\ at'[w] = i + 1 /\ seen'[w] = {}
      /\ seen' \in [Workers -> SUBSET Objects]
      /\ \A v \in Workers \ {w} : at'[v] = at[v] /\ seen'[v] = seen[v]
      /\ version' = r
      /\ UNCHANGED <<schema, duplicates, disturbed, cut, pc>>
  BY <1>1, AdvanceStep DEF RecordRevision, SchemaInv, SchemaType, settingsVars
<1>3. SchemaType' /\ Upward
  BY <1>2 DEF SchemaInv, SchemaType, Upward
<1>4. Reached(w) /\ DatabaseInv /\ at[w] = i
  BY <1>1 DEF SchemaInv
<1>5. DatabaseInv'
  BY <1>1, <1>2, <1>4 DEF DatabaseInv, Reached, Declared, Objects, ForeignKeys
<1>6. Reached(w)'
  BY <1>1, <1>2, <1>4, StepFacts DEF Reached
<1>7. w \notin disturbed' => Fresh(w)'
  BY <1>1, <1>2 DEF Fresh
<1>8. KeysInv'
  BY <1>1, <1>2, KeysKept, MidwayFacts DEF SchemaInv
<1> QED
  BY <1>2, <1>3, <1>5, <1>6, <1>7, <1>8, OnlyOwn

\* A worker that boots, seeds and serves, as far as the schema goes.
LEMMA ServingKeeps ==
  ASSUME SchemaInv, NEW w \in Workers, pc[w] # "down" \/ at[w] = Done,
         \A v \in Workers \ {w} : pc'[v] = pc[v], UNCHANGED schemaVars
  PROVE  SchemaInv'
<1>1. SchemaType' /\ DatabaseInv' /\ Upward
  BY DEF schemaVars, SchemaInv, SchemaType, DatabaseInv, Upward
<1>2. Reached(w)' /\ (w \notin disturbed' => Fresh(w)')
  BY DEF schemaVars, SchemaInv, Reached, Fresh
<1>3. KeysInv'
  BY KeysKept, MidwayFacts DEF schemaVars, SchemaInv
<1> QED
  BY <1>1, <1>2, <1>3, OnlyOwn DEF schemaVars

\* A worker that ends.
LEMMA EndingKeeps ==
  ASSUME SchemaInv, SettingsType, NEW w \in Workers, EndLoad(w), Goto(w, "down")
  PROVE  SchemaInv'
<1>1. /\ at' \in [Workers -> 0..Done] /\ at'[w] = 0 /\ pc'[w] = "down"
      /\ \A v \in Workers \ {w} : at'[v] = at[v] /\ pc'[v] = pc[v]
  BY AdvanceStep DEF EndLoad, Goto, SchemaInv, SettingsType
<1>2. /\ seen' \in [Workers -> SUBSET Objects] /\ seen'[w] = {}
      /\ \A v \in Workers \ {w} : seen'[v] = seen[v]
      /\ cut' = (cut \/ Midway(w))
      /\ UNCHANGED <<schema, duplicates, version, disturbed>>
  BY DEF EndLoad, SchemaInv, SchemaType
<1>3. SchemaType' /\ DatabaseInv' /\ Upward
  BY <1>1, <1>2 DEF SchemaInv, SchemaType, DatabaseInv, Upward
<1>4. Reached(w)' /\ Fresh(w)'
  BY <1>1, <1>2 DEF Reached, Fresh
<1>5. KeysInv'
  BY <1>1, <1>2, KeysKept DEF SchemaInv
<1> QED
  BY <1>1, <1>2, <1>3, <1>4, <1>5, OnlyOwn

LEMMA SchemaInitial == Init => SchemaInv
<1> SUFFICES ASSUME Init PROVE SchemaInv
  OBVIOUS
<1>1. MigrationsInit /\ pc = [w \in Workers |-> "down"]
  BY DEF Init, SettingsInit
<1>2. SchemaType
  <2>1. schema \subseteq Objects /\ version \in 0..3
    BY <1>1 DEF MigrationsInit, Objects, ForeignKeys
  <2>2. duplicates \in BOOLEAN
    <3>1. duplicates \in BOOLEAN \/ duplicates \in {FALSE}
      BY <1>1 DEF MigrationsInit
    <3> QED
      BY <3>1
  <2>3. at \in [Workers -> 0..Done] /\ seen \in [Workers -> SUBSET Objects]
    BY <1>1, StepFacts DEF MigrationsInit
  <2> QED
    BY <1>1, <2>1, <2>2, <2>3 DEF MigrationsInit, SchemaType
<1>3. DatabaseInv
  BY <1>1 DEF MigrationsInit, DatabaseInv, Declared, Objects, ForeignKeys
<1>4. \A w \in Workers : Reached(w) /\ Fresh(w)
  <2> SUFFICES ASSUME NEW w \in Workers PROVE Reached(w) /\ Fresh(w)
    OBVIOUS
  <2>1. at[w] = 0 /\ seen[w] = {} /\ pc[w] = "down"
    BY <1>1 DEF MigrationsInit
  <2> QED
    BY <2>1 DEF Reached, Fresh
<1>5. KeysInv
  BY <1>1 DEF MigrationsInit, KeysInv
<1> QED
  BY <1>2, <1>3, <1>4, <1>5 DEF SchemaInv

LEMMA SchemaNext == SettingsInv /\ SchemaInv /\ [Next]_vars => SchemaInv'
<1> SUFFICES ASSUME SettingsInv, SchemaInv, [Next]_vars PROVE SchemaInv'
  OBVIOUS
<1>1. CASE UNCHANGED vars
  <2>1. UNCHANGED schemaVars /\ pc' = pc
    BY <1>1 DEF vars, settingsVars
  <2>2. KeysInv'
    BY <2>1, MidwayFacts DEF schemaVars, SchemaInv, KeysInv
  <2> QED
    BY <2>1, <2>2 DEF schemaVars, SchemaInv, SchemaType, DatabaseInv, Reached, Fresh
<1>2. ASSUME NEW w \in Workers, UpgradeSchema(w) PROVE SchemaInv'
  BY <1>2, BeginLoadKeeps, InspectKeeps, SkipKeeps, RunKeeps, FailKeeps, StartKeeps,
     RecordKeeps DEF UpgradeSchema, Migrate
<1>3. ASSUME NEW w \in Workers, Boot(w) PROVE SchemaInv'
  BY <1>3, ServingKeeps DEF Boot, BeginSeed, Goto, SettingsInv, SettingsType
<1>4. ASSUME NEW w \in Workers, Seed(w) PROVE SchemaInv'
  <2>1. pc[w] # "down" /\ \A v \in Workers \ {w} : pc'[v] = pc[v]
    BY <1>4 DEF Seed, SeedCommits, LoadSettings, Goto, SettingsInv, SettingsType
  <2> QED
    BY <1>4, <2>1, ServingKeeps DEF Seed
<1>5. ASSUME NEW w \in Workers, SeedingFails(w) PROVE SchemaInv'
  BY <1>5, EndingKeeps DEF SeedingFails, SeedFails, SettingsInv
<1>6. ASSUME NEW w \in Workers, Administer(w) PROVE SchemaInv'
  <2>1. pc[w] # "down" /\ \A v \in Workers \ {w} : pc'[v] = pc[v]
    BY <1>6 DEF Administer, SubmitForm, Save, Reload, Goto, SettingsInv, SettingsType
  <2> QED
    BY <1>6, <2>1, ServingKeeps DEF Administer
<1>7. ASSUME NEW w \in Workers, Stop(w) PROVE SchemaInv'
  BY <1>7, EndingKeeps DEF Stop, Lose, SettingsInv
<1> QED
  BY <1>1, <1>2, <1>3, <1>4, <1>5, <1>6, <1>7 DEF Next

LEMMA SchemaInvariant == Spec => [](SettingsInv /\ SchemaInv)
<1>1. SettingsInv /\ SchemaInv /\ [Next]_vars => (SettingsInv /\ SchemaInv)'
  BY SettingsNext, SchemaNext
<1> QED
  BY <1>1, SettingsInitial, SchemaInitial, PTL DEF Spec

-----------------------------------------------------------------------------
\* The schema, the table and every worker's copy keep known values, and no
\* setting is without its row once a worker serves.
THEOREM TypeCorrect == Spec => []TypeOK
<1>1. SettingsInv /\ SchemaInv => TypeOK
  BY DEF SettingsInv, SettingsType, SchemaInv, SchemaType, WorkerOK, Complete, TypeOK
<1> QED
  BY <1>1, SchemaInvariant, PTL

\* A worker that serves, after whatever interrupted, overtaken and repeated
\* upgrades, finds the schema of the models; the indexes on challenge_id,
\* team_id and user_id are missing only where a create_all was cut short
\* before them or is still on its way to them.
THEOREM SchemaIsCurrent == Spec => []SchemaMatchesModels
<1>1. ASSUME SchemaInv, NEW w \in Workers, Serving(w)
      PROVE  /\ Declared \subseteq schema /\ "fk_restrict" \notin schema
             /\ "key_indexes" \in schema \/ cut \/ \E v \in Workers : Midway(v)
  <2>1. at[w] = 25 /\ Reached(w)
    BY <1>1, StepFacts DEF SchemaInv, Reached, Serving
  <2>2. Declared \subseteq schema /\ "fk_restrict" \notin schema
    BY <2>1 DEF Reached, Declared, Objects, ForeignKeys
  <2> QED
    BY <1>1, <2>1, <2>2 DEF SchemaInv, KeysInv, Reached
<1>2. SchemaInv => SchemaMatchesModels
  BY <1>1 DEF SchemaMatchesModels, Declared
<1> QED
  BY <1>2, SchemaInvariant, PTL

\* An upgrade that no other worker's statement overtakes fails on duplicate
\* rows alone, wherever the one before it was cut off.
THEOREM UpgradesRepeat == Spec => []UpgradeIsRepeatable
<1>1. ASSUME SchemaInv, NEW w \in Workers \ disturbed,
             Statement(w), Runs(w), Clashes(w)
      PROVE  duplicates /\ LoadSteps[at[w]].object = "info_uniques"
  <2>1. PICK i \in 1..24, o \in Objects, k \in Objects : Decides(w, i, o, k)
    BY <1>1, StatementStep
  <2>2. Reached(w) /\ Fresh(w) /\ DatabaseInv
    BY <1>1 DEF SchemaInv
  <2>3. CASE <<i, o, k>> \in MakeSteps /\ Does(w, "make")
    <3>1. k \notin seen[w] /\ (o \in schema \/ (o = "info_uniques" /\ duplicates))
      BY <1>1, <2>1, <2>3 DEF Runs, Clashes, Decides
    <3>2. o \notin schema
      BY <2>1, <2>2, <2>3, <3>1 DEF Fresh, Decides, MakeSteps
    <3> QED
      BY <2>1, <3>1, <3>2 DEF Decides
  <2>4. CASE ~Does(w, "make")
    <3>1. i \in {22, 23} /\ i = at[w] /\ "fk_restrict" \in seen[w]
      BY <1>1, <2>1, <2>4 DEF Runs, Decides
    <3>2. CASE i = 22
      BY <1>1, <2>1, <2>2, <2>4, <3>1, <3>2 DEF Clashes, Decides, Fresh, ForeignKeys
    <3>3. CASE i = 23
      BY <1>1, <2>1, <2>2, <2>4, <3>1, <3>3 DEF Clashes, Decides, Fresh
    <3> QED
      BY <3>1, <3>2, <3>3
  <2> QED
    BY <2>1, <2>3, <2>4 DEF Decides
<1>2. SchemaInv => UpgradeIsRepeatable
  BY <1>1 DEF UpgradeIsRepeatable
<1> QED
  BY <1>2, SchemaInvariant, PTL
=============================================================================
