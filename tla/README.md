# docker-per-team, verified

TLA+ models of the CTFd plugin in `src/`, checked with TLC on small instances. Their safety properties are also
proved with TLAPS, for every number of accounts, containers, processes, threads and calls.
The plugin gives every team (or user) a Docker container of its own for a challenge. It runs in several web worker
processes that share one MySQL database and one Docker daemon; each process also runs an expiry scheduler.

Paths below are relative to `src/`. `PROJECT.json` maps every definition to the lines it models.

## 1. Inventory

| Part | Code | State | Operations | Interacts with |
|---|---|---|---|---|
| Launch path | `helpers.create_container`, `lock_container_request`, `prune_stale_account_containers`, `ContainerManager.create_container` | `container_info_model`, the account's `GET_LOCK`, the daemon's containers | lock, count, prune, start, wait for health, read port, record, discard | database, Docker, CTFd's solves |
| Teardown paths | `helpers.kill_container`, `view_container_info`, `renew_container`, `admin_routes` kill and purge, `ContainerChallenge.attempt`, `ContainerManager.kill_container` | the same rows and containers | stop, admin kill, purge, view, renew, kill on solve | launch path, scan |
| Expiry scan | `ContainerManager.kill_expired_containers`, `_with_advisory_lock` | scan lock, `expires` | list due rows, kill each | every worker's scan, all teardowns |
| Connection manager | `ContainerManager.run_command`, `initialize_connection` | `client`, `expiration_scheduler`, `settings`, shared by the threads of a process without a lock | guard and retry each call, replace client and scheduler | scheduler threads, settings save |
| Flags | `helpers.get_container_flag`, `cleanup_container_records`, `log_reused_flag_submission`, flag drawing in `create_container` | `container_flag_model`, `container_cheat_log`, `flag_mode` | draw, record, detach or delete, submit, log evidence, score | launch, teardown, CTFd's scoring |
| Rate limit | `user_routes.account_ratelimit`, `increment_rate_limit` | one counter with a TTL per account and endpoint | count, refuse, expire | Redis or `SimpleCache` |
| Settings | `helpers.seed_default_settings`, `settings_to_dict`, `admin_routes.route_update_settings` | `container_settings_model`, one copy in each worker | seed and migrate at boot, save, reload | connection manager, launch |
| Instance panel | `assets/view.js`, `assets/view.html` | visibility and `disabled` of three buttons, calls in flight | open, fetch, extend, terminate, submit, answers | the user routes |
| Runtime policy | `runtime_policy.py`, `ContainerManager.__init__`, `initialize_connection`, `create_container`, `_validate_live_runtime_boundary` | none of its own: the environment, the daemon, the networks, image tags | validate identity, endpoint, daemon, network, image, limits at boot, connect, save and launch | connection manager, launch, settings |
| Challenge administration | `__init__.py` `_normalize_challenge_payload`, `create`, `update`, `delete`, `assets/create.js`, `assets/update.js` | challenge rows | create, update, delete | flags, runtime policy |
| Schema migrations | `__init__.py` `load`, `migrations/*.py` | the schema, the revision in CTFd's config | `create_all`, upgrade (downgrade is called by nothing) | every worker's start |
| Admin pages | `templates/*.html`, dashboard, cheat and settings routes | none | list | all tables |

What is hard, and what makes each part correct:

* **Launch path.** A launch takes up to a minute between counting the account's rows and recording its own, during
  which teammates launch, stop, solve and view. Correct means: never more recorded, or running, than
  `max_containers`; at most one instance per challenge; only healthy containers are recorded; a container that is not
  recorded is stopped; every request returns.
* **Teardown paths and scan.** Six routes and the scans of all workers may stop the same container at once, with 404
  and 409 from Docker and `ObjectDeletedError` from the ORM on the way. Correct means: a row goes only after its
  container stopped; a scored flag's instance is down; containers of other events are left alone; expired instances
  go in the end.
* **Connection manager.** Threads replace the shared client and scheduler while others use them; `shutdown()` waits
  for a running scan, and a scan may itself reconnect. Correct means: no hang, no lost expiry, no second scheduler, no
  scan that goes on with a client it did not start with.
* **Flags.** A flag's row outlives its instance, changes hands never, and is matched by text. Correct means: the
  account it was issued to can use it at any time, nobody else can, and the evidence names real reuse.
* **Rate limit.** Window edges, the TTL that must be set exactly once, the two back ends.
* **Settings.** Boot, migration and saves of several workers interleave under REPEATABLE READ. Correct means: no
  worker runs with a disabled safety limit, and none is left in the table.
* **Instance panel.** Buttons are toggled blindly by answers that may be late, lost or refused.
* **Runtime policy.** The facts are checked in seven calls, while operators replace networks, move tags and save
  settings. Correct means: what starts had, during its own launch, everything the target promises.
* **Schema migrations.** DDL commits by itself, workers upgrade at the same time, and `create_all` may have made any
  of it already. Correct means: whoever serves finds the schema of the models, and an upgrade can be run again.

The hazards are listed one by one, with line and properties, in `PROJECT.json`.

## 2. Modules

| Module | Models | Extends |
|---|---|---|
| `InstanceStore` | database, daemon, solves, locks; Docker's and the clock's own steps; a worker's crash | |
| `LaunchPath` | a launch, step by step, and its faults | `InstanceStore` |
| `TeardownPaths` | all other handlers, the scan, and their faults | `InstanceStore` |
| `Instances` | their composition, the properties, the refinement | both |
| `InstanceService` | abstract: instances granted under a quota, withdrawn only when down | |
| `InstanceProofs` | theorems about `Instances`: types and the capacity | `Instances`, TLAPS |
| `LifecycleProofs` | theorems about `Instances`: rows, containers in hand, running containers, the abstract service | `InstanceProofs` |
| `Connection` | one worker's threads, client and schedulers, the row locks of their transactions | |
| `Flags` | one challenge's flags, submissions and cheat log | |
| `RateLimit` | one counter | |
| `Migrations` | the schema and the steps of `load()` that change it | |
| `Settings` | the settings table and the workers' copies | `Migrations` |
| `Startup` | `load()` of several workers: schema, then settings; restarts; saves | `Settings` |
| `StartupProofs` | theorems about `Startup` | `Startup`, TLAPS |
| `RuntimePolicy` | the validators, as predicates over the facts they test | |
| `Boundary` | one worker, one launch, and what changes around them | `RuntimePolicy` |
| `BoundaryProofs` | theorems about `Boundary` | `Boundary`, TLAPS |
| `ViewPanel` | one player's panel against one server-side slot | |
| `ConnectionProofs`, `FlagsProofs`, `RateLimitProofs`, `ViewPanelProofs` | theorems about the module of that name | that module, TLAPS |
| `MC...` | symmetry, model values and small sets of the runs | the module of that name |

### How state and actions correspond to the code

* **Instances.** A container id has a state at the daemon (`docker`: unused, starting, healthy, exited, gone) and
  may be in `rows`. `due` is the set of rows whose `expires` has passed; time is otherwise abstract, `Tick` makes a
  row due. A request or a scanner is a `task` with a program counter between two externally visible steps: a
  database commit, a Docker call, or a lock. All that happens between two of these in the code is one action. A batch
  (prune, purge, scan) has a transaction: while it is `open` it sees the snapshot `snap`, after a commit inside the
  loop it sees the table, and touching a row another process has deleted raises, as `ObjectDeletedError` does.
  `dialect` is the deployment's database, chosen in `Init` from `Dialects`: on those without `GET_LOCK`
  (`~AdvisoryLocks`) the locks are always granted, as the code does.
* **Faults.** `"docker"`: a call's reply is lost, before or after the daemon acted; `"db"`: a commit fails, applied
  or not; `"crash"`: the process dies, its MySQL connection drops and with it the locks.
* **Connection.** `client` is only whether `self.client` is `None`; `sched` gives every `BackgroundScheduler` object a
  life of its own, because the code forgets some that still run; `jobs` are the objects that were given the scan job.
  Assigning the new object, adding the job and starting it are three steps (`Install`, `AddJob`, `Start`), and the last
  two act on whatever object is the current one by then, so that one object may be given two jobs: they count as one,
  because their scans would compete for the scan lock. `entangled` is a history, for a property only: two threads have
  been in `initialize_connection` at once, or a scan's thread has. A scan is a thread of its scheduler; a kill inside a
  scan is a nested guarded call. `shutdown()` is two steps, stop and join; in the scheduler's own thread the join is a
  `RuntimeError` that nobody catches. A name of a dead scheduler may be used again. A prune holds the row locks of
  what it is about to delete while it asks Docker for the next container, and so perhaps while it waits in
  `shutdown()` for a scan that waits for these rows; InnoDB ends such a wait by its lock timeout.
* **Flags.** A launch and a teardown are one commit each here, as `Instances` shows them to be for the tables. `born`
  stands for the primary key. `issued` and `dropped` are histories for the properties.
* **Migrations.** `LoadSteps` is the list of statements `load()` runs, from `create_all` to the last revision, each
  with the object it creates or drops and whether the code looks for that object first. A group of objects that is made
  alike, and made again alike after an interruption, is one object, which is there when all its members are. The seven
  indexes of `container_info_model` are two: `info_indexes`, the four that revision `b9f3c7a1e4d2` makes again, and
  `key_indexes`, those on `challenge_id`, `team_id` and `user_id`, which only `create_all` makes, and only together with
  their table. `flag_table` comes after them. `cut` is a history: a `create_all` ended between the table and the last of
  its indexes (in an old database without them, it may have). `seen` is what `inspect()` found when a revision began;
  `disturbed` marks workers during whose upgrade another worker has run a statement, for a property only. A failing
  statement ends `load()`; a later start goes on from the revision in CTFd's config.
* **Settings, Startup.** `Missing`, `Zero` (the sentinels of old versions), `Default` and the values an admin may
  choose. An ORM flush writes only the columns that differ from what the transaction read. A worker serves only after
  its schema steps and its seeding; it may end between any two steps.
* **RuntimePolicy, Boundary.** Facts stand for what the code parses out of URLs, labels, `docker info` and
  `docker inspect`: a network is there or not, direct, isolated (`icc` off), owned by this event, with an egress
  policy; a reference is pinned or not, in the event's prefix or not, and names content that keeps the image contract
  or not. Each call of `create_container` that asks the daemon is one action, because anything may change in between.
  `launch.seen` collects, for the properties only, which facts held at some moment of the launch. `SaveSettings` is
  the save up to its commit and `ReloadSettings` the rest; `reloading` is between them, or never in this worker when
  another served the save.
* **RateLimit.** `redis` is the deployment's choice of back end. `asked[i]` and `served[i]` count the requests made and
  let through in this tick and the `i` before it, for the properties only; `Recent` is the last `Interval` ticks.
* **ViewPanel.** The toggles an answer makes are the sets `CreateToggles` and `UpdateToggles`; they act on whatever
  rendering the page shows, as `getElementById` does. The server's part is one commit per call.

Names ending in what a slip would do (`RecordInstanceUnkilled`, `FlagsAfterDeleted`, ...), introduced by a comment
"Slip:", are wrong variants of the definition that follows them. No specification uses them; each property is known
to fail when one of them takes its definition's place.

## 3. Runs

"States" are distinct states, after symmetry where the cfg declares it. Symmetry is used for safety only.

| Run | Question | Bounds | States |
|---|---|---|---|
| `lifecycle` | Do overlapping requests keep the limit, recorded and running, and the health gate? What is left without advisory locks? | both kinds of database, 1 account, 2 challenges, limit 1, 2 containers, 2 requests | 1375k |
| `faults` | Does the lifecycle implement `InstanceService`, and score only what is down, through lost replies, lost commits and crashes? | 1 account, 2 challenges, limit 2, 2 containers, 1 request, 1 scan, all faults | 170k |
| `progress` | Do requests and competing scans end, do expired instances go, only after they stopped, and is a foreign container left alone? | 2 challenges, limit 2, 1 foreign and 1 own container, 1 request, 2 scans | 44k |
| `contention` | Does every request end that waits for its account's lock, behind one that works, waits or dies? | 1 account, 1 challenge, 2 containers, 2 requests, crashes | 158k |
| `connection` | Does a ready manager expire, however first calls and saves overlap? | 2 request threads, 4 schedulers, 1 save or failing exchange | 661k |
| `connection_returns` | Can threads wait for each other, or for rows, forever? Is the client replaced only after the old scan is over, when threads do so one after another? | 1 request thread, 3 schedulers, 3 saves or failing exchanges | 159k |
| `scan_reconnect` | Does a scan that loses its connection reconnect? (No: see below.) | as `connection_returns`, 1 save or failing exchange | |
| `flags` | Are flags kept, accepted from their owner only, and evidence real? | 2 accounts, 2 requests, 2 containers, 2 random flags, 1 change of `flag_mode` | 123k |
| `rate_limit` | Is the window what it says, up to its edge? | limit 2, 3 ticks, 4 requests a tick, Redis and the local fallback | 980 |
| `startup` | Does a worker ever serve with another schema than the models', or with a disabled limit? Can an interrupted upgrade be run again? | 2 workers, databases of every earlier version, 1 safe and 1 other setting, 2 admin values | 538k |
| `boundary` | Does what starts keep what the target promises, and only what the settings allow? | all environments, a malformed daemon URL included, 1 capability, 2 changes, challenges and networks that depart from an acceptable one in one respect | 736k |
| `panel` | Do the blind toggles add up? | 3 calls in flight, 3 renderings | 570k |

The bounds are the smallest in which the interesting cases happen. Two requests are enough for every race between a
launch and another handler. With a limit of 1 and two challenges both the lock and the count matter. Two containers
let a slot be relaunched while the old container is being removed. A batch needs two rows for one of them to be
deleted under it, which takes a limit of 2. Two scans are the least that compete. `contention` has no
scan, so that two launches, each of which may find the lock held any number of times, can be followed under fairness:
without the timeout of `GET_LOCK` one of them overtakes the other forever. Four schedulers let three be
forgotten or busy while one is being installed. Three calls let a flag submission and an earlier rendering's call
overlap with a click. A rate limit of 2 in 3 ticks has bursts that start at, before and after a window's edge.
A window may see 12 requests; `MaxCount` stops it at 9, and as a request beyond the limit changes nothing but the count,
the other three would add no new answer. Two workers are the least that overtake each other's
upgrade, and each may end and start again any number of times. Two changes are enough for one to make a check pass
and the next to undo it before the container starts, and for a save in the middle of a launch that a save made
possible; the validators test each fact alone, so departures come one at a time.

`flags` turns off TLC's deadlock check because the challenge is over for an account that has solved it. All other
systems run on.

### What the code does not keep

`scan_reconnect` ends in a counterexample to `ReconnectTried`: a scan that loses its Docker connection calls
`initialize_connection` in its own scheduler's thread. `shutdown()` marks that scheduler stopped and then joins its
thread pool, which a thread of the pool cannot do; the `RuntimeError` is none of the exceptions caught at
`container_manager.py:239`, so nothing is connected and the error is dropped at line 521. The client stays, the
service reports ready, and no instance expires until settings are saved or the client is replaced. The comment at
line 518 says "Try to reconnect before failing".

Two more disagreements concern threads that initialize the connection at once. No run is kept for them. With
two request threads TLC ends in the first, respectively the second, when that conjunct of `ReplacementIsClean` is stated
without `~entangled`:

* Two first calls: neither finds a scheduler to shut down, each makes and starts its own, and the attribute remembers
  the later one. The other scans until the process ends. The comment at line 236 says "Remove any leftover expiration
  schedulers".
* Two saves: the first calls `shutdown()`, which marks the scheduler stopped and waits for its running scan. The second
  gets `SchedulerNotRunningError`, which line 240 explains by "Scheduler was never running", does not wait, and replaces
  the client under that scan.

Other properties are stated with the condition under which the code keeps them:

* `CapacityRespected` holds with advisory locks. Without them launches for two challenges both pass the count.
* `NoOrphans` and `RunningWithinCapacity` hold without connection faults and crashes: the code has no sweep for
  containers it started but never recorded.
* An instance renewed after the scan's query is killed by that scan all the same, and a launch in progress when a
  teammate solves the challenge still hands out an instance. No property says otherwise.
* `ReadyMeansExpiring` holds as long as the daemon has answered: an exception `initialize_connection` does not name
  leaves a new client without a scheduler.
* `ReplacementIsClean` holds as long as web threads initialize one after another (`~entangled`). Two at once, or a scan
  that reconnects, end as described above.
* `IssuedFlagKept` and `OwnFlagAccepted` except flags whose instance was torn down after an admin switched the
  challenge to static flags. Concurrent launches may draw the same flag; `OnlyOwnFlagScores` holds even then.
* `RefusedOnlyOverLimit` holds with Redis: the local fallback restarts its window with every request.
* `LimitsEnforced` speaks of the safety limits: a save reaches only the worker that served it, and a worker that boots
  may overwrite a value saved after it had read the table. A positive `container_maxcpu` below 0.00001 still becomes a
  CPU quota of 0, which Docker takes for none (`runtime_policy.py:428`); limits are "positive" or not in the model.
* `SchemaMatchesModels` has two exceptions. The cheat log's foreign keys are left out, except that none restricts: a
  worker that ends between the drop of a key and its re-creation leaves it out for good, because the next run finds no
  key of that name. And the indexes on `challenge_id`, `team_id` and `user_id` (`models.py:45`) are missing for good
  when a worker ends after `create_all` made their table and before it made them: `create_all` skips a table that is
  there, and revision `b9f3c7a1e4d2` makes only the other four indexes again. The property says that nothing else leads
  to it: without such an end (`cut`), and no worker at that point right now, they are there.
* `UpgradeIsRepeatable` for workers that run their statements alone. Two workers that upgrade at once may make each
  other's statement fail, and rows of an earlier version that violate the new unique constraints end every upgrade.
* `PromisedControls` promises each fact at some moment of the launch, not all of them at the start: a network may be
  created again between its check and `containers.run`. The separation from CTFd's network is checked only when the
  process knows its own container id. Limits a save made stricter reach another worker only when it starts again.
* `ProductionImageIsChecked` is about production; on the other targets a tag may move between check and start.
* `ExtrasAllowed` speaks of the settings of the worker that launches. Volumes stay in a challenge after they were
  disabled, and are refused at the launch.
* `OneCallAtATime` and `PanelMatchesInstance` except what the panel cannot know, in `drift`. After a refused call, a
  submitted flag or a renewal of a gone instance the buttons may be wrong or disabled until the panel is opened again.

### Fairness

`Instances!FairSpec` has weak fairness on each thread that is in the middle of a handler (the operating system runs
it; a Docker call and a lock wait have timeouts, so none of them waits forever), on the start of each scheduler's next
scan (an interval trigger every 5 seconds) and on Docker's removal of a dead container (`auto_remove`). Requests, the
clock, exits of containers and health checks that pass are not fair: nobody has to click, and a container may be
unhealthy forever. `Connection!FairSpec` has weak fairness on each started thread only; scans and requests need not
come. A thread that waits for row locks goes on too: `innodb_lock_wait_timeout` ends the wait by an error.

## 4. Proofs

`InstanceProofs` proves for every number of accounts, challenges, containers, requests and scanners, every limit and
every set of faults, from `StoreAssumption` alone (finitely many containers, disjoint kinds of actors, a positive
limit, and distinct null values):

* `TypeCorrect`: `Spec => []TypeOK`. `TypeOK` is not inductive, because an action that records or removes a container
  takes it from a task; `TypeInv` adds `TaskOK`: a task is a record of `Tasks` whose program counter implies that its
  slot, respectively its target container, is a real one. One lemma covers the launch steps (`LaunchType`), one the
  teardown steps (`TeardownType`), one the arrivals.
* `CapacityHolds`: `Spec => []CapacityRespected`, where `CapacityRespected` speaks of databases with advisory locks.
  The inductive invariant is `LockedInv`: with advisory locks, `CapInv` holds. `CapInv` says: whoever is
  at a step of a launch after the lock holds its account's lock; whoever has passed the count did so with room left,
  and no other actor adds a row of that account before it records; every recorded id has been issued by the daemon,
  so a container that is just started is not among the rows. The argument: rows of an account are added only by
  `RecordInstance` (or a lost commit of it) of the lock holder (`LaunchCap`); every other step leaves the
  account's rows the same or removes some (`NoNewRow`, `QuietStep`, `TeardownCap`), and the holder keeps the lock until
  it is done; a waiter that times out and a process that crashes leave the launch with it. The condition
  `AdvisoryLocks` is needed: on other dialects TLC finds two launches that both pass the count. The dialect never
  changes (`DialectKept`).

`LifecycleProofs` goes on under the same assumption. About rows, with or without advisory locks and with every fault,
from `TypeInv` and `RowInv`:

* `SlotsAreUnique`, `RecordedOnceHealthy`: `Spec => []OneInstancePerSlot` and `Spec => []RecordedWasHealthy`;
  `ForgottenStopped`, `ForeignersLive`: `Spec => ForgottenMeansStopped` and `Spec => ForeignUntouched`.
  What a handler does to a row or container rests on what it learned some steps ago, so `RowInv` says what is still
  true of that (`TaskInv`): what it has found stale, or is about to clean up after, has stopped; what it is about to
  kill is not foreign; what it is about to record is of its own slot and was once healthy. This survives the steps of
  all others because no step takes a container back (`Grows`): used ids stay used, stopped containers stay stopped.
  Each step is then shown `Good`: it keeps `RowInv`, forgets no running container and stops no foreign one.

About containers in hand, it proves `ScoredDown`: `Spec => []ScoredIsTornDown`, and `OrphansAreLaunching`:
`Faults = {} => (Spec => []NoOrphans)`. Both rest on `HandInv`: a container that a launch has started and not yet
recorded is in no row, and no other actor knows of it, because handlers learn of containers from rows or by starting
them (`Learns`). So nobody puts back what a solve took down (`ScoreInv`), and the launch that holds a container is the
only one that can let go of it: it ends in a row or in a kill (`HeldOn`). The hypothesis `Faults = {}` is needed: a lost
reply to `containers.run` leaves an orphan.

`RunningIsBounded` is `Faults = {} => (Spec => []RunningWithinCapacity)`: with advisory locks the limit holds for what
really runs, not only for what is recorded. By `NoOrphans` a container that runs and is in no row is in the hands of a
launch. By `CapInv` that launch holds its account's lock and was admitted with room left; there is one holder of the
lock, so one such container (`OneInHand`), and the rows leave room for it (`RunningFits`). Both conditions are needed:
without locks two launches are in hand, and with faults there are orphans.

Last, `ServiceImplemented`: `Dialects = {"mysql"} => (Spec => ImplementsService)`. Every step touches rows
and containers in one of four ways (`StepShape`), and each is a step of `InstanceService` or a stutter: starting a
container is `BringUp`, recording one is `Grant` (room by `CapInv`, a free slot by the unique constraints), deleting
rows is `Withdraw` (all of them stopped, by `StepGood`), and an exit, a kill or a removal is `GoDown` or nothing.

`StartupProofs` proves, for any number of workers, settings and choices and from `SettingsAssumption`,
`LimitsAreEnforced` and `TableIsMigrated`: `Spec => []LimitsEnforced` and `Spec => []TableMigrated`. The inductive
invariant says that what the snapshot of a seeding or saving worker had, the table still has: rows are not deleted and
limits not disabled again (`SnapshotKept`); that past its seeding a worker has left a table with every row and no
disabled limit (`Complete`), which every save keeps; and that it enforces none itself.

For the schema it proves `SchemaIsCurrent` and `UpgradesRepeat`: `Spec => []SchemaMatchesModels` and
`Spec => []UpgradeIsRepeatable`, from `SchemaInv`. Of the database this says what the recorded revision stands for
(`DatabaseInv`); of a worker, what its `load()` has established by its present step, whoever did it (`Reached`), and,
if no other has run a statement meanwhile, that what it saw or missed is still so when the statement comes that depends
on it (`Fresh`). `Reached` survives the other workers' statements because the schema only grows, foreign keys apart
(`Upward`); `Fresh` needs no such argument, as a statement of another worker ends it (`OnlyOwn`). That the key indexes
are missing only after a cut, or on the way (`KeysInv`), holds because whoever makes their table is `Midway` from then
until it has made them or ends. At the last step
`Reached` and `KeysInv` are `SchemaMatchesModels`, and at each statement `Fresh` says that only duplicate rows can fail it. `TypeCorrect` joins
the types of both halves.

`BoundaryProofs` proves, for all capabilities, challenges, networks and numbers of changes and from
`BoundaryAssumption`, `TypeCorrect`, `PromisesAreKept`, `ProductionImages` and `ExtrasWereAllowed`. Each check, when it
passes, leaves its facts in `launch.seen`, and nothing takes a fact out before the launch is over; the invariant has
one conjunct per check, which says of every later program counter what has been seen by then (`ControlsSeen`,
`NetworkSeen`, `ImageChecked`, `ExtrasSeen`), together with `Booted` (a worker that is up passed the checks of
`ContainerManager()`) and `Watched` (what holds now has been seen).

`ConnectionProofs` proves `TypeCorrect`, `ReplacementsAreClean` and `ReadyIsExpiring`. A scheduler that a thread has
shut down stays stopped, and its name is not used again, until that thread has installed another; and it has no scan
once the thread has joined it (`WaitedInv`). `ReplacementIsClean` follows from `CleanInv`: while initializations come
one after another, a scan runs in a running scheduler or is the one that is being joined, and only the current
scheduler runs. The threads share no lock, so nothing of this is left once two of them initialize at once; then
`ReadyIsExpiring` still holds. While no exchange has failed (`losses = 0`) the client stays (`AnsweringInv`), and
whenever the manager is left without a scheduler that runs and has its job, some thread is on its way to make, fill or
start one (`Successor`).

`FlagsProofs` proves `TypeCorrect`, `IssuedFlagsStay`, `OwnFlagsAreAccepted`, `OnlyOwnFlagsScore` and `EvidenceIsReal`,
however often the mode is switched. `FlagInv` says that every flag on a row, on a running instance, or in the hands of a
request that is about to score is `Rightful`: static, or issued to that account. Nothing takes a flag out of `issued`,
so what a request read stays rightful while others commit. `TaskInv` keeps the row a request names as evidence real.

`RateLimitProofs` proves `TypeCorrect`, `RefusalsAreDue` and `BurstsAreBounded` for every limit and interval and both
back ends, from `RateAssumption`. With Redis (`RedisWindow`) the window began `Interval - left` ticks ago: the counter
is at most what was asked since, and at least what was let through since; an older span has at most the limit on top.
The local fallback (`LocalWindow`) starts its window again with every request, so all it let through is in the counter.

`ViewPanelProofs` proves `TypeCorrect`, `CallsAreAlone` and `PanelIsRight`. `Alone` says that at most one container call
is in flight, and none while buttons can be clicked; `Prepared` says, of that call, what the panel shows meanwhile and
what the server has made of it, so that the toggles of the answer end in what the server accepts. Both hold up to what
the panel cannot know (`drift`), as the properties do.

Every safety property of a passing run has its theorem. Those that the code keeps under a condition
(`CapacityRespected`, `RunningWithinCapacity`, `NoOrphans`, `ImplementsService`) are proved from that condition, and
checked on an instance that meets it. Only model-checked are `WorkEnds`, `ExpiredAreReaped` and `CallsReturn`: liveness
under fairness rests on `ENABLED`, which is out of the prover's reach.

## 5. Not modelled, and why

* **Challenge fields**: the ranges of ports, values, decay and name lengths in `_normalize_challenge_payload` and
  `form_value` are pure functions of one request. A partial update may leave a minimum above the initial value
  (`__init__.py:88`). What reaches a container (image, volumes, capabilities) is in `Boundary`, `flag_mode` in `Flags`.
* **A second daemon** (`docker_base_url` changed under running instances) and CTFd's own cascading deletes: nothing in
  the plugin takes a step then; both are listed as hazards without a property.
* **Single members of a group** of tables or indexes: a group that is only partly there counts as missing. The next
  start makes the rest of it, name by name, except for `key_indexes`, which stay missing as a group does. The indexes of
  a new table are made in one order of the two groups; the other one leads to databases `MigrationsInit` has anyway.
  Downgrades are called by nothing in the repository.
* **Admin pages** and the scripts of the challenge editor list and fill forms; they change no state.
* CTFd itself, MySQL, Docker, Redis and APScheduler appear as far as the plugin uses them: external definitions.

## 6. Plan

Done, in this order: the lifecycle with its abstract service and first proofs; connection manager; flags; rate limit;
settings; panel; row locks under reconnecting scans; runtime policy and the launch boundary; migrations and the start
of workers; the theorems on every safety property of the runs. Next:

1. A second daemon in `InstanceStore`, for a `docker_base_url` changed under running instances.
2. What is left of the properties when their conditions fall: a bound on an account's rows without advisory locks, and
   on the containers that each lost reply may leave behind.
