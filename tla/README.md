# A TLA+ model of dbctl

dbctl runs throwaway databases in Docker: `dbctl start pg|rs|mongo` starts a
container and applies migrations and fixtures, `dbctl testing` adds an HTTP server
through which unit tests create and remove their own databases, and `dbctl stop`
removes containers. This directory models the parts of it where several processes,
requests or failures meet, checks them with TLC on small instances and proves the
central invariants with TLAPS for all instances.

## Inventory

| component | state it keeps | operations | what is hard about it |
|---|---|---|---|
| postgres admin (`internal/database/postgres`) | databases on the server: test databases `dbctl_<nanoseconds>`, template databases `dbctl_tpl_<hash>`, the default template | `CreateDB`, `RemoveDB`, the tail of `Start` | concurrent requests build and copy the same template; statements fail half way; names are time stamps; sessions block copies and drops |
| redis admin (`internal/database/redis`) | keys `dbctl:db:<n>` in index 0, the numbered databases | `CreateDB`, `RemoveDB`, fixtures of `Start` | a fixed pool of indexes, claimed and released by different callers; claims survive failures; repeated removals |
| mongodb admin (`internal/database/mongodb`) | databases on the server | `CreateDB`, `RemoveDB`, scripts through `docker exec` | scripts run in whichever mongodb container is listed first |
| lifecycle (`Start`, `startUsingDocker`, `WaitForStart`, `runUI` of each database; `apiserver/container.go`) | containers with labels and ports; one context per process | start in the foreground or detached, with or without a web UI | signals at any moment, deadlines, failures between two docker calls |
| containers (`internal/container`) | none, the daemon's | `Run`, `List`, `RemoveContainer`, `RunExec` | ports are checked and bound at different times, created containers are invisible |
| stop (`cmd/stop.go`) | none | by type, label, id, all | lists first, removes one by one, while others start and stop |
| api server (`internal/apiserver/server.go`) | the instances known at start-up; temporary directories | `/create`, `/remove`, discovery | stale snapshots, ambiguous instances, the client going away |
| migration files (`postgres/config.go`) | none | `getFiles`, `MigrationFiles`, `templateName` | order, suffix rules, hashing without separators |
| clients (`clients/dbctlgo`, `clients/python`) | options, environment | `CreateDB`, `RemoveDB`, `MustCreateDB` | lost answers, cleanup after an explicit removal, names that survive the upload |
| testing command (`cmd/testing`) | the flags of one root command | starts databases in turn, then the api server | one step of several failing, flags that keep their value |
| self-update (`internal/selfupdate`) | the binary on disk, leftovers in `/tmp` and beside it | version comparison, download, two renames | a crash between the renames, releases published meanwhile, leftovers |
| list, describe, table, logger | none | output | nothing |

The parts interact in three ways. The requests of tests reach `database.Admin` through
the api server, and meet each other, and `Start`, on one database server. Start and
stop processes meet on one docker daemon. The api server finds instances through the
labels Start put on their containers.

What makes each part correct:

* admin: every test gets a private database that holds exactly what it asked for;
  what is cached is never incomplete; requests return; what is given back can be reused;
* lifecycle and stop: what was reported as running is running until somebody asks for
  its removal; what a foreground start opened it closes; waiting ends;
* files: migrations are applied once each, in path order, and the cache key tells
  different migrations apart; what the server applies is what the client has on disk;
* discovery: a request reaches the instance that was found for it, and a removal the
  instance of the creation;
* self-update: there is always a complete binary, and never an older one than before.

## Modules

| module | models |
|---|---|
| `TestDatabases` | the abstract specification of `database.Admin`: a request is pending, then held or refused; what it holds is what it wanted plus its own writes |
| `Migrations` | `getFiles`, `MigrationFiles`, `templateName` as operators on directories |
| `PgAdmin` | postgres `CreateDB`, `RemoveDB` and the tail of `Start` |
| `RedisAdmin` | redis `CreateDB`, `RemoveDB`, fixtures of `Start` |
| `MongoAdmin` | mongodb `CreateDB`, `RemoveDB`, scripts of `Start`, on the instances of several projects |
| `Uploads` | files from a client's directory through the multipart body and the temporary directories of `/create` to the admin call; extends `Migrations` |
| `Discovery` | `dbctl testing`, `FindInstance(s)`, `instanceFor`, `applyInstance` and where requests end up while instances come and go |
| `Lifecycle` | start processes of every kind, the api server container, web UIs, `dbctl stop`, on one daemon |
| `SelfUpdate` | `dbctl self-update`: versions, prompt, download, extraction, swap |
| `UploadNamesProofs` | what the operators of `Migrations` and `Uploads` on names and lists of files compute; `UploadsProofs` builds on it |
| `*Proofs` | one for each module with actions but `TestDatabases`: theorems and their proofs |
| `MC*` | instances for TLC |

Operators named `Mutant: ...` in a comment are plausible bugs of the definition that
follows them; each shows that a property can fail. No specification uses them.

### PgAdmin

A request is a sequence of SQL statements, one action each; `pc[r]` says which is next.
`create` is the `switch` in `CreateDB`: `CreateFromDefault`, `CreateEmpty`, and for
uploaded migrations `CreateFromTemplate`, or `TemplateMissing` followed by `build`,
`migrate` (one `ApplyMigration` per file, one transaction each) and `Snapshot`.
`fixtures` applies files to the new database, `answer` waits for the response to be
delivered, which may be lost. `CreateFails` is the failure of any statement, connection
or read, and the cancellation of the request's context: no path cleans up, so what was
created stays. `RemoveDB` is `TerminateBackends` and then `DropDatabase`; in between the
pool of the test may reconnect (`Connect`). A `RemoveDB` repeated after it succeeded is not an
action: the name it drops is a time stamp that no later request is given, so it finds nothing.
`boot` is the tail of `Start`.

Postgres is external: `create database` and `drop database` are atomic, refuse names
that exist, templates that do not, and databases with sessions of others.
A database is the sequence of files applied to it and the set of tests that wrote to it,
which is enough to tell an incomplete, a polluted and a shared database from a good one.

### RedisAdmin

`acquireDBIndex` and `RemoveDB` are Lua scripts, which redis runs atomically: one action
each. `AcquireOutOfRange` is the script failing at `SELECT` after `SETNX` when the count
had to be guessed (`databaseCount`); whether it has to is up to the server (`reported`). A failed request keeps its claim. `RemoveDB` can be
called up to `MaxRemovals` times per request: 1 for a caller that never repeats it, 2 for
a retry or for `MustCreateDB`'s cleanup after an explicit removal. `RemoveInstance` is a
removal with the uri of the instance itself.

### Lifecycle

A starter goes through `create`, `start` (`container.Run`), `wait` (`WaitForStart`),
`setup` (credentials, migrations, fixtures), `uicreate`, `uistart`, and then `done` when
detached or `serve` until a signal, `closeui`, `closedb`. What the kinds do differently is
in two tables: which context errors end the wait (`pgWaitForStart`, `redisWaitForStart`,
`mongoWaitForStart`, `waitForPort`), and what `Start` does when a stage fails (`pgStart`,
`redisStart`, `mongoStart`, `RunAPIServerContainer`): return, close with its own context,
close with a fresh one, or call a nil function. A call whose context is cancelled fails,
and so do up to `MaxFaults` others; a failed call may have taken effect at the daemon.
A stopper lists, then removes one container after the other, and gives up at the first
error. `before` is a history variable: what was running when the stop was called.

### MongoAdmin

A mongodb database comes into being with its first use, so no statement creates it and
none could refuse its name: `Connect` picks a time stamp, and with `Tie` two requests may
read the same one. Each file is an action. A `.json` file goes through the connection of the
request; a `.js` file goes through `docker exec` into the first container docker lists,
which `applyJSScript` models as any mongodb container of the machine without credentials
of its own, and none when the handler runs in the api server container. `Stays` names the
lists of files for which this makes no difference; the properties are about the requests
whose own files stay, while the scripts of all others may stray into their instance.
`CreateFails` includes the script that ran although its output mentions an error.
`RemoveDB` may fail with or without effect and be repeated. The scripts of `Start` run on the
host, which has docker, one by one; one of them may fail, with or without effect, and then the
rest is not applied and the container keeps running (`BootFails`).

### Uploads

Names are sequences of tokens, enough to have separators, percent signs and dots in them, plain
and escaped. The codes of other characters are left out: they stand for letters, which are like
any other token. Parts have a file name: Go's multipart parser takes one without for a form
value, and the handler never sees it as a file. `getFilesList` is the walk of the Go client (`Walked` shows
that a single file walks as "."), `NotDirectory` what only the Python client checks.
`PathEscape`, `Base` (multipart parsing, `ParseMultipartForm`), `PathUnescape`, `Clean` and
`uploadPath` are the stations of a name; `Elements` takes a path apart. `Sorted` is `sort.Strings`
on files whose names differ. `MkdirTemp` takes a directory that does not exist, `End` is the deferred
`os.RemoveAll`, at whichever return the handler ends. `Exit` ends the process in the middle of
its handlers; their directories stay (`left`) and their names are not used again while they
exist. `CallAdmin` lists the directories with the operators of `Migrations`. `SeenAsLocal` does
not use these: it says which files of the client's directory are in the list, and that their
names ascend. The branch of `getFiles` for a path that is a single file is not modelled, since the
handlers always pass directories.

### Discovery

Instances get ids in the order they are started; `up` are those that run. A project runs
`dbctl testing`: its arguments are split at the dashes, each part is a `start -d`, and all
of them share the flags of one root command, so that a label given to one database is
still set for the next and for the api server, and a port or credentials for the next database of
that type (`Flag`, `SetFlags`). `own` has the instance started for each argument. A failure
ends the command and leaves what runs; it may be called again. `seen` is a history variable: what
ran when the api server looked. Its api server only has what
`FindInstances` found when it was started (`known`), a server on the host looks at every
request. A request takes the port and the credentials of the instance found, or the
defaults, and connects later, to whatever listens there by then.

### SelfUpdate

`disk` has the five files an update touches: the executable, `.dbctl.new` and `.dbctl.old`
beside it, the archive and the executable extracted from it in `/tmp`. A file comes from a release and is
whole or not. Each file operation is an action; creating a file and filling it are two.
`CallFails` is any call returning an error, `Kill` the end of the process between any two
steps, `Interrupt` a signal, which only reaches the requests. `Publish` may come between
the version that is proposed and the one that is fetched. `LatestVersion` and `getLastRelease`
are the two questions to GitHub. Renames are atomic; what a machine that loses power
does to files that were not synced is not modelled. One update runs at a time: the code
takes no lock, and nothing is claimed for two.

## Runs

| run | shows |
|---|---|
| `pg_admin` | with two requests, two time stamps that may collide, two migrations and a fixture, and a Start with migrations and fixtures: types, `HeldAsRequested`, `TemplatesComplete`, `NoSharing`, `MaintenanceOnlyFromStart` |
| `pg_promise` | `PgAdmin` implements `TestDatabases`; handlers return |
| `redis_admin` | three requests compete for two indexes, on a server that reports its count and on one whose count is guessed too high: `NoSharing`, `ClaimsExact`, `HeldAsRequested`, `StartDataKept`; `RedisAdmin` implements `TestDatabases`; creates return |
| `lifecycle` | two starters (postgres with UI in the foreground, mongodb with UI detached on a free port, redis, api server), one stopper (by types with a label, by label, by id) and one failing call: `UpUntilStopped`, `ForegroundLeavesNothing`, `StopIsComplete` |
| `lifecycle_live` | two starters and `stop all`: `BootGivesUp`, `ShutdownEnds` |
| `mongo` | two projects with an instance each, two requests with scripts and data, up to two removals: `HeldAsRequested`, `RemovedIsGone`, `StartDataKept`, and `MongoAdmin` implements `TestDatabases` |
| `uploads` | two requests out of ten (both clients, others, nested and odd names, a regex, a single file, a name that is refused) and one end of the server: `SeenAsLocal`, `TempDirsPrivate`, `WrittenWithin`, `AcceptedAsWalked` |
| `discovery` | a project with three command lines, a server on the host, instances of others on the same ports: `ReachedAsFound`, `TestingUsesItsOwn`, `RemovedWhereCreated` |
| `selfupdate` | updates one after the other over up to three builds and releases out of thirteen kinds: `ProgramKept`, `UpdatedAsProposed`, `NeverOlder`, `LeftoversHarmless`, `UpdateEnds` |

Three runs are expected to be violated; each finds a disagreement between the code and
what its documentation or comments say:

| run | property | disagreement |
|---|---|---|
| `redis_retry` | `NoSharing` | a repeated RemoveDB releases an index of somebody else |
| `signal_boot` | `SignalEnds` | Ctrl-C while waiting for the server spins for ever |
| `testing_rerun` | `TestingReachesItsOwn` | after a `dbctl testing` that failed half way, the next one's api server finds two instances and takes none, and its requests go to the default port, to "an instance left behind by an earlier run" |

More disagreements are in the models as what the code does, without a run of their own:

* Start ignores that the default template could not be made (`BootSnapshotFails`), although
  `WithDefaultMigrations` requests then fail;
* with `dbctl start rs --db 1` the index of the instance is not claimed, and the first test is
  given it and flushes it (`FirstFree`; the theorems assume `BootIndex = 0`);
* a redis request that fails after its claim keeps the index until the container goes
  (`CreateFails`, `ClaimsExact` counts it);
* a failing migration leaves the container of `dbctl start` running (`pgStart`, `SetupFails`);
* Ctrl-C before a start serves ends it without removing what it created (`RunFails`,
  `SetupFails`);
* redis Start calls a nil closeFunc when the container or the wait fails (`redisStart`);
* a container that vanishes between listing and removal ends `stop all` early
  (`StopRemoveFails`);
* the web UIs carry no label, so `stop <label>` leaves them (`pgRunUI`, `mongoRunUI`);
* mongodb scripts run in the first container listed, which need not be the instance of the
  request, and not at all in the api server container (`applyJSScript`);
* the containerized api server does not ask docker, contrary to the comment of
  `instanceFor`, and requests without an instance go to the default port, whoever is
  there (`applyInstance`);
* a label given to one database of `dbctl testing` stays set for the following ones and for the
  api server, which then does not find the earlier ones (`SetFlags`);
* every name that ends in `down.sql` is dropped, `cooldown.sql` too (`IsDown`), on both
  sides of an upload alike;
* a single file with a regex for its name uploads nothing, without an error (`Walked`);
* a file whose name begins with `..` is refused (`uploadPath`);
* an update whose archive lacks the executable installs what an earlier download left in
  `/tmp` (`OpenNew`; `ProgramKept` excludes it with `Delivered`), and an archive with directories
  cannot be unpacked twice (`extractTarGz`).

### Bounds

Two postgres requests are enough for every race on a template (a builder and a copier,
or two builders), and two stamps allow both equal and different names; a third request
would only add another of the same kind. The theorems below do not depend on the
number. Two migration files make a half applied schema possible. For redis three
requests and two indexes make the pool run out and make a released index be reused while
a third request waits. For the lifecycle two starters give port conflicts, a shared UI
port and a start of "another project"; one stopper suffices since starters remove
containers too. `MaxFaults = 1`: every error path is taken by itself, and signals and
vanishing containers add failures that cost nothing. `DefaultDatabaseCount` is 16 in the
code and 4 in `redis_admin`, where what matters is that it exceeds `Databases`.
For mongodb two instances are what makes a script stray, and two stamps make names
differ; `Tie` is FALSE in the run, for with a tie two requests share a database and
`HeldAsRequested` is false. `Uploads` has four temporary directories for two requests, so that a name is used again
after a request ended; when the process ends they may run out, which is the failure of
`os.MkdirTemp`. `Discovery` has three ports and at most three instances: enough for an
instance found, gone, and replaced on its port by another one. `SelfUpdate` starts with a
build and a release and adds one: enough for a release between proposal and download, and for an
update on the leftovers of another. `MaxSegment = 2` stands for the width of
`ParseUint`: version 2.3 does not parse.
Processes and requests end, so deadlock is not an error in any run.

### Fairness

`PgAdmin` and `RedisAdmin`: weak fairness of the steps of each handler. A handler is a
goroutine that issues its next statement when the last one returned, and the server
answers. Tests, signals and failures are not fair: none need happen. `Lifecycle`: weak
fairness of the steps of each process and of the timer in `WaitForStart`; a server need
never become ready. `SelfUpdate`: weak fairness of file operations and of requests whose
context is cancelled, which return; nothing is assumed of GitHub, which
`http.DefaultClient` waits for without a timeout, or of the user at the prompt. `MongoAdmin`,
`Uploads` and `Discovery` have no liveness properties and no fairness.

## Theorems

`RedisAdminProofs` and `PgAdminProofs` prove, for every set of requests, every set of
stamps and files, every number of databases and every upload:

* `TypeCorrect` in both modules;
* redis: `IndexesNotShared`, `ClaimsAreExact`, `DatabasesAsRequested`, `StartDataIsKept`.
  They assume `MaxRemovals = 1`, and the last two also `BootIndex = 0`: without these
  assumptions the properties are false, the first of which `redis_retry` shows;
* postgres: `DatabasesNotShared`, `DatabasesAsRequested`, `TemplatesAreComplete`,
  `MaintenanceIsStarts`. They rest on `ListAssumption` (what uploads are) and
  `DigestAssumption` (different uploads have different digests; the code hashes names
  and contents without separators, so this is an assumption about the uploads);
* `KeepsPromise` in both modules: the detailed specification implements `TestDatabases`, step by
  step. Postgres needs nothing more; redis needs `MaxRemovals = 1` and `BootIndex = 0`, for the
  same reasons as above.

`LifecycleProofs` proves, for every number of starters and stoppers, all command lines,
labels and ports, and any bound on failing calls: `TypeCorrect`, `NothingLeft`,
`StopComplete` and `OnlyStopTakes`, from `OptionAssumption` and `TargetAssumption` (the
command lines are ones the program accepts).

`MongoAdminProofs`, for every set of instances, requests, stamps and files: `TypeCorrect`,
and `DatabasesAsRequested`, `RemovedLeavesNothing`, `StartDataIsKept` and the refinement
`KeepsPromise` for `Tie = FALSE`, since two requests with one stamp do share a database.

`SelfUpdateProofs`, for all releases, platforms and bounds: `TypeCorrect`, `ProgramIsKept`,
`UpdateIsAsProposed`, `NeverAnOlderVersion`, `LeftoversAreHarmless`.

`DiscoveryProofs`, for all projects, command lines, servers, instances and requests:
`TypeCorrect`, `RequestsReachWhatWasFound`, `TestingKnowsItsOwn`, `DroppedWhereCreated`.
`TestingKnowsItsOwn` says where requests without a port end up only for an instance that was the
only candidate when the api server was started (`OnlyOne`) and still runs: with several the code takes
none, which `testing_rerun` shows.

`UploadsProofs`, for all requests, calls, files, names and directories and any number of exits:
`TypeCorrect`, `TempDirsArePrivate`, `FilesSeenAsLocal`, `WalkedFilesAccepted`,
`UploadsStayWithin`. They rest on `UploadsAssumption` (what calls are, and that their parts have names) and `WalkAssumption`:
a walk finds finitely many files, no two under one name, and no element of a name it gives is
empty, "." or "..". `filepath.WalkDir` and `os.walk` give names relative to the root made of
the entries of real directories, which are like that. Nothing is assumed of the names
other clients send, and `UploadsStayWithin` is about those too.

`UploadNamesProofs`, for names of any length and any finite directory: `EscapeRoundTrip`
(escaping, multipart parsing and unescaping give a name back), `UploadPathOfWalked` (so do
`Clean` and `uploadPath` for what a walk found), `UploadPathProper` (what `uploadPath` accepts stays
below the directory), `SortedFiles` and `MigrationsInOrder` (a listing has every file once and in
order, and the migrations are the ones that are not down migrations).

The invariants are not inductive as they stand. For postgres two are added, in layers.
`OwnInv`: a request that owns a database has a fresh name, that database exists, no
other request owns it or is attached to it, and a request that does not own one yet is
not attached. `NoSharing` follows: `create database` refuses an existing name, and an
owner's name exists. `DataInv` builds on it: the owner's database holds exactly the
prefix of files its `pc` and `next` say, templates hold their migrations, the default
database holds a prefix of what Start applies. A snapshot is taken only after the last
migration and before the first fixture or connection, so the prefix is the whole list
of migrations and the template is complete. For redis the exact correspondence between
keys and owners (`ClaimsExact`) carries everything: a claimed index is not free, so a
new owner is alone.

For the lifecycle the invariant has a part per process. `Owned` (starters): nothing
exists before it is created, so the life of a container goes one way and a removed one
never returns; the UI is gone when the database is closed. `Progress` (stoppers): what
was running at the call is running or removed for good, the types before `step` are
finished, what is left of the one at `step` is in `todo`. It survives the steps of the
others because a container that exists keeps its labels: only a process that has not
begun chooses its command line. `Asked` and `Up` do the same for the question who may
take a container: all that is in `todo` was asked for, so what a starter misses has a
stopper to blame.

For mongodb, `DataOf` says what the database of a request holds at each `pc`, on its own
instance and on all others. It needs `NameInv` (requests have different names) and `Fresh`
(nothing is ever applied to a name not given out), because a database is not created but
found empty. `StartInv` does the same for the instances' own databases.

For the update, `RunInv` relates what was proposed, fetched and published, and `DiskInv` says
for every `pc` which of the files are whole and whose: the new binary is
whole from the end of the copy to the swap, and the old one is kept from the first rename.
`OrderInv` carries the outcome of the comparison from the prompt, through the second
question, to the installed file; it rests on lemmas that relate `Compare` to the order of versions.

For discovery, `Growth` says what every step leaves of the instances (none changes, none
returns), and `UniquePorts` that a port leads to one instance. `ProjInv` says that every argument
before `next` has an instance of its own that is as it asked for, although flags keep their
values, and that what the server knows is the only candidate among those seen at the time;
`ReqInv` that a port, once taken from an instance, leads to that instance or
that instance is gone.

For the refinements, the mapping of each module says how a request looks through `CreateDB`
and `RemoveDB`: its status, what it wanted and what its database holds. `SameView` is the
heart of the proofs: an internal step of one request, such as building a template, a script that
strays, a session or a failing statement, leaves this view of every request as it is, which
follows from the invariants above (an owner's database is nobody else's). The steps that are
left, such as the answer, a write of the test and the removal, map to the steps of
`TestDatabases`; an answer maps to a grant because `DataInv` says that the database then
holds all files.

For uploads, `Unused`, `Held`, `Owned` and `Claimed` say that directories belong to exactly one
handler that runs, or to nobody after an exit. `Data` adds types, and that no directory has
two files of one name. `Way` follows a request: its parts are the ones its client built from
the walk (`SentAsWalked`, through multipart parsing), a new directory is empty although an
earlier one of that name was not (`Fresh`), and while it unpacks a directory holds exactly the
files of the parts so far (`Filled`). A step of another request leaves this alone because the
directories are private. After the last part the directory holds what the client sent,
and by `SortedFiles` and `MigrationsInOrder` listing it gives what `SeenAsLocal` asks for.

The operators on names are recursive functions over sequences. What they compute is proved by
induction over a set of numbers, the lengths for which the claim holds (`Induction`, from the
fact that a set of numbers has a least element), and every recursive function is shown to
be the iteration of a step (`Iterated`), so that it has the value its definition
suggests. `ElementsJoin` and `JoinElements` say that taking a path apart and joining it are
inverse; `Kept` is the invariant of the loop of `Clean`: ".." is kept only at the beginning, so
a cleaned name that does not begin with ".." has none.

Only model-checked: the liveness properties (`BootGivesUp`, `ShutdownEnds`, `UpdateEnds` and that
handlers return), since liveness under fairness is out of the prover's reach, and the
disagreements the violation runs show.

## Plan

Done: all modules above, and every safety property and refinement of the passing runs as a
theorem. Left:

1. for which uploads `DigestAssumption` follows from the names alone;
2. two self-updates at the same time, if the code ever takes a lock.

## Not modelled

Formatting, logging, tables, `dbctl list` and `dbctl describe`, which only print;
configuration parsing; the splitting of redis commands; image versions and pulls; the
validation of forms beyond whether it succeeds; the sockets of the api server; the
context manager of the Python client, whose requests are those of the Go client; a loss of
power during self-update; two self-updates at the same time.
