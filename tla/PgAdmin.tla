------------------------------- MODULE PgAdmin -------------------------------
(***************************************************************************)
(* The postgres side of dbctl: concurrent CreateDB and RemoveDB calls and  *)
(* the tail of Start (migrations, default template, fixtures) on one       *)
(* postgres server.                                                        *)
(*                                                                         *)
(* Each request is an HTTP handler of the api server (or a direct caller   *)
(* of database.Admin) that issues one SQL statement after the other; the   *)
(* statements of different requests interleave.  A statement, a file read  *)
(* or a connection can fail at any time, the cancellation of the request's *)
(* context included.                                                       *)
(*                                                                         *)
(* Postgres is external and modelled from how the code uses it: create     *)
(* database and drop database are atomic, creating refuses a name that     *)
(* exists, a template that does not, and a template somebody else is       *)
(* connected to; dropping refuses a database somebody is connected to.     *)
(***************************************************************************)
EXTENDS Migrations

CONSTANTS
    Request,            \* the requests made of the server
    Stamp,              \* the values time.Now().UnixNano() may have, repeats allowed
    File,               \* the migration and fixture files
    MigrationLists,     \* the results of MigrationFiles for the uploads, <<>> for none
    FixtureLists,       \* the results of getFiles for the uploaded fixtures
    BootMigrations,     \* the migration files given to dbctl start pg
    BootFixtures        \* the fixture files given to dbctl start pg

ASSUME ListAssumption ==
    /\ MigrationLists \subseteq Seq(File)
    /\ FixtureLists \subseteq Seq(File)
    /\ BootMigrations \in Seq(File)
    /\ BootFixtures \in Seq(File)
    /\ <<>> \in MigrationLists         \* a request need not upload anything
    /\ <<>> \in FixtureLists

(* No two uploads of different migrations have the same digest.  The code  *)
(* feeds names and bodies to the hash without separators, so this is an    *)
(* assumption about the uploads and not a fact.                            *)
ASSUME DigestAssumption ==
    \A m1, m2 \in MigrationLists : digest(m1) = digest(m2) => m1 = m2

VARIABLES
    exists,             \* the databases the server has
    content,            \* content[d], what database d holds
    pc,                 \* pc[r], where request r is
    req,                \* req[r], what r asks for
    name,               \* name[r], the database made for r
    next,               \* next[r], the next file to apply
    maint,              \* requests connected to the maintenance database
    attached,           \* requests whose test is connected to its own database
    boot,               \* where Start is
    bootNext            \* the next file Start applies

vars == <<exists, content, pc, req, name, next, maint, attached, boot, bootNext>>

-----------------------------------------------------------------------------
(* Databases, requests and types *)

DefaultTemplate == <<"dbctl_template">>
Maintenance == <<"postgres">>           \* cfg.name, where Start applies its files
dbName(t) == <<"dbctl", t>>

MigrationTemplates == {templateName(m) : m \in MigrationLists}
Template == {DefaultTemplate} \cup MigrationTemplates
Fresh == {dbName(t) : t \in Stamp}
DB == {Maintenance} \cup Template \cup Fresh

CreateDBRequest ==
    [withDefault : BOOLEAN, migrations : MigrationLists, fixtures : FixtureLists]

(* What a database holds: the files applied to it, in order, and the tests *)
(* that wrote to it since.                                                 *)
Content == [applied : Seq(File), writers : SUBSET Request]
Blank == [applied |-> <<>>, writers |-> {}]

Creating == {"create", "build", "migrate", "fixtures"}
Removing == {"terminate", "drop"}
PC == {"idle", "answer", "held", "removed", "failed", "lost"} \cup Creating \cup Removing

TypeOK ==
    /\ exists \subseteq DB
    /\ content \in [DB -> Content]
    /\ pc \in [Request -> PC]
    /\ req \in [Request -> CreateDBRequest]
    /\ name \in [Request -> DB]
    /\ next \in [Request -> Nat \ {0}]
    /\ maint \subseteq Request
    /\ attached \subseteq Request
    /\ boot \in {"migrate", "snapshot", "fixtures", "running", "failed"}
    /\ bootNext \in Nat \ {0}

(* The schema a request asks for, and all it asks for. *)
Schema(r) == IF req[r].withDefault THEN BootMigrations ELSE req[r].migrations
Want(r) == Schema(r) \o req[r].fixtures

-----------------------------------------------------------------------------
(* The statements *)

(* The sessions on a database other than the one that creates from it. *)
Sessions(d) ==
    IF d = Maintenance THEN maint ELSE {r \in attached : name[r] = d}

(* Mutant: create database if not exists. *)
createDatabaseIfNotExists(d) ==
    /\ exists' = exists \cup {d}
    /\ content' = [content EXCEPT ![d] = IF d \in exists THEN @ ELSE Blank]

createDatabase(d) ==
    /\ d \notin exists
    /\ exists' = exists \cup {d}
    /\ content' = [content EXCEPT ![d] = Blank]

(* Mutant: a database of that name is replaced. *)
replaceDatabaseWithTemplate(d, template, own) ==
    /\ template \in exists
    /\ Sessions(template) \subseteq own
    /\ exists' = exists \cup {d}
    /\ content' = [content EXCEPT ![d] = content[template]]

createDatabaseWithTemplate(d, template, own) ==
    /\ template \in exists
    /\ d \notin exists
    /\ Sessions(template) \subseteq own
    /\ exists' = exists \cup {d}
    /\ content' = [content EXCEPT ![d] = content[template]]

(* One file, one transaction: a file is applied as a whole or not at all. *)
applyInTx(d, file) ==
    content' = [content EXCEPT ![d].applied = Append(@, file)]

Goto(r, l) == pc' = [pc EXCEPT ![r] = l]

-----------------------------------------------------------------------------
(* CreateDB *)

Begin(r) ==
    /\ pc[r] = "idle"
    /\ Goto(r, "create")
    /\ \E q \in CreateDBRequest : req' = [req EXCEPT ![r] = q]
    /\ \E t \in Stamp : name' = [name EXCEPT ![r] = dbName(t)]
    /\ maint' = maint \cup {r}
    /\ UNCHANGED <<exists, content, next, attached, boot, bootNext>>

(* case req.WithDefaultMigrations *)
CreateFromDefault(r) ==
    /\ pc[r] = "create"
    /\ req[r].withDefault
    /\ createDatabaseWithTemplate(name[r], DefaultTemplate, {r})
    /\ Goto(r, "fixtures")
    /\ next' = [next EXCEPT ![r] = 1]
    /\ UNCHANGED <<req, name, maint, attached, boot, bootNext>>

(* case len(req.Migrations) == 0, and a directory without up migrations *)
CreateEmpty(r) ==
    /\ pc[r] = "create"
    /\ ~req[r].withDefault
    /\ req[r].migrations = <<>>
    /\ createDatabase(name[r])
    /\ Goto(r, "fixtures")
    /\ next' = [next EXCEPT ![r] = 1]
    /\ UNCHANGED <<req, name, maint, attached, boot, bootNext>>

CreateFromTemplate(r) ==
    /\ pc[r] = "create"
    /\ ~req[r].withDefault
    /\ req[r].migrations # <<>>
    /\ createDatabaseWithTemplate(name[r], templateName(req[r].migrations), {r})
    /\ Goto(r, "fixtures")
    /\ next' = [next EXCEPT ![r] = 1]
    /\ UNCHANGED <<req, name, maint, attached, boot, bootNext>>

(* errDatabaseNotExists: the migrations have to be run *)
TemplateMissing(r) ==
    /\ pc[r] = "create"
    /\ ~req[r].withDefault
    /\ req[r].migrations # <<>>
    /\ templateName(req[r].migrations) \notin exists
    /\ Goto(r, "build")
    /\ UNCHANGED <<exists, content, req, name, next, maint, attached, boot, bootNext>>

CreateToMigrate(r) ==
    /\ pc[r] = "build"
    /\ createDatabase(name[r])
    /\ Goto(r, "migrate")
    /\ next' = [next EXCEPT ![r] = 1]
    /\ UNCHANGED <<req, name, maint, attached, boot, bootNext>>

ApplyMigration(r) ==
    /\ pc[r] = "migrate"
    /\ next[r] <= Len(req[r].migrations)
    /\ applyInTx(name[r], req[r].migrations[next[r]])
    /\ next' = [next EXCEPT ![r] = @ + 1]
    /\ UNCHANGED <<exists, pc, req, name, maint, attached, boot, bootNext>>

(* Mutant: the template is named after the request's own directory. *)
SnapshotByPath(r) ==
    /\ pc[r] = "migrate"
    /\ next[r] > Len(req[r].migrations)
    /\ createDatabaseWithTemplate(<<"dbctl_tpl", r>>, name[r], {r})
    /\ Goto(r, "fixtures")
    /\ next' = [next EXCEPT ![r] = 1]
    /\ UNCHANGED <<req, name, maint, attached, boot, bootNext>>

Snapshot(r) ==
    /\ pc[r] = "migrate"
    /\ next[r] > Len(req[r].migrations)
    /\ createDatabaseWithTemplate(templateName(req[r].migrations), name[r], {r})
    /\ Goto(r, "fixtures")
    /\ next' = [next EXCEPT ![r] = 1]
    /\ UNCHANGED <<req, name, maint, attached, boot, bootNext>>

(* Mutant: the handler waits until it can take the snapshot itself. *)
SnapshotWaits(r) ==
    /\ pc[r] = "migrate"
    /\ next[r] > Len(req[r].migrations)
    /\ templateName(req[r].migrations) \notin exists
    /\ Goto(r, "fixtures")
    /\ next' = [next EXCEPT ![r] = 1]
    /\ UNCHANGED <<exists, content, req, name, maint, attached, boot, bootNext>>

(* Somebody else made the template meanwhile, or the statement failed: it  *)
(* is logged and the request goes on.                                      *)
SnapshotFails(r) ==
    /\ pc[r] = "migrate"
    /\ next[r] > Len(req[r].migrations)
    /\ Goto(r, "fixtures")
    /\ next' = [next EXCEPT ![r] = 1]
    /\ UNCHANGED <<exists, content, req, name, maint, attached, boot, bootNext>>

(* Mutant: fixtures run on the maintenance connection. *)
ApplyFixtureOnMaintenance(r) ==
    /\ pc[r] = "fixtures"
    /\ next[r] <= Len(req[r].fixtures)
    /\ applyInTx(Maintenance, req[r].fixtures[next[r]])
    /\ next' = [next EXCEPT ![r] = @ + 1]
    /\ UNCHANGED <<exists, pc, req, name, maint, attached, boot, bootNext>>

ApplyFixture(r) ==
    /\ pc[r] = "fixtures"
    /\ next[r] <= Len(req[r].fixtures)
    /\ applyInTx(name[r], req[r].fixtures[next[r]])
    /\ next' = [next EXCEPT ![r] = @ + 1]
    /\ UNCHANGED <<exists, pc, req, name, maint, attached, boot, bootNext>>

Answer(r) ==
    /\ pc[r] = "fixtures"
    /\ next[r] > Len(req[r].fixtures)
    /\ Goto(r, "answer")
    /\ maint' = maint \ {r}
    /\ UNCHANGED <<exists, content, req, name, next, attached, boot, bootNext>>

(* Postgres refuses the statement: the name is taken, or there is no       *)
(* default template.                                                       *)
CreateRefused(r) ==
    /\ pc[r] \in {"create", "build"}
    /\ \/ name[r] \in exists
       \/ req[r].withDefault /\ DefaultTemplate \notin exists
    /\ Goto(r, "failed")
    /\ maint' = maint \ {r}
    /\ UNCHANGED <<exists, content, req, name, next, attached, boot, bootNext>>

(* Mutant: the error of a migration file is logged and the next one runs. *)
CreateFailsButGoesOn(r) ==
    /\ pc[r] = "migrate"
    /\ next' = [next EXCEPT ![r] = @ + 1]
    /\ UNCHANGED <<exists, content, pc, req, name, maint, attached, boot, bootNext>>

(* A statement, a connection or a file read fails, or the context of the   *)
(* request is cancelled: the error is returned and what was created stays. *)
CreateFails(r) ==
    /\ pc[r] \in Creating
    /\ Goto(r, "failed")
    /\ maint' = maint \ {r}
    /\ UNCHANGED <<exists, content, req, name, next, attached, boot, bootNext>>

-----------------------------------------------------------------------------
(* The test that made the request *)

(* The response reaches the client, or the client is gone. *)
Deliver(r) ==
    /\ pc[r] = "answer"
    /\ \E l \in {"held", "lost"} : Goto(r, l)
    /\ UNCHANGED <<exists, content, req, name, next, maint, attached, boot, bootNext>>

(* The connection pool of the test may reconnect until the test ends, even *)
(* while RemoveDB is under way.                                            *)
Connect(r) ==
    /\ pc[r] \in {"held"} \cup Removing
    /\ name[r] \in exists
    /\ attached' = attached \cup {r}
    /\ UNCHANGED <<exists, content, pc, req, name, next, maint, boot, bootNext>>

Write(r) ==
    /\ r \in attached
    /\ content' = [content EXCEPT ![name[r]].writers = @ \cup {r}]
    /\ UNCHANGED <<exists, pc, req, name, next, maint, attached, boot, bootNext>>

-----------------------------------------------------------------------------
(* RemoveDB *)

(* A call repeated after a success is not an action: it drops, if it       *)
(* exists, a name that is gone and that the clock does not give again.     *)
RemoveBegin(r) ==
    /\ pc[r] = "held"
    /\ Goto(r, "terminate")
    /\ maint' = maint \cup {r}
    /\ UNCHANGED <<exists, content, req, name, next, attached, boot, bootNext>>

TerminateBackends(r) ==
    /\ pc[r] = "terminate"
    /\ attached' = {q \in attached : name[q] # name[r]}
    /\ Goto(r, "drop")
    /\ UNCHANGED <<exists, content, req, name, next, maint, boot, bootNext>>

DropDatabase(r) ==
    /\ pc[r] = "drop"
    /\ Sessions(name[r]) = {}
    /\ exists' = exists \ {name[r]}
    /\ Goto(r, "removed")
    /\ maint' = maint \ {r}
    /\ UNCHANGED <<content, req, name, next, attached, boot, bootNext>>

(* A session came back between the two statements. *)
DropRefused(r) ==
    /\ pc[r] = "drop"
    /\ Sessions(name[r]) # {}
    /\ Goto(r, "held")
    /\ maint' = maint \ {r}
    /\ UNCHANGED <<exists, content, req, name, next, attached, boot, bootNext>>

(* Any other failure.  The test may call RemoveDB again. *)
RemoveFails(r) ==
    /\ pc[r] \in Removing
    /\ Goto(r, "held")
    /\ maint' = maint \ {r}
    /\ UNCHANGED <<exists, content, req, name, next, attached, boot, bootNext>>

-----------------------------------------------------------------------------
(* Start, once the server accepts connections *)

BootMigrate ==
    /\ boot = "migrate"
    /\ bootNext <= Len(BootMigrations)
    /\ applyInTx(Maintenance, BootMigrations[bootNext])
    /\ bootNext' = bootNext + 1
    /\ UNCHANGED <<exists, pc, req, name, next, maint, attached, boot>>

(* Mutant: the fixtures are applied before the snapshot. *)
BootMigratedWithFixtures ==
    /\ boot = "migrate"
    /\ bootNext > Len(BootMigrations)
    /\ content' = [content EXCEPT ![Maintenance].applied = @ \o BootFixtures]
    /\ boot' = "snapshot"
    /\ UNCHANGED <<exists, pc, req, name, next, maint, attached, bootNext>>

(* Without migrations Start makes no template and applies no fixtures. *)
BootMigrated ==
    /\ boot = "migrate"
    /\ bootNext > Len(BootMigrations)
    /\ boot' = IF BootMigrations = <<>> THEN "running" ELSE "snapshot"
    /\ UNCHANGED <<exists, content, pc, req, name, next, maint, attached, bootNext>>

BootSnapshot ==
    /\ boot = "snapshot"
    /\ createDatabaseWithTemplate(DefaultTemplate, Maintenance, {})
    /\ boot' = "fixtures"
    /\ bootNext' = 1
    /\ UNCHANGED <<pc, req, name, next, maint, attached>>

(* A request is connected to the database being copied, the connection or  *)
(* the statement fails, or Start was cancelled.  The error is dropped.     *)
BootSnapshotFails ==
    /\ boot = "snapshot"
    /\ boot' = "fixtures"
    /\ bootNext' = 1
    /\ UNCHANGED <<exists, content, pc, req, name, next, maint, attached>>

BootFixture ==
    /\ boot = "fixtures"
    /\ bootNext <= Len(BootFixtures)
    /\ applyInTx(Maintenance, BootFixtures[bootNext])
    /\ bootNext' = bootNext + 1
    /\ UNCHANGED <<exists, pc, req, name, next, maint, attached, boot>>

BootDone ==
    /\ boot = "fixtures"
    /\ bootNext > Len(BootFixtures)
    /\ boot' = "running"
    /\ UNCHANGED <<exists, content, pc, req, name, next, maint, attached, bootNext>>

(* A file fails: Start returns, the server keeps running. *)
BootFails ==
    /\ boot \in {"migrate", "fixtures"}
    /\ boot' = "failed"
    /\ UNCHANGED <<exists, content, pc, req, name, next, maint, attached, bootNext>>

-----------------------------------------------------------------------------
Init ==
    /\ exists = {Maintenance}
    /\ content = [d \in DB |-> Blank]
    /\ pc = [r \in Request |-> "idle"]
    /\ req = [r \in Request |-> [withDefault |-> FALSE, migrations |-> <<>>, fixtures |-> <<>>]]
    /\ name = [r \in Request |-> Maintenance]
    /\ next = [r \in Request |-> 1]
    /\ maint = {}
    /\ attached = {}
    /\ boot = "migrate"
    /\ bootNext = 1

(* The steps of the handlers, those of the tests, and what may go wrong. *)
Create(r) ==
    \/ CreateFromDefault(r)
    \/ CreateEmpty(r)
    \/ CreateFromTemplate(r)
    \/ TemplateMissing(r)
    \/ CreateToMigrate(r)
    \/ ApplyMigration(r)
    \/ Snapshot(r)
    \/ SnapshotFails(r)
    \/ ApplyFixture(r)
    \/ Answer(r)
    \/ CreateRefused(r)

removePostgresDB(r) ==
    \/ TerminateBackends(r)
    \/ DropDatabase(r)
    \/ DropRefused(r)

Test(r) ==
    \/ Begin(r)
    \/ Deliver(r)
    \/ Connect(r)
    \/ Write(r)
    \/ RemoveBegin(r)

Fault(r) ==
    \/ CreateFails(r)
    \/ RemoveFails(r)

Start ==
    \/ BootMigrate
    \/ BootMigrated
    \/ BootSnapshot
    \/ BootSnapshotFails
    \/ BootFixture
    \/ BootDone
    \/ BootFails

Next ==
    \/ \E r \in Request : Create(r) \/ removePostgresDB(r) \/ Test(r) \/ Fault(r)
    \/ Start

(* A handler that has a statement to run runs it, and postgres answers.    *)
(* Nothing makes a test, or a failure, happen.                             *)
Fairness ==
    \A r \in Request : WF_vars(Create(r)) /\ WF_vars(removePostgresDB(r))

Spec == Init /\ [][Next]_vars /\ Fairness
-----------------------------------------------------------------------------
(* Properties *)

(* The requests that have a database on the server that is theirs. *)
Owns(r) == pc[r] \in {"migrate", "fixtures", "answer", "held"} \cup Removing
Holds(r) == pc[r] \in {"answer", "held"} \cup Removing

(* A database that CreateDB returned exists until its own RemoveDB drops   *)
(* it, holds exactly the schema and the fixtures asked for, in order, and  *)
(* was written to by nobody but its own test: whether it was copied from a *)
(* template, migrated, or made while another request with the same         *)
(* migrations, or the same time stamp, was under way (CreateDB, pg.go).    *)
HeldAsRequested ==
    \A r \in Request : Holds(r) =>
        /\ name[r] \in exists
        /\ content[name[r]].applied = Want(r)
        /\ content[name[r]].writers \subseteq {r}

(* A cached template holds all of its migrations and nothing else: no half *)
(* applied schema of a request that failed, no fixture, no row a test      *)
(* wrote.  The default template holds the migrations of Start and none of  *)
(* its fixtures (createDatabaseFromMigrations, Start).                     *)
TemplatesComplete ==
    /\ \A m \in MigrationLists :
         templateName(m) \in exists =>
             content[templateName(m)] = [applied |-> m, writers |-> {}]
    /\ DefaultTemplate \in exists =>
         content[DefaultTemplate] = [applied |-> BootMigrations, writers |-> {}]

(* Two requests never work on one database, although their names are only  *)
(* time stamps: create database refuses the second (CreateDB).             *)
NoSharing ==
    \A r, q \in Request : r # q /\ Owns(r) /\ Owns(q) => name[r] # name[q]

(* The maintenance connection a request holds is never what its migrations *)
(* and fixtures are applied to: the default database only ever holds what  *)
(* Start applied (the comment in CreateDB above applyFixturesFromDir).     *)
MaintenanceOnlyFromStart ==
    \E k \in 0..Len(BootMigrations \o BootFixtures) :
        content[Maintenance] = [applied |-> SubSeq(BootMigrations \o BootFixtures, 1, k),
                                writers |-> {}]

(* Every CreateDB and RemoveDB returns, with or without an error, even     *)
(* when no statement fails by itself: a request never waits for the        *)
(* template another one is building, nor for the sessions of a test.       *)
HandlersReturn ==
    \A r \in Request :
        /\ pc[r] \in Creating ~> pc[r] \notin Creating
        /\ pc[r] \in Removing ~> pc[r] \notin Removing

(* What the caller of CreateDB and RemoveDB sees: TestDatabases.           *)
StatusOf(r) ==
    CASE pc[r] = "idle" -> "idle"
      [] pc[r] \in Creating \cup {"answer"} -> "pending"
      [] pc[r] \in {"held"} \cup Removing -> "held"
      [] pc[r] \in {"failed", "lost"} -> "refused"
      [] pc[r] = "removed" -> "removed"

WantOf(r) == IF pc[r] = "idle" THEN <<>> ELSE Want(r)

GrantedOf(r) == IF pc[r] \in {"held"} \cup Removing THEN content[name[r]] ELSE Blank

Promise ==
    INSTANCE TestDatabases WITH
        status <- [r \in Request |-> StatusOf(r)],
        want <- [r \in Request |-> WantOf(r)],
        granted <- [r \in Request |-> GrantedOf(r)]

(* Through the template cache, with concurrent requests, failures and      *)
(* colliding time stamps, every test sees its own private database.        *)
ImplementsPromise == Promise!Spec
=============================================================================
