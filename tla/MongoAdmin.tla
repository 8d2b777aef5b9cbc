----------------------------- MODULE MongoAdmin -----------------------------
(***************************************************************************)
(* The mongodb side of dbctl: concurrent CreateDB and RemoveDB calls and   *)
(* the scripts of Start, on the mongodb instances of one machine.          *)
(*                                                                         *)
(* A database is named after the clock and made by its first use, so there *)
(* is no statement that creates it and none that could refuse a name.      *)
(* A .json file is imported over the connection of the request.  A .js     *)
(* file is run by docker exec in the first mongodb container that docker   *)
(* lists, whichever instance the request is connected to.                  *)
(*                                                                         *)
(* MongoDB and docker are external and modelled from how the code uses     *)
(* them: dropping a database that does not exist succeeds, and the order   *)
(* of the containers docker lists is not under the control of dbctl.       *)
(***************************************************************************)
EXTENDS Naturals, Sequences
LOCAL INSTANCE SequencesExt

CONSTANTS
    Request,            \* the requests made of the api server
    Instance,           \* the mongodb containers that run, of any project
    Home,               \* Home[r], the instance request r is connected to
    Secured,            \* the instances started with credentials of their own
    InsideDocker,       \* the handlers run in the api server container
    Stamp,              \* the values time.Now().UnixNano() may have
    Tie,                \* two requests may read the same time
    File,               \* the scripts: a name, for the order, and an extension
    MigrationLists,     \* the results of getFiles for the uploaded migrations
    FixtureLists,       \* the results of getFiles for the uploaded fixtures
    BootFiles,          \* BootFiles[i], what dbctl start mdb applies to instance i
    MaxRemovals         \* how often a test may call RemoveDB for one uri

ASSUME InstanceAssumption ==
    /\ Home \in [Request -> Instance]
    /\ Secured \subseteq Instance
    /\ InsideDocker \in BOOLEAN
    /\ Tie \in BOOLEAN
    /\ MaxRemovals \in Nat

ASSUME ScriptAssumption ==
    /\ File \subseteq [name : Nat, ext : {".js", ".json", "other"}]
    /\ MigrationLists \subseteq Seq(File)
    /\ FixtureLists \subseteq Seq(File)
    /\ <<>> \in MigrationLists          \* a request need not upload anything
    /\ <<>> \in FixtureLists
    /\ BootFiles \in [Instance -> Seq(File)]

CONSTANT Admin          \* the database every instance has, DefaultName
ASSUME AdminAssumption == Admin \notin Stamp

VARIABLES
    content,            \* content[i][d], what database d of instance i holds
    pc,                 \* pc[r], where request r is
    files,              \* files[r], its migrations, then its fixtures
    name,               \* name[r], the database made for r
    next,               \* next[r], the next file to apply
    removals,           \* removals[r], how often RemoveDB was called
    bootNext,           \* bootNext[i], the next file the start of i applies
    bootFailed          \* the instances whose start has failed at a file

vars == <<content, pc, files, name, next, removals, bootNext, bootFailed>>

-----------------------------------------------------------------------------
Database == Stamp \cup {Admin}
Content == [applied : Seq(File), writers : SUBSET Request]
Blank == [applied |-> <<>>, writers |-> {}]

Creating == {"connect", "apply"}
Released == {"removed", "uncertain"}
PC == {"idle", "answer", "held", "failed", "lost"} \cup Creating \cup Released

TypeOK ==
    /\ content \in [Instance -> [Database -> Content]]
    /\ pc \in [Request -> PC]
    /\ files \in [Request -> Seq(File)]
    /\ name \in [Request -> Database]
    /\ next \in [Request -> Nat \ {0}]
    /\ removals \in [Request -> 0..MaxRemovals]
    /\ bootNext \in [Instance -> Nat \ {0}]
    /\ bootFailed \subseteq Instance

Goto(r, l) == pc' = [pc EXCEPT ![r] = l]

(* The scripts of a directory, sorted; anything else in it is skipped. *)
getFiles(dir) ==
    SetToSortSeq({f \in dir : f.ext \in {".js", ".json"}}, LAMBDA f, g : f.name < g.name)

-----------------------------------------------------------------------------
(* applyJSScript *)

(* What container.List finds for a handler: every mongodb container,       *)
(* whatever its label.  In the api server container there is no docker to  *)
(* ask.                                                                    *)
containers == IF InsideDocker THEN {} ELSE Instance

(* Mutant: a script runs in the database the instance was started with. *)
applyJSScriptToInstance(f, home, d, listed) ==
    \E i \in CASE f.ext = ".js" -> listed \ Secured
               [] f.ext = ".json" -> {home}
               [] f.ext = "other" -> {} :
        content' = [content EXCEPT ![i][Admin].applied = Append(@, f)]

(* File f is applied to database d, for a caller connected to home, with   *)
(* the containers docker lists for it.  The shell logs in with the default *)
(* credentials.                                                            *)
applyJSScript(f, home, d, listed) ==
    \E i \in CASE f.ext = ".js" -> listed \ Secured
               [] f.ext = ".json" -> {home}
               [] f.ext = "other" -> {} :
        content' = [content EXCEPT ![i][d].applied = Append(@, f)]

-----------------------------------------------------------------------------
(* CreateDB *)

Begin(r) ==
    /\ pc[r] = "idle"
    /\ \E m \in MigrationLists, f \in FixtureLists : files' = [files EXCEPT ![r] = m \o f]
    /\ Goto(r, "connect")
    /\ UNCHANGED <<content, name, next, removals, bootNext, bootFailed>>

Used == {name[q] : q \in Request} \ {Admin}

(* Mutant: the name has no time in it. *)
ConnectUnnamed(r) ==
    /\ pc[r] = "connect"
    /\ name' = [name EXCEPT ![r] = "dbctl_"]
    /\ Goto(r, "apply")
    /\ UNCHANGED <<content, files, next, removals, bootNext, bootFailed>>

(* Mutant: the time is read in seconds. *)
ConnectInSeconds(r) ==
    /\ pc[r] = "connect"
    /\ \E t \in Stamp : name' = [name EXCEPT ![r] = t]
    /\ Goto(r, "apply")
    /\ UNCHANGED <<content, files, next, removals, bootNext, bootFailed>>

(* The connection is up and the clock is read. *)
Connect(r) ==
    /\ pc[r] = "connect"
    /\ \E t \in Stamp :
        /\ Tie \/ t \notin Used
        /\ name' = [name EXCEPT ![r] = t]
    /\ Goto(r, "apply")
    /\ UNCHANGED <<content, files, next, removals, bootNext, bootFailed>>

Apply(r) ==
    /\ pc[r] = "apply"
    /\ next[r] <= Len(files[r])
    /\ applyJSScript(files[r][next[r]], Home[r], name[r], containers)
    /\ next' = [next EXCEPT ![r] = @ + 1]
    /\ UNCHANGED <<pc, files, name, removals, bootNext, bootFailed>>

Answer(r) ==
    /\ pc[r] = "apply"
    /\ next[r] > Len(files[r])
    /\ Goto(r, "answer")
    /\ UNCHANGED <<content, files, name, next, removals, bootNext, bootFailed>>

(* Mutant: the error of a script is logged and the next one applied. *)
CreateGoesOn(r) ==
    /\ pc[r] = "apply"
    /\ next[r] <= Len(files[r])
    /\ next' = [next EXCEPT ![r] = @ + 1]
    /\ UNCHANGED <<content, pc, files, name, removals, bootNext, bootFailed>>

(* The connection or a file fails; a script whose output mentions an error *)
(* has run all the same.  What was applied stays.                          *)
CreateFails(r) ==
    /\ pc[r] \in Creating
    /\ \/ UNCHANGED content
       \/ /\ pc[r] = "apply" /\ next[r] <= Len(files[r])
          /\ applyJSScript(files[r][next[r]], Home[r], name[r], containers)
    /\ Goto(r, "failed")
    /\ UNCHANGED <<files, name, next, removals, bootNext, bootFailed>>

-----------------------------------------------------------------------------
(* The test that made the request *)

Deliver(r) ==
    /\ pc[r] = "answer"
    /\ \E l \in {"held", "lost"} : Goto(r, l)
    /\ UNCHANGED <<content, files, name, next, removals, bootNext, bootFailed>>

Write(r) ==
    /\ pc[r] = "held"
    /\ content' = [content EXCEPT ![Home[r]][name[r]].writers = @ \cup {r}]
    /\ UNCHANGED <<pc, files, name, next, removals, bootNext, bootFailed>>

(* Mutant: the path of the uri keeps its slash, and a database of that     *)
(* name does not exist.                                                    *)
RemoveDBWithSlash(r) ==
    /\ pc[r] \in {"held"} \cup Released
    /\ removals[r] < MaxRemovals
    /\ \E l \in Released : Goto(r, l)
    /\ removals' = [removals EXCEPT ![r] = @ + 1]
    /\ UNCHANGED <<content, files, name, next, bootNext, bootFailed>>

(* The uri names the instance and the database.  The drop succeeds, also   *)
(* when the database is gone already, or it fails with or without having   *)
(* taken effect.  The test may call RemoveDB again.                        *)
RemoveDB(r) ==
    /\ pc[r] \in {"held"} \cup Released
    /\ removals[r] < MaxRemovals
    /\ \/ /\ content' = [content EXCEPT ![Home[r]][name[r]] = Blank]
          /\ \E l \in Released : Goto(r, l)
       \/ /\ UNCHANGED content
          /\ Goto(r, IF pc[r] = "held" THEN "uncertain" ELSE pc[r])
    /\ removals' = [removals EXCEPT ![r] = @ + 1]
    /\ UNCHANGED <<files, name, next, bootNext, bootFailed>>

-----------------------------------------------------------------------------
(* Start's runMigrations and applyFixtures on the instance's own database; *)
(* dbctl start runs on the host, which has docker.                         *)
BootScript(i) ==
    /\ bootNext[i] <= Len(BootFiles[i])
    /\ applyJSScript(BootFiles[i][bootNext[i]], i, Admin, Instance)
    /\ bootNext' = [bootNext EXCEPT ![i] = @ + 1]

BootApply(i) ==
    /\ i \notin bootFailed
    /\ BootScript(i)
    /\ UNCHANGED <<pc, files, name, next, removals, bootFailed>>

(* A file fails, with or without having taken effect, and the rest is not  *)
(* applied; the container keeps running.                                   *)
BootFails(i) ==
    /\ i \notin bootFailed
    /\ bootNext[i] <= Len(BootFiles[i])
    /\ BootScript(i) \/ UNCHANGED <<content, bootNext>>
    /\ bootFailed' = bootFailed \cup {i}
    /\ UNCHANGED <<pc, files, name, next, removals>>

-----------------------------------------------------------------------------
Init ==
    /\ content = [i \in Instance |-> [d \in Database |-> Blank]]
    /\ pc = [r \in Request |-> "idle"]
    /\ files = [r \in Request |-> <<>>]
    /\ name = [r \in Request |-> Admin]
    /\ next = [r \in Request |-> 1]
    /\ removals = [r \in Request |-> 0]
    /\ bootNext = [i \in Instance |-> 1]
    /\ bootFailed = {}

Create(r) == Connect(r) \/ Apply(r) \/ Answer(r) \/ CreateFails(r)

Test(r) == Begin(r) \/ Deliver(r) \/ Write(r) \/ RemoveDB(r)

Next ==
    \/ \E r \in Request : Create(r) \/ Test(r)
    \/ \E i \in Instance : BootApply(i) \/ BootFails(i)

Spec == Init /\ [][Next]_vars

-----------------------------------------------------------------------------
(* Properties *)

Holds(r) == pc[r] \in {"answer", "held"}

(* A list of files is only ever applied where it belongs if it has no .js  *)
(* file, or if there is no other instance such a file could end up in.     *)
Stays(list, home) ==
    \/ Instance = {home}
    \/ \A k \in DOMAIN list : list[k].ext # ".js"

(* A database that CreateDB returned holds the migrations and the fixtures *)
(* of the request, in order, and nothing another test, another project on  *)
(* the same machine or Start applied, until its own RemoveDB.  It holds    *)
(* for the requests whose scripts stay on their instance, also while       *)
(* scripts of other projects stray into that instance.                     *)
HeldAsRequested ==
    \A r \in Request : Holds(r) /\ Stays(files[r], Home[r]) =>
        /\ content[Home[r]][name[r]].applied = files[r]
        /\ content[Home[r]][name[r]].writers \subseteq {r}

(* Once RemoveDB reported success nothing is left of the database, however *)
(* often and with whatever outcome it was called before; a repeated call   *)
(* takes nobody else's database, unlike with redis.                        *)
RemovedIsGone ==
    \A r \in Request : pc[r] = "removed" /\ Stays(files[r], Home[r]) =>
        \A i \in Instance : content[i][name[r]] = Blank

(* The database dbctl start mdb printed the uri of holds what Start        *)
(* applied to it, whatever the tests create and remove ("Create a new      *)
(* MongoDB instance with the new database name", CreateDB), if no Start    *)
(* has a script that may stray; after a failed Start, what it had applied. *)
StartDataKept ==
    (\A i \in Instance : Stays(BootFiles[i], i)) =>
        \A i \in Instance :
            content[i][Admin] =
                [applied |-> SubSeq(BootFiles[i], 1, bootNext[i] - 1), writers |-> {}]

(* What the caller of CreateDB and RemoveDB sees, for the requests whose   *)
(* scripts stay on their instance.                                         *)
Promised(r) == Stays(files[r], Home[r])

StatusOf(r) ==
    CASE pc[r] = "idle" \/ ~Promised(r) -> "idle"
      [] pc[r] \in Creating \cup {"answer"} /\ Promised(r) -> "pending"
      [] pc[r] = "held" /\ Promised(r) -> "held"
      [] pc[r] \in {"failed", "lost"} /\ Promised(r) -> "refused"
      [] pc[r] \in Released /\ Promised(r) -> "removed"

WantOf(r) == IF Promised(r) THEN files[r] ELSE <<>>

GrantedOf(r) ==
    IF pc[r] = "held" /\ Promised(r) THEN content[Home[r]][name[r]] ELSE Blank

Promise ==
    INSTANCE TestDatabases WITH
        status <- [r \in Request |-> StatusOf(r)],
        want <- [r \in Request |-> WantOf(r)],
        granted <- [r \in Request |-> GrantedOf(r)]

(* Every test whose scripts stay on its instance sees a private database   *)
(* as it asked for it, as with postgres and redis.                         *)
ImplementsPromise == Promise!Spec
=============================================================================
